------------------------- MODULE PacketEngineProofs -------------------------
(***************************************************************************)
(* Proofs about the packet engine: TcpPeer, for every modulus of the       *)
(* sequence space and any number of segments, packets of others and        *)
(* losses; PacketRecorder; and the resources, the records and the plot of  *)
(* PacketSession.  The three share no names, so one module holds the       *)
(* proofs about all of them.                                               *)
(***************************************************************************)
EXTENDS TcpPeer, PacketRecorder, PacketSession, FiniteSetTheorems, TLAPS

-----------------------------------------------------------------------------
(***************************************************************************)
(* Numbers of the sequence space.                                          *)
(***************************************************************************)

\* What the modulus does to a sum of two numbers of the space.
LEMMA WrapType ==
    ASSUME NEW n \in Nat
    PROVE  Wrap(n) \in Numbers /\ Seq32(n) \in Numbers /\ Seq32(n) = Wrap(n)
BY PeerAssumption DEF Wrap, Seq32, Numbers

\* The modulus is taken off at most once.
LEMMA WrapValue ==
    ASSUME NEW n \in Nat
    PROVE  /\ n < Modulus => Wrap(n) = n
           /\ Modulus <= n /\ n < 2 * Modulus => Wrap(n) = n - Modulus
BY PeerAssumption DEF Wrap

\* The distance from one number forward to another.
Dist(a, b) == Wrap(b + Modulus - a)

\* That distance, without the modulus.
LEMMA DistValue ==
    ASSUME NEW a \in Numbers, NEW b \in Numbers
    PROVE  /\ Dist(a, b) \in Nat /\ Dist(a, b) < Modulus
           /\ a <= b => Dist(a, b) = b - a
           /\ b < a  => Dist(a, b) = b + Modulus - a
<1> DEFINE n == b + Modulus - a
<1>1. n \in Nat /\ n < 2 * Modulus /\ (a <= b => n >= Modulus) /\ (b < a => n < Modulus)
  BY PeerAssumption DEF Numbers
<1>2. Wrap(n) \in Numbers
  BY <1>1, WrapType
<1>3. a <= b => Wrap(n) = b - a
  BY <1>1, WrapValue, PeerAssumption DEF Numbers
<1>4. b < a => Wrap(n) = b + Modulus - a
  BY <1>1, WrapValue, PeerAssumption DEF Numbers
<1> QED
  BY <1>2, <1>3, <1>4, PeerAssumption DEF Numbers, Dist

\* A number is at distance 0 from itself.
LEMMA DistSelf ==
    ASSUME NEW a \in Numbers
    PROVE  Dist(a, a) = 0
BY DistValue, PeerAssumption DEF Numbers

\* Going on from b by n that does not come round to a.
LEMMA DistAdvance ==
    ASSUME NEW a \in Numbers, NEW b \in Numbers, NEW n \in Nat, Dist(a, b) + n < Modulus
    PROVE  /\ Wrap(b + n) \in Numbers
           /\ Dist(a, Wrap(b + n)) = Dist(a, b) + n
<1> DEFINE c == Wrap(b + n)
<1>1. b + n \in Nat /\ n < Modulus /\ b + n < 2 * Modulus
  BY DistValue, PeerAssumption DEF Numbers
<1>2. c \in Numbers
  BY <1>1, WrapType
<1>3. (b + n < Modulus => c = b + n) /\ (Modulus <= b + n => c = b + n - Modulus)
  <2> DEFINE m == b + n
  <2>1. m \in Nat /\ m < 2 * Modulus
    BY <1>1
  <2> HIDE DEF m
  <2>2. (m < Modulus => Wrap(m) = m) /\ (Modulus <= m => Wrap(m) = m - Modulus)
    BY <2>1, WrapValue
  <2>3. Wrap(m) = c
    BY DEF m, c
  <2>4. m = b + n
    BY DEF m
  <2> HIDE DEF c
  <2> QED
    BY <2>1, <2>2, <2>3, <2>4, PeerAssumption DEF Numbers
<1> HIDE DEF c
<1>4. /\ a <= b => Dist(a, b) = b - a
      /\ b < a  => Dist(a, b) = b + Modulus - a
  BY DistValue
<1>5. /\ a <= c => Dist(a, c) = c - a
      /\ c < a  => Dist(a, c) = c + Modulus - a
  BY <1>2, DistValue
<1>6. Dist(a, c) = Dist(a, b) + n
  BY <1>1, <1>2, <1>3, <1>4, <1>5, PeerAssumption DEF Numbers
<1> QED
  BY <1>2, <1>6 DEF c

\* Measuring from b, which is not behind a, what is not behind b.
LEMMA DistRebase ==
    ASSUME NEW a \in Numbers, NEW b \in Numbers, NEW c \in Numbers, Dist(a, b) <= Dist(a, c)
    PROVE  Dist(b, c) = Dist(a, c) - Dist(a, b)
<1>1. /\ a <= b => Dist(a, b) = b - a
      /\ b < a  => Dist(a, b) = b + Modulus - a
  BY DistValue
<1>2. /\ a <= c => Dist(a, c) = c - a
      /\ c < a  => Dist(a, c) = c + Modulus - a
  BY DistValue
<1>3. /\ b <= c => Dist(b, c) = c - b
      /\ c < b  => Dist(b, c) = c + Modulus - b
  BY DistValue
<1> QED
  BY <1>1, <1>2, <1>3, PeerAssumption DEF Numbers

\* What d data segments of the DUT take never comes round.
LEMMA Room ==
    ASSUME NEW d \in Nat, d < MaxData, NEW n \in 1..MaxLen, NEW x \in Nat, x <= d * MaxLen
    PROVE  x + n <= (d + 1) * MaxLen /\ x + n < Modulus
<1>1. MaxLen \in Nat /\ MaxData \in Nat /\ Modulus \in Nat /\ n \in Nat /\ n <= MaxLen
  BY PeerAssumption
<1>2. (d + 1) * MaxLen = d * MaxLen + MaxLen /\ d * MaxLen \in Nat
  BY <1>1
<1>3. (d + 1) * MaxLen <= MaxData * MaxLen
  BY <1>1
<1>4. MaxData * MaxLen < Modulus /\ MaxData * MaxLen \in Nat
  BY <1>1, PeerAssumption
<1> QED
  BY <1>1, <1>2, <1>3, <1>4

-----------------------------------------------------------------------------
(***************************************************************************)
(* Queues.                                                                 *)
(***************************************************************************)
\* A packet put into a queue.
LEMMA AppendFacts ==
    ASSUME NEW S, NEW s \in Seq(S), NEW x \in S
    PROVE  /\ Append(s, x) \in Seq(S) /\ Len(s) \in Nat
           /\ Len(Append(s, x)) = Len(s) + 1
           /\ \A i \in 1..Len(s) : Append(s, x)[i] = s[i] /\ s[i] \in S
           /\ Append(s, x)[Len(s) + 1] = x
OBVIOUS

\* A packet taken off a queue.
LEMMA TailFacts ==
    ASSUME NEW S, NEW s \in Seq(S), s # <<>>
    PROVE  /\ Tail(s) \in Seq(S) /\ Len(s) \in Nat /\ Len(s) >= 1
           /\ Head(s) = s[1] /\ s[1] \in S
           /\ Len(Tail(s)) = Len(s) - 1
           /\ \A i \in 1..Len(Tail(s)) : Tail(s)[i] = s[i + 1] /\ i + 1 \in 1..Len(s)
OBVIOUS

\* What a segment takes of the sequence space.
LEMMA TakesFacts ==
    ASSUME NEW f, NEW n \in Nat
    PROVE  /\ Takes(f, n) \in Nat
           /\ Cardinality(f \cap {"SYN", "FIN"}) \in Nat
           /\ f \in {{"ACK"}, {"ACK", "FIN"}, {"RST"}}
                 => Takes(f, n) = n + Cardinality(f \cap {"SYN", "FIN"})
<1>1. IsFiniteSet({"SYN", "FIN"})
  <2>1. IsFiniteSet({"SYN"}) /\ IsFiniteSet({"FIN"})
    BY FS_Singleton
  <2>2. {"SYN", "FIN"} = {"SYN"} \cup {"FIN"}
    OBVIOUS
  <2> QED
    BY <2>1, <2>2, FS_Union
<1>2. IsFiniteSet(f \cap {"SYN", "FIN"})
  BY <1>1, FS_Subset
<1>3. Cardinality(f \cap {"SYN", "FIN"}) \in Nat
  BY <1>2, FS_CardinalityType
<1>4. CASE f \in {{"ACK"}, {"RST"}}
  <2>1. f \cap {"SYN", "FIN"} = {}
    BY <1>4
  <2>2. Cardinality(f \cap {"SYN", "FIN"}) = 0
    BY <2>1, FS_EmptySet
  <2>3. Takes(f, n) = n
    BY <2>1 DEF Takes
  <2> QED
    BY <1>3, <2>2, <2>3
<1>5. CASE f = {"ACK", "FIN"}
  <2>1. f \cap {"SYN", "FIN"} = {"FIN"}
    BY <1>5
  <2>2. Cardinality({"FIN"}) = 1
    BY FS_Singleton
  <2>3. Cardinality(f \cap {"SYN", "FIN"}) = 1
    BY <2>1, <2>2
  <2>4. Takes(f, n) = n + 1
    BY <2>1 DEF Takes
  <2> QED
    BY <1>3, <2>3, <2>4
<1>6. Takes(f, n) \in Nat
  BY DEF Takes
<1> QED
  BY <1>3, <1>4, <1>5, <1>6

-----------------------------------------------------------------------------
(***************************************************************************)
(* The peer's inductive invariant.                                         *)
(***************************************************************************)
\* The packets there are.
Hosts    == {"us", "dut", "nobody"} \cup {p.src : p \in Noise} \cup {p.dst : p \in Noise}
Protos   == {"tcp", "udp", "icmp", "none"} \cup {p.proto : p \in Noise}
Flags    == {"SYN", "ACK", "FIN", "RST", "request", "reply"} \cup UNION {p.flags : p \in Noise}
Segments == [src : Hosts, dst : Hosts, proto : Protos, flags : SUBSET Flags,
             seq : Numbers, ack : Numbers, len : Nat]

\* What each part of the state is.
DutStates == {"closed", "syn-sent", "syn-received", "established", "reset"}

Typed ==
    /\ TypeOK
    /\ toDut \in Seq(Segments) /\ toUs \in Seq(Segments) /\ seen \in Segments
    /\ dut \in [state : DutStates, snd : Numbers, una : Numbers, rcv : Numbers]
    /\ job = "connect" => pc \in {"syn", "connecting", "ack", "open", "closed", "nothing"}
    /\ job # "connect" => pc \in {"sniff", "reply", "gap", "sniff again", "served", "nothing"}

\* Which of the packets on their way to the suite the DUT sent.
FromDut(i) == toUs[i].src = "dut"
NoneFromDut == \A i \in 1..Len(toUs) : toUs[i].src # "dut"

\* A UDP or ICMP responder sends no TCP segment.
EchoOK ==
    job \in {"udp-serve", "icmp-serve"} =>
      /\ protested = FALSE
      /\ \A i \in 1..Len(toDut) : toDut[i].proto # "tcp"

\* A TCP responder answers once, and what it answers is the DUT's SYN.
ServeReply ==
    /\ protested = FALSE
    /\ dut.state \in {"closed", "syn-sent", "established"}
    /\ pc \in {"sniff", "reply", "nothing"} => toDut = <<>>
    /\ pc \in {"sniff", "reply"} => dut.state # "established"
    /\ Len(toDut) <= 1
    /\ \A i \in 1..Len(toDut) : toDut[i].dst = "dut" =>
          /\ dut.state = "syn-sent" /\ toDut[i].ack = dut.snd
          /\ toDut[i].flags = {"SYN", "ACK"}
    /\ pc = "reply" /\ seen.src = "dut" =>
          dut.state # "closed" /\ dut.snd = Wrap(seen.seq + 1)

\* A SYN of the DUT is the one it opened with.
ServeSyn ==
    \A i \in 1..Len(toUs) : FromDut(i) /\ "SYN" \in toUs[i].flags =>
       dut.state # "closed" /\ dut.snd = Wrap(toUs[i].seq + 1)

\* The acknowledgement of a DUT that has completed the handshake is on its way until
\* the second sniff returns it.
ServeAck ==
    dut.state = "established" /\ lost = FALSE /\ missed = FALSE =>
       \/ pc = "served"
       \/ /\ pc \in {"gap", "sniff again"}
          /\ \E i \in 1..Len(toUs) : FromDut(i) /\ FinalAck(toUs[i])

ServeOK == job = "tcp-serve" => ServeReply /\ ServeSyn /\ ServeAck

\* The segments on their way to the DUT take up the sequence space from what it
\* expects next to what the tracker has next.
OurFlags == {{"ACK"}, {"ACK", "FIN"}, {"RST"}}
SeqAt(i) == IF i <= Len(toDut) THEN toDut[i].seq ELSE seq

Chain ==
    /\ SeqAt(1) = dut.rcv
    /\ \A i \in 1..Len(toDut) :
          /\ toDut[i].flags \in OurFlags
          /\ "RST" \in toDut[i].flags => i = Len(toDut) /\ pc = "closed"
          /\ SeqAt(i + 1) = Seq32(toDut[i].seq + Takes(toDut[i].flags, toDut[i].len))

\* How far a number is past the last one the suite acknowledged to the DUT.
Past(n) == Dist(dut.una, n)

\* What the suite acknowledges only grows, up to what it has received, ...
OrderOut ==
    /\ Past(dut.snd) <= data.dut * MaxLen
    /\ Past(ack) <= Past(dut.snd)
    /\ \A i \in 1..Len(toDut) : Past(toDut[i].ack) <= Past(ack)
    /\ \A i, j \in 1..Len(toDut) : i <= j => Past(toDut[i].ack) <= Past(toDut[j].ack)

\* ... and the DUT's segments follow behind that, one after the other, up to what it sent.
OrderIn ==
    /\ \A i \in 1..Len(toUs) : FromDut(i) =>
          /\ toUs[i].flags = {"ACK"}
          /\ Past(ack) <= Past(toUs[i].seq)
          /\ Past(toUs[i].seq) + toUs[i].len <= Past(dut.snd)
    /\ \A i, j \in 1..Len(toUs) : FromDut(i) /\ FromDut(j) /\ i < j =>
          Past(toUs[i].seq) + toUs[i].len <= Past(toUs[j].seq)

\* The handshake of the fixture: the SYN on its way, ...
SynSent ==
    /\ dut.state = "closed" /\ NoneFromDut /\ Len(toDut) = 1
    /\ toDut[1].flags = {"SYN"} /\ seq = Seq32(toDut[1].seq + 1)

\* ... or answered.
SynAnswered ==
    /\ dut.state = "syn-received" /\ toDut = <<>> /\ seq = dut.rcv
    /\ \A i, j \in 1..Len(toUs) : FromDut(i) /\ FromDut(j) => i = j
    /\ \A i \in 1..Len(toUs) : FromDut(i) =>
          /\ toUs[i].flags = {"SYN", "ACK"} /\ toUs[i].len = 0
          /\ dut.snd = Wrap(toUs[i].seq + 1)

\* Each step of the handshake, or its failure.
Opening ==
    /\ pc = "syn" => dut.state = "closed" /\ toDut = <<>> /\ NoneFromDut
    /\ pc = "connecting" => SynSent \/ SynAnswered
    /\ pc = "ack" => /\ dut.state = "syn-received" /\ toDut = <<>> /\ seq = dut.rcv
                     /\ NoneFromDut /\ ack = dut.snd
    /\ pc = "nothing" => toDut = <<>> /\ dut.state # "established"

\* The DUT has yet to see the handshake's last segment.
HalfOpen ==
    /\ dut.state = "syn-received" /\ NoneFromDut /\ Chain
    /\ toDut # <<>> /\ toDut[1].flags = {"ACK"} /\ ack = dut.snd
    /\ \A i \in 1..Len(toDut) : toDut[i].ack = dut.snd

\* The DUT has seen it, and from then on any number of segments of either side.
Established == dut.state = "established" /\ Chain /\ OrderOut /\ OrderIn

\* The DUT has taken the RST, the last segment.
Reset == dut.state = "reset" /\ toDut = <<>> /\ pc = "closed"

\* The three of them make up the connection, until it is torn down.
Open == pc \in {"open", "closed"} => HalfOpen \/ Established \/ Reset

\* All the client sends is for the DUT's TCP.
Addressed == \A i \in 1..Len(toDut) : toDut[i].dst = "dut" /\ toDut[i].proto = "tcp"

\* The client, as long as the network loses nothing.
ConnectOK ==
    job = "connect" /\ lost = FALSE => protested = FALSE /\ Addressed /\ Opening /\ Open

\* The invariant every step of the suite, of the DUT and of the network preserves.
PeerInv == Typed /\ EchoOK /\ ServeOK /\ ConnectOK

-----------------------------------------------------------------------------
(***************************************************************************)
(* Types.                                                                  *)
(***************************************************************************)
\* A packet of such parts is one of them.
LEMMA PacketIsSegment ==
    ASSUME NEW s \in Hosts, NEW d \in Hosts, NEW pr \in Protos, NEW f \in SUBSET Flags,
           NEW a \in Numbers, NEW b \in Numbers, NEW n \in Nat
    PROVE  Packet(s, d, pr, f, a, b, n) \in Segments
BY DEF Packet, Segments

\* The names the suite and the DUT use.
LEMMA NamesExist ==
    /\ "us" \in Hosts /\ "dut" \in Hosts /\ "nobody" \in Hosts
    /\ "tcp" \in Protos /\ "udp" \in Protos /\ "icmp" \in Protos /\ "none" \in Protos
    /\ \A f \in SUBSET {"SYN", "ACK", "FIN", "RST", "request", "reply"} : f \in SUBSET Flags
BY DEF Hosts, Protos, Flags

\* Packets of others are packets, and none of them is the DUT's.
LEMMA NoiseAreSegments ==
    ASSUME NEW p \in Noise
    PROVE  p \in Segments /\ p.src # "dut"
<1>1. p \in [src : STRING \ {"dut"}, dst : STRING, proto : STRING,
             flags : SUBSET STRING, seq : Numbers, ack : Numbers, len : Nat]
  BY PeerAssumption
<1>2. p.src \in Hosts /\ p.dst \in Hosts /\ p.proto \in Protos
  BY DEF Hosts, Protos
<1>3. p.flags \in SUBSET Flags
  BY DEF Flags
<1> QED
  BY <1>1, <1>2, <1>3 DEF Segments

\* The types hold at the start ...
LEMMA InitTyped == Init => Typed
<1> SUFFICES ASSUME Init PROVE Typed
  OBVIOUS
<1>1. 0 \in Numbers /\ 0 \in 0..MaxNoise /\ 0 \in 0..MaxData
  BY PeerAssumption DEF Numbers
<1>2. NoPacket \in Segments
  BY <1>1, PacketIsSegment, NamesExist DEF NoPacket
<1>3. {protested, lost, missed} \subseteq BOOLEAN
  BY DEF Init
<1> QED
  BY <1>1, <1>2, <1>3 DEF Init, Typed, TypeOK, DutStates

\* The suite's packets are packets.
LEMMA OursAreSegments ==
    ASSUME Typed, NEW f \in SUBSET Flags, NEW n \in Nat
    PROVE  /\ Packet("us", "dut", "tcp", f, seq, ack, n) \in Segments
           /\ Seq32(seq + Takes(f, n)) \in Numbers
<1>1. seq \in Numbers /\ ack \in Numbers
  BY DEF Typed, TypeOK
<1>2. seq \in Nat
  BY <1>1, PeerAssumption DEF Numbers
<1>3. seq + Takes(f, n) \in Nat
  <2>1. Takes(f, n) \in Nat
    BY TakesFacts
  <2> QED
    BY <1>2, <2>1
<1>4. Seq32(seq + Takes(f, n)) \in Numbers
  BY <1>3, WrapType
<1> QED
  BY <1>1, <1>4, PacketIsSegment, NamesExist

\* The DUT's as well.
LEMMA ItsAreSegments ==
    ASSUME Typed, NEW f \in SUBSET Flags, NEW a \in Numbers, NEW b \in Numbers, NEW n \in Nat
    PROVE  Packet("dut", "us", Proto, f, a, b, n) \in Segments
<1>1. job \in {"tcp-serve", "udp-serve", "icmp-serve", "connect"}
  BY PeerAssumption DEF Typed, TypeOK, AllJobs
<1>2. Proto \in Protos
  BY <1>1, NamesExist DEF Proto
<1> QED
  BY <1>2, PacketIsSegment, NamesExist

\* And the responder's replies.
LEMMA RepliesAreSegments ==
    ASSUME Typed, pc = "reply", NEW isn \in Numbers
    PROVE  /\ Reply(seen, isn) \in Segments
           /\ job = "tcp-serve" =>
                 Reply(seen, isn) = Packet("us", seen.src, "tcp", {"SYN", "ACK"}, isn,
                                           Wrap(seen.seq + 1), 0)
           /\ job \in {"udp-serve", "icmp-serve"} => Reply(seen, isn).proto # "tcp"
<1>1. seen \in Segments /\ job \in {"tcp-serve", "udp-serve", "icmp-serve"}
  BY PeerAssumption DEF Typed, TypeOK, AllJobs
<1>2. seen.seq \in Numbers /\ seen.len \in Nat /\ seen.src \in Hosts
  BY <1>1 DEF Segments
<1>3. seen.seq + 1 \in Nat /\ 0 \in Numbers
  BY <1>2, PeerAssumption DEF Numbers
<1>4. Seq32(seen.seq + 1) \in Numbers /\ Seq32(seen.seq + 1) = Wrap(seen.seq + 1)
  BY <1>3, WrapType
<1>5. CASE job = "tcp-serve"
  <2>1. Reply(seen, isn) = Packet("us", seen.src, "tcp", {"SYN", "ACK"}, isn,
                                  Wrap(seen.seq + 1), 0)
    BY <1>4, <1>5 DEF Reply
  <2>2. Reply(seen, isn) \in Segments
    BY <1>2, <1>3, <1>4, <2>1, PacketIsSegment, NamesExist
  <2> QED
    BY <1>5, <2>1, <2>2
<1>6. CASE job = "udp-serve"
  <2>1. Reply(seen, isn) = Packet("us", seen.src, "udp", {}, 0, 0, seen.len)
    BY <1>6 DEF Reply
  <2>2. Reply(seen, isn) \in Segments
    BY <1>2, <1>3, <2>1, PacketIsSegment, NamesExist
  <2>3. Reply(seen, isn).proto # "tcp"
    BY <2>1 DEF Packet
  <2> QED
    BY <1>6, <2>2, <2>3
<1>7. CASE job = "icmp-serve"
  <2>1. Reply(seen, isn) = Packet("us", seen.src, "icmp", {"reply"}, seen.seq, 0, seen.len)
    BY <1>7 DEF Reply
  <2>2. Reply(seen, isn) \in Segments
    BY <1>2, <1>3, <2>1, PacketIsSegment, NamesExist
  <2>3. Reply(seen, isn).proto # "tcp"
    BY <2>1 DEF Packet
  <2> QED
    BY <1>7, <2>2, <2>3
<1> QED
  BY <1>1, <1>5, <1>6, <1>7

\* What an acknowledgement of a packet is.
LEMMA ReceivedIsNumber ==
    ASSUME NEW p \in Segments
    PROVE  /\ Seq32(p.seq + p.len + IF p.flags \cap {"SYN", "FIN"} # {} THEN 1 ELSE 0)
                 \in Numbers
           /\ p.seq \in Numbers /\ p.ack \in Numbers /\ p.len \in Nat
           /\ p.flags \in SUBSET Flags
           /\ Wrap(p.seq + 1) \in Numbers
<1>1. p.seq \in Numbers /\ p.ack \in Numbers /\ p.len \in Nat /\ p.flags \in SUBSET Flags
  BY DEF Segments
<1>2. p.seq \in Nat
  BY <1>1, PeerAssumption DEF Numbers
<1> DEFINE n == p.seq + p.len + IF p.flags \cap {"SYN", "FIN"} # {} THEN 1 ELSE 0
<1>3. n \in Nat /\ p.seq + 1 \in Nat
  BY <1>1, <1>2
<1> HIDE DEF n
<1>4. Seq32(n) \in Numbers /\ Wrap(p.seq + 1) \in Numbers
  BY <1>3, WrapType
<1> QED
  BY <1>1, <1>4 DEF n

\* The queues after a step.
QueueStep ==
    /\ toDut' \in Seq(Segments) /\ toUs' \in Seq(Segments) /\ seen' \in Segments
    /\ seq' \in Numbers /\ ack' \in Numbers
    /\ dut' \in [state : DutStates, snd : Numbers, una : Numbers, rcv : Numbers]

\* The numbers in a queue fit their fields.
LEMMA QueuesTyped ==
    ASSUME QueueStep
    PROVE  \A i \in 1..Len(toDut') : toDut'[i].seq \in Numbers /\ toDut'[i].ack \in Numbers
<1> SUFFICES ASSUME NEW i \in 1..Len(toDut')
             PROVE  toDut'[i].seq \in Numbers /\ toDut'[i].ack \in Numbers
  OBVIOUS
<1>1. toDut'[i] \in Segments
  BY DEF QueueStep
<1> QED
  BY <1>1 DEF Segments

\* What the rest of the state has to be.
RestStep ==
    /\ job' = job
    /\ job = "connect" => pc' \in {"syn", "connecting", "ack", "open", "closed", "nothing"}
    /\ job # "connect" => pc' \in {"sniff", "reply", "gap", "sniff again", "served", "nothing"}
    /\ protested' \in BOOLEAN /\ lost' \in BOOLEAN /\ missed' \in BOOLEAN
    /\ noise' \in 0..MaxNoise /\ data' \in [{"us", "dut"} -> 0..MaxData]

\* The two make up the types of the next state.
LEMMA StepsTyped ==
    ASSUME Typed, QueueStep, RestStep
    PROVE  Typed'
<1>1. TypeOK'
  <2>1. pc' \in {"sniff", "reply", "gap", "sniff again", "served", "nothing", "syn",
                 "connecting", "ack", "open", "closed"}
    BY DEF RestStep
  <2>2. {protested', lost', missed'} \subseteq BOOLEAN
    BY DEF RestStep
  <2>3. job' \in Jobs /\ seq' \in Numbers /\ ack' \in Numbers /\ noise' \in 0..MaxNoise
        /\ data' \in [{"us", "dut"} -> 0..MaxData]
    BY DEF Typed, TypeOK, RestStep, QueueStep
  <2> QED
    BY <2>1, <2>2, <2>3, QueuesTyped DEF TypeOK
<1> QED
  BY <1>1 DEF Typed, RestStep, QueueStep

\* The state as the steps below use it.
LEMMA TypedFacts ==
    ASSUME Typed
    PROVE  /\ toDut \in Seq(Segments) /\ toUs \in Seq(Segments) /\ seen \in Segments
           /\ seq \in Numbers /\ ack \in Numbers /\ 0 \in Numbers /\ Numbers \subseteq Nat
           /\ dut \in [state : DutStates, snd : Numbers, una : Numbers, rcv : Numbers]
           /\ dut.state \in DutStates /\ dut.snd \in Numbers /\ dut.una \in Numbers
           /\ dut.rcv \in Numbers
           /\ job \in {"tcp-serve", "udp-serve", "icmp-serve", "connect"}
           /\ noise \in 0..MaxNoise /\ data \in [{"us", "dut"} -> 0..MaxData]
           /\ protested \in BOOLEAN /\ lost \in BOOLEAN /\ missed \in BOOLEAN
           /\ MaxNoise \in Nat /\ MaxData \in Nat /\ MaxLen \in Nat /\ Modulus \in Nat
           /\ Modulus > 0
<1>1. 0 \in Numbers /\ Numbers \subseteq Nat
  BY PeerAssumption DEF Numbers
<1>2. job \in {"tcp-serve", "udp-serve", "icmp-serve", "connect"}
  BY PeerAssumption DEF Typed, TypeOK, AllJobs
<1>3. /\ MaxNoise \in Nat /\ MaxData \in Nat /\ MaxLen \in Nat /\ Modulus \in Nat
      /\ Modulus > 0
  BY PeerAssumption
<1>4. protested \in BOOLEAN /\ lost \in BOOLEAN /\ missed \in BOOLEAN
  BY DEF Typed, TypeOK
<1> QED
  BY <1>1, <1>2, <1>3, <1>4 DEF Typed, TypeOK

\* A step that takes a packet off a queue, or puts one into it, leaves queues.
LEMMA QueueMoves ==
    ASSUME Typed
    PROVE  /\ toDut # <<>> => Tail(toDut) \in Seq(Segments) /\ Head(toDut) \in Segments
           /\ toUs # <<>> => Tail(toUs) \in Seq(Segments) /\ Head(toUs) \in Segments
           /\ \A p \in Segments : Append(toDut, p) \in Seq(Segments)
           /\ \A p \in Segments : Append(toUs, p) \in Seq(Segments)
<1>1. toDut \in Seq(Segments) /\ toUs \in Seq(Segments)
  BY DEF Typed
<1>2. toDut # <<>> => Tail(toDut) \in Seq(Segments) /\ Head(toDut) \in Segments
  BY <1>1, TailFacts
<1>3. toUs # <<>> => Tail(toUs) \in Seq(Segments) /\ Head(toUs) \in Segments
  BY <1>1, TailFacts
<1>4. \A p \in Segments :
         Append(toDut, p) \in Seq(Segments) /\ Append(toUs, p) \in Seq(Segments)
  BY <1>1, AppendFacts
<1> QED
  BY <1>2, <1>3, <1>4

\* The steps of the server role.
LEMMA ServeTyped ==
    ASSUME Typed, Serve
    PROVE  Typed'
<1> USE TypedFacts, QueueMoves
<1>0. job # "connect" => pc \in {"sniff", "reply", "gap", "sniff again", "served", "nothing"}
  BY DEF Typed
<1>00. job = "connect" => pc \in {"syn", "connecting", "ack", "open", "closed", "nothing"}
  BY DEF Typed
<1>1. CASE Arrives
  <2>1. QueueStep
    <3>1. seen' \in Segments
      BY <1>1 DEF Arrives
    <3> QED
      BY <1>1, <3>1 DEF Arrives, QueueStep
  <2>2. RestStep
    <3>1. pc' # pc => job # "connect" /\ pc' \in {"reply", "served"}
      BY <1>0, <1>00, <1>1 DEF Arrives, Sniffs
    <3>2. missed' \in BOOLEAN
      BY <1>1 DEF Arrives
    <3> QED
      BY <1>0, <1>00, <1>1, <3>1, <3>2 DEF Arrives, RestStep
  <2> QED
    BY <2>1, <2>2, StepsTyped
<1>2. CASE SendReply
  <2>1. QueueStep
    BY <1>2, RepliesAreSegments DEF SendReply, QueueStep
  <2>2. RestStep
    BY <1>0, <1>00, <1>2 DEF SendReply, RestStep
  <2> QED
    BY <2>1, <2>2, StepsTyped
<1>3. CASE SniffAgain \/ TimesOut
  <2>1. NoPacket \in Segments
    BY PacketIsSegment, NamesExist DEF NoPacket
  <2>2. QueueStep
    BY <1>3, <2>1 DEF SniffAgain, TimesOut, netVars, QueueStep
  <2>3. RestStep
    BY <1>0, <1>00, <1>3 DEF SniffAgain, TimesOut, netVars, RestStep
  <2> QED
    BY <2>2, <2>3, StepsTyped
<1> QED
  BY <1>1, <1>2, <1>3 DEF Serve

\* The suite builds a segment.
LEMMA BuildTyped ==
    ASSUME Typed, NEW f \in SUBSET Flags, NEW n \in Nat, Build(f, n)
    PROVE  /\ toDut' = Append(toDut, Packet("us", "dut", "tcp", f, seq, ack, n))
           /\ seq' = Seq32(seq + Takes(f, n))
           /\ toDut' \in Seq(Segments) /\ seq' \in Numbers
BY QueueMoves, OursAreSegments DEF Build

\* The steps of the client role.
LEMMA ConnectTyped ==
    ASSUME Typed, Connect
    PROVE  Typed'
<1> USE TypedFacts, QueueMoves
<1>0. job = "connect" => pc \in {"syn", "connecting", "ack", "open", "closed", "nothing"}
  BY DEF Typed
<1>00. job # "connect" => pc \in {"sniff", "reply", "gap", "sniff again", "served", "nothing"}
  BY DEF Typed
<1>1. CASE SendSyn \/ SendAck \/ Teardown
  <2>1. PICK f \in {{"SYN"}, {"ACK"}, {"RST"}} : Build(f, 0)
    BY <1>1 DEF SendSyn, SendAck, Teardown
  <2>2. toDut' \in Seq(Segments) /\ seq' \in Numbers
    BY <2>1, BuildTyped, NamesExist
  <2>3. QueueStep
    BY <1>1, <2>2 DEF SendSyn, SendAck, Teardown, QueueStep
  <2>4. RestStep
    BY <1>0, <1>00, <1>1 DEF SendSyn, SendAck, Teardown, RestStep
  <2> QED
    BY <2>3, <2>4, StepsTyped
<1>2. CASE SendSegment
  <2>1. PICK n \in 0..MaxLen, fin \in {{}, {"FIN"}} : Build({"ACK"} \cup fin, n)
    BY <1>2 DEF SendSegment
  <2>2. {"ACK"} \cup fin \in SUBSET Flags /\ n \in Nat
    <3>1. {"ACK"} \cup fin \in SUBSET {"SYN", "ACK", "FIN", "RST", "request", "reply"}
      OBVIOUS
    <3>2. {"ACK"} \cup fin \in SUBSET Flags
      BY <3>1, NamesExist
    <3>3. n \in Nat
      BY PeerAssumption
    <3> QED
      BY <3>2, <3>3
  <2>3. toDut' \in Seq(Segments) /\ seq' \in Numbers
    BY <2>1, <2>2, BuildTyped
  <2>4. QueueStep
    BY <1>2, <2>3 DEF SendSegment, QueueStep
  <2>5. data' \in [{"us", "dut"} -> 0..MaxData]
    <3>1. data.us + 1 \in 0..MaxData /\ MaxData \in 0..MaxData
      <4>1. data.us \in 0..MaxData /\ data.us < MaxData
        BY <1>2 DEF SendSegment
      <4> QED
        BY SMTT(30), <4>1
    <3>2. PICK x \in 0..MaxData : data' = [data EXCEPT !.us = x]
      BY <1>2, <3>1 DEF SendSegment
    <3> QED
      BY <3>2
  <2>6. RestStep
    BY <1>0, <1>00, <1>2, <2>5 DEF SendSegment, RestStep
  <2> QED
    BY <2>4, <2>6, StepsTyped
<1>3. CASE SynAckOrFail
  <2>1. QueueStep
    <3>1. ack' \in Numbers /\ seen' \in Segments
      BY <1>3, ReceivedIsNumber DEF SynAckOrFail, OnReceive
    <3> QED
      BY <1>3, <3>1 DEF SynAckOrFail, QueueStep
  <2>2. RestStep
    BY <1>0, <1>00, <1>3 DEF SynAckOrFail, RestStep
  <2> QED
    BY <2>1, <2>2, StepsTyped
<1>4. CASE ReadSegment
  <2>1. QueueStep
    <3>1. ack' \in Numbers /\ seen' \in Segments
      BY <1>4, ReceivedIsNumber DEF ReadSegment, OnReceive
    <3> QED
      BY <1>4, <3>1 DEF ReadSegment, QueueStep
  <2>2. RestStep
    BY <1>0, <1>00, <1>4 DEF ReadSegment, RestStep
  <2> QED
    BY <2>1, <2>2, StepsTyped
<1>5. CASE IgnoresOther
  <2>1. QueueStep
    BY <1>5 DEF IgnoresOther, QueueStep
  <2>2. RestStep
    BY <1>0, <1>00, <1>5 DEF IgnoresOther, RestStep
  <2> QED
    BY <2>1, <2>2, StepsTyped
<1> QED
  BY <1>1, <1>2, <1>3, <1>4, <1>5 DEF Connect

\* What the DUT makes of a segment it accepts, by the state it is in.
DutSynReceived(p) ==
    \E iss \in Numbers :
       /\ dut' = [state |-> "syn-received", snd |-> Wrap(iss + 1), una |-> iss,
                  rcv |-> Wrap(p.seq + 1)]
       /\ Says({"SYN", "ACK"}, iss, Wrap(p.seq + 1), 0)
DutEstablishes(p) ==
    /\ dut' = [dut EXCEPT !.state = "established", !.una = p.ack, !.rcv = Wrap(p.seq + 1)]
    /\ Says({"ACK"}, dut.snd, Wrap(p.seq + 1), 0)
DutGoesOn(p) ==
    /\ dut' = [dut EXCEPT !.state = IF "RST" \in p.flags THEN "reset" ELSE "established",
                          !.una = IF "ACK" \in p.flags THEN p.ack ELSE @,
                          !.rcv = Wrap(@ + p.len + Cardinality(p.flags \cap {"SYN", "FIN"}))]
    /\ UNCHANGED toUs

\* DutTakes, case by case.
LEMMA DutTakesCases ==
    ASSUME Typed, DutTakes
    PROVE  LET p == Head(toDut) IN
             /\ toDut # <<>> /\ toDut' = Tail(toDut)
             /\ \/ /\ p.dst # "dut" \/ p.proto # "tcp"
                   /\ UNCHANGED <<dut, protested, toUs>>
                \/ /\ p.dst = "dut" /\ p.proto = "tcp" /\ ~ Accepts(p)
                   /\ protested' = TRUE /\ UNCHANGED <<dut, toUs>>
                \/ /\ p.dst = "dut" /\ p.proto = "tcp" /\ Accepts(p) /\ UNCHANGED protested
                   /\ \/ dut.state = "closed" /\ DutSynReceived(p)
                      \/ dut.state = "syn-sent" /\ DutEstablishes(p)
                      \/ dut.state \in {"syn-received", "established"} /\ DutGoesOn(p)
                      \/ dut.state = "reset" /\ UNCHANGED <<dut, toUs>>
             /\ UNCHANGED <<job, pc, seq, ack, seen, lost, missed, noise, data>>
<1> DEFINE p == Head(toDut)
<1>1. dut.state \in DutStates
  BY TypedFacts
<1>2. CASE p.dst # "dut" \/ p.proto # "tcp"
  BY <1>2 DEF DutTakes
<1>3. CASE p.dst = "dut" /\ p.proto = "tcp" /\ ~ Accepts(p)
  BY <1>3 DEF DutTakes
<1>4. CASE p.dst = "dut" /\ p.proto = "tcp" /\ Accepts(p)
  <2>1. CASE dut.state = "closed"
    BY <1>4, <2>1 DEF DutTakes, DutSynReceived
  <2>2. CASE dut.state = "syn-sent"
    BY <1>4, <2>2 DEF DutTakes, DutEstablishes
  <2>3. CASE dut.state \in {"syn-received", "established"}
    BY <1>4, <2>3 DEF DutTakes, DutGoesOn
  <2>4. CASE dut.state = "reset"
    BY <1>4, <2>4 DEF DutTakes
  <2> QED
    BY <1>1, <2>1, <2>2, <2>3, <2>4 DEF DutStates
<1> QED
  BY <1>2, <1>3, <1>4

\* The steps of the DUT and of the network.
LEMMA OutsideTyped ==
    ASSUME Typed, Outside
    PROVE  Typed'
<1> USE TypedFacts, QueueMoves
<1>0. job = "connect" => pc \in {"syn", "connecting", "ack", "open", "closed", "nothing"}
  BY DEF Typed
<1>00. job # "connect" => pc \in {"sniff", "reply", "gap", "sniff again", "served", "nothing"}
  BY DEF Typed
<1>1. CASE DutSpeaks
  <2>1. PICK iss \in Numbers, f \in {{"request"}, {"SYN"}, {}} :
           /\ Says(f, iss, 0, 0)
           /\ dut' = [dut EXCEPT !.state = "syn-sent", !.snd = Wrap(iss + 1), !.una = iss]
    BY <1>1 DEF DutSpeaks
  <2>2. Packet("dut", "us", Proto, f, iss, 0, 0) \in Segments
    <3>1. f \in SUBSET Flags
      BY NamesExist
    <3> QED
      BY <3>1, ItsAreSegments
  <2>3. toUs' \in Seq(Segments)
    BY <2>1, <2>2 DEF Says
  <2>4. Wrap(iss + 1) \in Numbers
    <3>1. iss + 1 \in Nat
      OBVIOUS
    <3> QED
      BY <3>1, WrapType
  <2>5. dut' \in [state : DutStates, snd : Numbers, una : Numbers, rcv : Numbers]
    BY <2>1, <2>4 DEF DutStates
  <2>6. QueueStep
    BY <1>1, <2>3, <2>5 DEF DutSpeaks, QueueStep
  <2>7. RestStep
    BY <1>0, <1>00, <1>1 DEF DutSpeaks, RestStep
  <2> QED
    BY <2>6, <2>7, StepsTyped
<1>2. CASE DutTakes
  <2> DEFINE p == Head(toDut)
  <2>1. /\ toDut # <<>> /\ toDut' = Tail(toDut)
        /\ \/ UNCHANGED <<dut, toUs>>
           \/ DutSynReceived(p)
           \/ DutEstablishes(p)
           \/ DutGoesOn(p)
        /\ protested' \in BOOLEAN
        /\ UNCHANGED <<job, pc, seq, ack, seen, lost, missed, noise, data>>
    BY <1>2, DutTakesCases
  <2>2. /\ p \in Segments /\ p.ack \in Numbers /\ p.len \in Nat /\ Wrap(p.seq + 1) \in Numbers
        /\ toDut' \in Seq(Segments)
    BY <2>1, ReceivedIsNumber
  <2> HIDE DEF p
  <2>3. \A f \in {{"SYN", "ACK"}, {"ACK"}} : f \in SUBSET Flags
    BY NamesExist
  <2>4. toUs' \in Seq(Segments)
        /\ dut' \in [state : DutStates, snd : Numbers, una : Numbers, rcv : Numbers]
    <3>1. CASE DutSynReceived(p)
      <4>1. PICK iss \in Numbers :
               /\ dut' = [state |-> "syn-received", snd |-> Wrap(iss + 1), una |-> iss,
                          rcv |-> Wrap(p.seq + 1)]
               /\ Says({"SYN", "ACK"}, iss, Wrap(p.seq + 1), 0)
        BY <3>1 DEF DutSynReceived
      <4>2. Wrap(iss + 1) \in Numbers
        <5>1. iss + 1 \in Nat
          OBVIOUS
        <5> QED
          BY <5>1, WrapType
      <4>3. Packet("dut", "us", Proto, {"SYN", "ACK"}, iss, Wrap(p.seq + 1), 0) \in Segments
        BY <2>2, <2>3, ItsAreSegments
      <4> QED
        BY <2>2, <4>1, <4>2, <4>3 DEF Says, DutStates
    <3>2. CASE DutEstablishes(p)
      <4>1. Packet("dut", "us", Proto, {"ACK"}, dut.snd, Wrap(p.seq + 1), 0) \in Segments
        BY <2>2, <2>3, ItsAreSegments
      <4> QED
        BY <2>2, <3>2, <4>1 DEF Says, DutEstablishes, DutStates
    <3>3. CASE DutGoesOn(p)
      <4> DEFINE r == dut.rcv + p.len + Cardinality(p.flags \cap {"SYN", "FIN"})
      <4>1. r \in Nat
        <5>1. Cardinality(p.flags \cap {"SYN", "FIN"}) \in Nat
          BY <2>2, TakesFacts
        <5>2. dut.rcv \in Nat
          OBVIOUS
        <5>3. p.len \in Nat
          BY <2>2
        <5> HIDE TypedFacts, QueueMoves
        <5> QED
          BY <5>1, <5>2, <5>3
      <4>2. Wrap(r) \in Numbers
        BY <4>1, WrapType
      <4>3. PICK st \in DutStates, u \in Numbers :
               dut' = [dut EXCEPT !.state = st, !.una = u, !.rcv = Wrap(r)]
        BY <2>2, <3>3 DEF DutGoesOn, DutStates
      <4> HIDE DEF r
      <4> QED
        BY <3>3, <4>2, <4>3 DEF DutGoesOn
    <3> QED
      BY <2>1, <3>1, <3>2, <3>3
  <2>5. QueueStep
    BY <2>1, <2>2, <2>4 DEF QueueStep
  <2>6. RestStep
    BY <1>0, <1>00, <2>1 DEF RestStep
  <2> QED
    BY <2>5, <2>6, StepsTyped
<1>3. CASE DutSends
  <2>1. PICK n \in 1..MaxLen :
           /\ Says({"ACK"}, dut.snd, dut.rcv, n)
           /\ dut' = [dut EXCEPT !.snd = Wrap(@ + n)]
    BY <1>3 DEF DutSends
  <2>2. n \in Nat /\ dut.snd + n \in Nat
    OBVIOUS
  <2>3. Wrap(dut.snd + n) \in Numbers
    BY <2>2, WrapType
  <2>4. {"ACK"} \in SUBSET Flags
    BY NamesExist
  <2>5. toUs' \in Seq(Segments)
    BY <2>1, <2>2, <2>4, ItsAreSegments DEF Says
  <2>6. dut' \in [state : DutStates, snd : Numbers, una : Numbers, rcv : Numbers]
    BY <2>1, <2>3
  <2>7. QueueStep
    BY <1>3, <2>5, <2>6 DEF DutSends, QueueStep
  <2>8. data' \in [{"us", "dut"} -> 0..MaxData]
    <3>1. data.dut \in 0..MaxData /\ data.dut < MaxData
      BY <1>3 DEF DutSends
    <3>2. data.dut + 1 \in 0..MaxData
      BY SMTT(30), <3>1
    <3>3. data' = [data EXCEPT !.dut = data.dut + 1]
      BY <1>3 DEF DutSends
    <3> QED
      BY <3>2, <3>3
  <2>9. RestStep
    BY <1>0, <1>00, <1>3, <2>8 DEF DutSends, RestStep
  <2> QED
    BY <2>7, <2>9, StepsTyped
<1>4. CASE OthersSend
  <2>1. QueueStep
    BY <1>4, NoiseAreSegments DEF OthersSend, QueueStep
  <2>2. noise' \in 0..MaxNoise
    BY SMTT(30), <1>4 DEF OthersSend
  <2>3. RestStep
    BY <1>0, <1>00, <1>4, <2>2 DEF OthersSend, RestStep
  <2> QED
    BY <2>1, <2>3, StepsTyped
<1>5. CASE Loses
  <2>1. QueueStep
    BY <1>5 DEF Loses, QueueStep
  <2>2. RestStep
    BY <1>0, <1>00, <1>5 DEF Loses, RestStep
  <2> QED
    BY <2>1, <2>2, StepsTyped
<1> QED
  BY <1>1, <1>2, <1>3, <1>4, <1>5 DEF Outside

\* ... and after every step.
LEMMA NextTyped == Typed /\ [Next]_vars => Typed'
<1>1. Typed /\ UNCHANGED vars => Typed'
  BY DEF Typed, TypeOK, vars
<1> QED
  BY <1>1, ServeTyped, ConnectTyped, OutsideTyped DEF Next, Over

-----------------------------------------------------------------------------
(***************************************************************************)
(* The server role.                                                        *)
(***************************************************************************)
\* A responder does not take the steps of the client.
LEMMA ServerSteps ==
    ASSUME Typed, Next, job # "connect"
    PROVE  \/ Arrives \/ SendReply \/ SniffAgain \/ TimesOut
           \/ DutSpeaks \/ DutTakes \/ OthersSend \/ Loses \/ UNCHANGED vars
<1>1. pc \in {"sniff", "reply", "gap", "sniff again", "served", "nothing"}
  BY DEF Typed
<1>2. ~ Connect
  BY <1>1 DEF Connect, SendSyn, SynAckOrFail, IgnoresOther, SendAck, SendSegment,
    ReadSegment, Teardown
<1>3. ~ DutSends
  BY DEF DutSends
<1> QED
  BY <1>2, <1>3 DEF Next, Serve, Outside, Over

\* A UDP or ICMP responder gives the DUT's TCP nothing to protest against.
LEMMA EchoStep ==
    ASSUME Typed, Next, EchoOK
    PROVE  EchoOK'
<1> SUFFICES ASSUME job \in {"udp-serve", "icmp-serve"}
             PROVE  /\ protested' = FALSE
                    /\ \A i \in 1..Len(toDut') : toDut'[i].proto # "tcp"
  <2>1. job' = job
    <3>1. Arrives \/ SendReply \/ SniffAgain \/ TimesOut => job' = job
      BY DEF Arrives, SendReply, SniffAgain, TimesOut
    <3>2. Connect => job' = job
      BY DEF Connect, SendSyn, SynAckOrFail, IgnoresOther, SendAck, SendSegment,
    ReadSegment, Teardown
    <3>3. Outside => job' = job
      BY DEF Outside, DutSpeaks, DutTakes, DutSends, OthersSend, Loses
    <3> QED
      BY <3>1, <3>2, <3>3 DEF Next, Serve, Over, vars
  <2> QED
    BY <2>1 DEF EchoOK
<1>1. protested = FALSE /\ \A i \in 1..Len(toDut) : toDut[i].proto # "tcp"
  BY DEF EchoOK
<1>2. toDut \in Seq(Segments)
  BY DEF Typed
<1>3. CASE UNCHANGED toDut /\ UNCHANGED protested
  BY <1>1, <1>3
<1>4. CASE toDut # <<>> /\ toDut' = Tail(toDut) /\ UNCHANGED protested
  BY <1>1, <1>2, <1>4, TailFacts
<1>5. CASE SendReply
  <2>1. PICK isn \in Numbers : toDut' = Append(toDut, Reply(seen, isn))
    BY <1>5 DEF SendReply
  <2>2. Reply(seen, isn) \in Segments /\ Reply(seen, isn).proto # "tcp" /\ UNCHANGED protested
    BY <1>5, RepliesAreSegments DEF SendReply
  <2> HIDE DEF Reply
  <2>3. /\ Len(toDut) \in Nat /\ Len(toDut') = Len(toDut) + 1
        /\ \A i \in 1..Len(toDut) : toDut'[i] = toDut[i]
        /\ toDut'[Len(toDut) + 1] = Reply(seen, isn)
    BY <1>2, <2>1, <2>2, AppendFacts
  <2> QED
    BY <1>1, <2>2, <2>3
<1>6. CASE DutTakes
  <2>1. toDut # <<>> /\ toDut' = Tail(toDut)
    BY <1>6 DEF DutTakes
  <2>2. Head(toDut).proto # "tcp"
    BY <1>1, <1>2, <2>1, TailFacts
  <2>3. UNCHANGED protested
    BY <1>6, <2>2 DEF DutTakes
  <2> QED
    BY <1>4, <2>1, <2>3
<1>7. \/ UNCHANGED toDut /\ UNCHANGED protested
      \/ toDut # <<>> /\ toDut' = Tail(toDut) /\ UNCHANGED protested
      \/ SendReply \/ DutTakes
  BY ServerSteps DEF Arrives, SniffAgain, TimesOut, DutSpeaks, OthersSend, Loses, vars, netVars
<1> QED
  BY <1>3, <1>4, <1>5, <1>6, <1>7

\* A packet arrives at a TCP responder, or gets lost.
LEMMA ServeArrives ==
    ASSUME Typed, ServeReply, ServeSyn, ServeAck, job = "tcp-serve", Arrives
    PROVE  (ServeReply /\ ServeSyn /\ ServeAck)'
<1>1. /\ toUs # <<>> /\ toUs' = Tail(toUs) /\ Head(toUs) = toUs[1]
      /\ Len(toUs) \in Nat /\ Len(toUs) >= 1 /\ Len(toUs') = Len(toUs) - 1
      /\ \A i \in 1..Len(toUs') : toUs'[i] = toUs[i + 1] /\ i + 1 \in 1..Len(toUs)
      /\ UNCHANGED <<job, toDut, dut, protested, lost>>
  <2>1. toUs \in Seq(Segments) /\ toUs # <<>> /\ toUs' = Tail(toUs)
    BY DEF Arrives, Typed
  <2> QED
    BY <2>1, TailFacts DEF Arrives
<1>2. \/ /\ Sniffs(toUs[1]) /\ seen' = toUs[1] /\ UNCHANGED missed
         /\ pc' = IF pc = "sniff" THEN "reply" ELSE "served"
      \/ /\ ~ Sniffs(toUs[1]) /\ UNCHANGED <<seen, pc>>
         /\ missed' = (missed \/ (pc \in {"reply", "gap"} /\ toUs[1].src = "dut"))
  BY <1>1 DEF Arrives
<1>3. ServeSyn'
  BY <1>1 DEF ServeSyn, FromDut
<1>4. ServeReply'
  <2>1. CASE Sniffs(toUs[1]) /\ pc = "sniff"
    <3>1. pc' = "reply" /\ seen' = toUs[1] /\ "SYN" \in toUs[1].flags
      BY <1>2, <2>1 DEF Sniffs, Request
    <3>2. seen'.src = "dut" => dut.state # "closed" /\ dut.snd = Wrap(seen'.seq + 1)
      BY <1>1, <3>1 DEF ServeSyn, FromDut
    <3> QED
      BY <1>1, <2>1, <3>1, <3>2 DEF ServeReply
  <2>2. CASE Sniffs(toUs[1]) /\ pc # "sniff"
    BY <1>1, <1>2, <2>2 DEF Sniffs, ServeReply
  <2>3. CASE ~ Sniffs(toUs[1])
    BY <1>1, <1>2, <2>3 DEF ServeReply
  <2> QED
    BY <2>1, <2>2, <2>3
<1>5. ServeAck'
  <2> SUFFICES ASSUME dut'.state = "established", lost' = FALSE, missed' = FALSE,
                      pc' # "served"
               PROVE  /\ pc' \in {"gap", "sniff again"}
                      /\ \E i \in 1..Len(toUs') : (FromDut(i) /\ FinalAck(toUs[i]))'
    BY DEF ServeAck
  <2>1. pc \notin {"sniff", "reply"} /\ ~ Sniffs(toUs[1]) /\ pc' = pc
    BY <1>1, <1>2 DEF ServeReply, Sniffs
  <2>2. missed = FALSE /\ ~ (pc \in {"reply", "gap"} /\ toUs[1].src = "dut")
    <3>1. missed' = (missed \/ (pc \in {"reply", "gap"} /\ toUs[1].src = "dut"))
      BY <1>2, <2>1
    <3>2. missed \in BOOLEAN
      BY TypedFacts
    <3> QED
      BY <3>1, <3>2, Zenon
  <2>3. pc \in {"gap", "sniff again"}
    BY <1>1, <2>1, <2>2 DEF ServeAck
  <2>4. PICK i \in 1..Len(toUs) : FromDut(i) /\ FinalAck(toUs[i])
    BY <1>1, <2>1, <2>2 DEF ServeAck
  <2>5. i # 1
    BY <2>1, <2>2, <2>3, <2>4 DEF Sniffs, FromDut
  <2>6. i - 1 \in 1..Len(toUs') /\ toUs'[i - 1] = toUs[i]
    BY <1>1, <2>5
  <2> DEFINE k == i - 1
  <2>7. k \in 1..Len(toUs') /\ toUs'[k] = toUs[i]
    BY <2>6
  <2> HIDE DEF k
  <2>8. (FromDut(k) /\ FinalAck(toUs[k]))'
    BY <1>1, <2>4, <2>7 DEF FromDut, FinalAck, ToUs, Proto
  <2> QED
    BY <2>1, <2>3, <2>7, <2>8
<1> QED
  BY <1>3, <1>4, <1>5

\* The responder's other steps.
LEMMA ServeActs ==
    ASSUME Typed, ServeReply, ServeSyn, ServeAck, job = "tcp-serve",
           SendReply \/ SniffAgain \/ TimesOut
    PROVE  (ServeReply /\ ServeSyn /\ ServeAck)'
<1>1. UNCHANGED <<job, toUs, dut, protested, lost, missed>>
  BY DEF SendReply, SniffAgain, TimesOut, netVars
<1>2. ServeSyn'
  BY <1>1 DEF ServeSyn, FromDut
<1>3. CASE SendReply
  <2>1. PICK isn \in Numbers : toDut' = Append(toDut, Reply(seen, isn))
    BY <1>3 DEF SendReply
  <2>2. /\ Reply(seen, isn) = Packet("us", seen.src, "tcp", {"SYN", "ACK"}, isn,
                                     Wrap(seen.seq + 1), 0)
        /\ Reply(seen, isn) \in Segments
    BY <1>3, RepliesAreSegments DEF SendReply
  <2> DEFINE p == Reply(seen, isn)
  <2>3. p.dst = seen.src /\ p.flags = {"SYN", "ACK"} /\ p.ack = Wrap(seen.seq + 1)
    BY <2>2 DEF Packet
  <2> HIDE DEF p
  <2>4. pc = "reply" /\ pc' = "gap" /\ toDut = <<>> /\ UNCHANGED seen
    BY <1>3 DEF SendReply, ServeReply
  <2>5. toDut' = <<p>>
    BY <2>1, <2>4 DEF p
  <2>6. Len(toDut') = 1 /\ toDut'[1] = p
    BY <2>5
  <2>7. p.dst = "dut" => dut.state = "syn-sent" /\ p.ack = dut.snd
    BY <2>3, <2>4 DEF ServeReply
  <2>8. ServeReply'
    BY <1>1, <2>3, <2>4, <2>6, <2>7 DEF ServeReply
  <2>9. ServeAck'
    BY <1>1, <2>4 DEF ServeReply, ServeAck
  <2> QED
    BY <1>2, <2>8, <2>9
<1>4. CASE SniffAgain
  <2>1. pc = "gap" /\ pc' = "sniff again" /\ UNCHANGED toDut
    BY <1>4 DEF SniffAgain, netVars
  <2>2. ServeReply'
    BY <1>1, <2>1 DEF ServeReply
  <2>3. ServeAck'
    BY <1>1, <2>1 DEF ServeAck, FromDut, FinalAck, ToUs, Proto
  <2> QED
    BY <1>2, <2>2, <2>3
<1>5. CASE TimesOut
  <2>1. /\ pc \in {"sniff", "sniff again"} /\ pc' = "nothing" /\ UNCHANGED toDut
        /\ toUs = <<>> /\ toDut = <<>>
    BY <1>5 DEF TimesOut, netVars
  <2>2. ServeReply'
    BY <1>1, <2>1 DEF ServeReply
  <2>3. ServeAck'
    BY <1>1, <2>1 DEF ServeReply, ServeAck
  <2> QED
    BY <1>2, <2>2, <2>3
<1> QED
  BY <1>3, <1>4, <1>5

\* A packet put into the queue of the responder keeps the ones that are there.
LEMMA ServeAppends ==
    ASSUME Typed, job = "tcp-serve", UNCHANGED job, NEW p \in Segments,
           toUs' = Append(toUs, p)
    PROVE  /\ Len(toUs) \in Nat /\ Len(toUs') = Len(toUs) + 1
           /\ \A i \in 1..Len(toUs) : toUs'[i] = toUs[i]
           /\ toUs'[Len(toUs) + 1] = p
           /\ (\E i \in 1..Len(toUs) : FromDut(i) /\ FinalAck(toUs[i]))
                 => (\E i \in 1..Len(toUs) : FromDut(i) /\ FinalAck(toUs[i]))'
<1>1. toUs \in Seq(Segments)
  BY DEF Typed
<1>2. /\ Len(toUs) \in Nat /\ Len(toUs') = Len(toUs) + 1
      /\ \A i \in 1..Len(toUs) : toUs'[i] = toUs[i]
      /\ toUs'[Len(toUs) + 1] = p
  BY <1>1, AppendFacts
<1>3. ASSUME NEW i \in 1..Len(toUs), FromDut(i), FinalAck(toUs[i])
      PROVE  i \in 1..Len(toUs') /\ (FromDut(i) /\ FinalAck(toUs[i]))'
  BY <1>2, <1>3 DEF FromDut, FinalAck, ToUs, Proto
<1> QED
  BY <1>2, <1>3

\* The DUT and others speak to a responder; the network loses a packet.
LEMMA ServeHears ==
    ASSUME Typed, ServeReply, ServeSyn, ServeAck, job = "tcp-serve",
           DutSpeaks \/ OthersSend \/ Loses
    PROVE  (ServeReply /\ ServeSyn /\ ServeAck)'
<1> USE TypedFacts
<1>1. CASE DutSpeaks
  <2>1. PICK iss \in Numbers :
           /\ toUs' = Append(toUs, Packet("dut", "us", Proto, {"SYN"}, iss, 0, 0))
           /\ dut' = [dut EXCEPT !.state = "syn-sent", !.snd = Wrap(iss + 1), !.una = iss]
    BY <1>1 DEF DutSpeaks, Says
  <2> DEFINE p == Packet("dut", "us", Proto, {"SYN"}, iss, 0, 0)
  <2>2. p \in Segments
    BY NamesExist, ItsAreSegments
  <2>3. p.seq = iss
    BY DEF Packet
  <2> HIDE DEF p
  <2>4. /\ dut.state = "closed" /\ dut'.state = "syn-sent" /\ dut'.snd = Wrap(p.seq + 1)
        /\ UNCHANGED <<job, pc, seen, toDut, protested>>
    BY <1>1, <2>1, <2>3 DEF DutSpeaks
  <2>5. toUs' = Append(toUs, p)
    BY <2>1 DEF p
  <2>6. /\ Len(toUs) \in Nat /\ Len(toUs') = Len(toUs) + 1
        /\ \A i \in 1..Len(toUs) : toUs'[i] = toUs[i]
        /\ toUs'[Len(toUs) + 1] = p
    BY <2>2, <2>4, <2>5, ServeAppends
  <2>7. ServeSyn'
    <3> SUFFICES ASSUME NEW i \in 1..Len(toUs'), toUs'[i].src = "dut",
                        "SYN" \in toUs'[i].flags
                 PROVE  dut'.state # "closed" /\ dut'.snd = Wrap(toUs'[i].seq + 1)
      BY DEF ServeSyn, FromDut
    <3>1. i \in 1..Len(toUs) \/ i = Len(toUs) + 1
      BY SMTT(30), <2>6
    <3> QED
      BY <2>4, <2>6, <3>1 DEF ServeSyn, FromDut
  <2>8. ServeReply'
    BY <2>4 DEF ServeReply
  <2>9. ServeAck'
    BY <2>4 DEF ServeAck
  <2> QED
    BY <2>7, <2>8, <2>9
<1>2. CASE OthersSend
  <2>1. PICK p \in Noise : toUs' = Append(toUs, p)
    BY <1>2 DEF OthersSend
  <2>2. p \in Segments /\ p.src # "dut"
    BY NoiseAreSegments
  <2>3. UNCHANGED <<job, pc, seen, toDut, dut, protested, lost, missed>>
    BY <1>2 DEF OthersSend
  <2>4. /\ Len(toUs) \in Nat /\ Len(toUs') = Len(toUs) + 1
        /\ \A i \in 1..Len(toUs) : toUs'[i] = toUs[i]
        /\ toUs'[Len(toUs) + 1] = p
        /\ (\E i \in 1..Len(toUs) : FromDut(i) /\ FinalAck(toUs[i]))
              => (\E i \in 1..Len(toUs) : FromDut(i) /\ FinalAck(toUs[i]))'
    BY <2>1, <2>2, <2>3, ServeAppends
  <2>5. ServeSyn'
    <3> SUFFICES ASSUME NEW i \in 1..Len(toUs'), toUs'[i].src = "dut",
                        "SYN" \in toUs'[i].flags
                 PROVE  dut'.state # "closed" /\ dut'.snd = Wrap(toUs'[i].seq + 1)
      BY DEF ServeSyn, FromDut
    <3>1. i \in 1..Len(toUs) \/ i = Len(toUs) + 1
      BY SMTT(30), <2>4
    <3> QED
      BY <2>2, <2>3, <2>4, <3>1 DEF ServeSyn, FromDut
  <2>6. ServeReply'
    BY <2>3 DEF ServeReply
  <2>7. ServeAck'
    BY <2>3, <2>4 DEF ServeAck
  <2> QED
    BY <2>5, <2>6, <2>7
<1>3. CASE Loses
  <2>1. lost' = TRUE /\ UNCHANGED <<job, pc, seen, dut, protested, missed>>
    BY <1>3 DEF Loses
  <2>2. ServeAck'
    BY <2>1 DEF ServeAck
  <2>3. CASE toUs # <<>> /\ toUs' = Tail(toUs) /\ UNCHANGED toDut
    <3>1. Len(toUs) \in Nat
          /\ Len(toUs') = Len(toUs) - 1
          /\ \A i \in 1..Len(toUs') : toUs'[i] = toUs[i + 1] /\ i + 1 \in 1..Len(toUs)
      BY <2>3, TailFacts
    <3>2. ServeSyn'
      BY <2>1, <3>1 DEF ServeSyn, FromDut
    <3>3. ServeReply'
      BY <2>1, <2>3 DEF ServeReply
    <3> QED
      BY <2>2, <3>2, <3>3
  <2>4. CASE toDut # <<>> /\ toDut' = Tail(toDut) /\ UNCHANGED toUs
    <3>1. Len(toDut) \in Nat /\ Len(toDut) >= 1 /\ Len(toDut') = Len(toDut) - 1
      BY <2>4, TailFacts
    <3>2. Len(toDut') = 0 /\ pc \notin {"sniff", "reply", "nothing"}
      BY <2>4, <3>1 DEF ServeReply
    <3>3. ServeSyn'
      BY <2>1, <2>4 DEF ServeSyn, FromDut
    <3>4. ServeReply'
      BY <2>1, <3>2 DEF ServeReply
    <3> QED
      BY <2>2, <3>3, <3>4
  <2> QED
    BY <1>3, <2>3, <2>4 DEF Loses
<1> QED
  BY <1>1, <1>2, <1>3

\* The DUT takes the reply of a responder.
LEMMA ServeTakes ==
    ASSUME Typed, ServeReply, ServeSyn, ServeAck, job = "tcp-serve", DutTakes
    PROVE  (ServeReply /\ ServeSyn /\ ServeAck)'
<1> USE TypedFacts
<1> DEFINE p == Head(toDut)
<1>1. /\ toDut # <<>> /\ toDut' = Tail(toDut)
      /\ UNCHANGED <<job, pc, seq, ack, seen, lost, missed, noise, data>>
  BY DutTakesCases
<1>2. /\ Len(toDut) = 1 /\ p = toDut[1] /\ p \in Segments /\ Len(toDut') = 0 /\ toDut' = <<>>
  <2>1. /\ Len(toDut) \in Nat /\ Len(toDut) >= 1 /\ p = toDut[1] /\ p \in Segments
        /\ Len(toDut') = Len(toDut) - 1 /\ toDut' \in Seq(Segments)
    BY <1>1, TailFacts
  <2> QED
    BY SMTT(30), <2>1 DEF ServeReply
<1>2a. Len(toDut') = 0
  BY <1>2
<1>3. pc \notin {"sniff", "reply", "nothing"} /\ pc \in {"gap", "sniff again", "served"}
  BY <1>1 DEF Typed, ServeReply
<1>4. p.dst = "dut" => /\ dut.state = "syn-sent" /\ p.ack = dut.snd
                       /\ p.flags = {"SYN", "ACK"}
  BY <1>2 DEF ServeReply
<1> HIDE DEF p
<1>5. CASE p.dst = "dut" /\ p.proto = "tcp"
  <2>1. Accepts(p)
    BY <1>4, <1>5 DEF Accepts
  <2>2. UNCHANGED protested /\ DutEstablishes(p)
    BY <1>4, <1>5, <2>1, DutTakesCases DEF p
  <2>3. /\ dut'.state = "established" /\ dut'.snd = dut.snd
    BY <2>2 DEF DutEstablishes
  <2>4. toUs' = Append(toUs, Packet("dut", "us", Proto, {"ACK"}, dut.snd, Wrap(p.seq + 1), 0))
    BY <2>2 DEF DutEstablishes, Says
  <2> DEFINE q == Packet("dut", "us", Proto, {"ACK"}, dut.snd, Wrap(p.seq + 1), 0)
  <2>5. q \in Segments
    <3>1. Wrap(p.seq + 1) \in Numbers /\ {"ACK"} \in SUBSET Flags
      BY <1>2, ReceivedIsNumber, NamesExist
    <3> QED
      BY <3>1, ItsAreSegments
  <2>6. q.src = "dut" /\ q.flags = {"ACK"} /\ q.dst = "us" /\ q.proto = Proto
    BY DEF Packet
  <2>7. toUs' = Append(toUs, q)
    BY <2>4
  <2> HIDE DEF q
  <2>8. /\ Len(toUs) \in Nat /\ Len(toUs') = Len(toUs) + 1
        /\ \A i \in 1..Len(toUs) : toUs'[i] = toUs[i]
        /\ toUs'[Len(toUs) + 1] = q
    BY <1>1, <2>5, <2>7, ServeAppends
  <2>9. ServeSyn'
    <3> SUFFICES ASSUME NEW i \in 1..Len(toUs'), toUs'[i].src = "dut",
                        "SYN" \in toUs'[i].flags
                 PROVE  dut'.state # "closed" /\ dut'.snd = Wrap(toUs'[i].seq + 1)
      BY DEF ServeSyn, FromDut
    <3>1. i \in 1..Len(toUs) \/ i = Len(toUs) + 1
      BY SMTT(30), <2>8
    <3>2. i # Len(toUs) + 1
      BY <2>6, <2>8
    <3>3. i \in 1..Len(toUs) /\ toUs'[i] = toUs[i]
      BY <2>8, <3>1, <3>2
    <3>4. dut.snd = Wrap(toUs[i].seq + 1)
      BY <3>3 DEF ServeSyn, FromDut
    <3> QED
      BY <2>3, <3>3, <3>4
  <2>10. ServeReply'
    <3>1. pc' = pc /\ protested' = FALSE
      BY <1>1, <2>2 DEF ServeReply
    <3> QED
      <4>1. pc' \notin {"sniff", "reply", "nothing"}
        BY <1>3, <3>1
      <4>2. dut'.state \in {"closed", "syn-sent", "established"}
        BY <2>3
      <4>3. Len(toDut') <= 1
        BY <1>2a
      <4>4. \A i \in 1..Len(toDut') : FALSE
        BY <1>2a
      <4> QED
        BY <3>1, <4>1, <4>2, <4>3, <4>4, Zenon DEF ServeReply
  <2>11. ServeAck'
    <3>1. PICK k \in 1..Len(toUs') : toUs'[k] = q
      BY SMTT(30), <2>8
    <3>2. Proto' = Proto
      BY <1>1 DEF Proto
    <3>3. (FromDut(k) /\ FinalAck(toUs[k]))'
      BY SMTT(30), <2>6, <3>1, <3>2 DEF FromDut, FinalAck, ToUs
    <3> QED
      BY <1>1, <1>3, <3>1, <3>3 DEF ServeAck
  <2> QED
    BY <2>9, <2>10, <2>11
<1>6. CASE p.dst # "dut" \/ p.proto # "tcp"
  <2>1. UNCHANGED <<dut, protested, toUs>>
    BY <1>6, DutTakesCases DEF p
  <2>2. ServeSyn'
    BY <2>1 DEF ServeSyn, FromDut
  <2>3. ServeReply'
    <3>1. pc' = pc /\ protested' = FALSE /\ dut' = dut
      BY <1>1, <2>1 DEF ServeReply
    <3> QED
      <4>1. pc' \notin {"sniff", "reply", "nothing"}
        BY <1>3, <3>1
      <4>2. dut'.state \in {"closed", "syn-sent", "established"}
        BY <3>1 DEF ServeReply
      <4>3. Len(toDut') <= 1
        BY <1>2a
      <4>4. \A i \in 1..Len(toDut') : FALSE
        BY <1>2a
      <4> QED
        BY <3>1, <4>1, <4>2, <4>3, <4>4, Zenon DEF ServeReply
  <2>4. ServeAck'
    BY <1>1, <2>1 DEF ServeAck, FromDut, FinalAck, ToUs, Proto
  <2> QED
    BY <2>2, <2>3, <2>4
<1> QED
  BY <1>5, <1>6

\* Every step keeps a TCP responder's invariant.
LEMMA ServeStep ==
    ASSUME Typed, Next, ServeOK, job = "tcp-serve"
    PROVE  ServeOK'
<1>1. ServeReply /\ ServeSyn /\ ServeAck
  BY DEF ServeOK
<1>2. CASE UNCHANGED vars
  BY <1>1, <1>2 DEF ServeOK, ServeReply, ServeSyn, ServeAck, FromDut, FinalAck, ToUs,
                    Proto, vars
<1>3. ~ UNCHANGED vars => (ServeReply /\ ServeSyn /\ ServeAck)'
  BY <1>1, ServerSteps, ServeArrives, ServeActs, ServeHears, ServeTakes
<1> QED
  BY <1>2, <1>3 DEF ServeOK

-----------------------------------------------------------------------------
(***************************************************************************)
(* The client role.                                                        *)
(***************************************************************************)
\* A packet that arrives while nothing is sniffing is dropped.
Dropped ==
    /\ toUs # <<>> /\ toUs' = Tail(toUs)
    /\ UNCHANGED <<job, pc, seq, ack, toDut, dut, protested, lost, noise, data>>

\* The client does not take the steps of a responder.
LEMMA ClientSteps ==
    ASSUME Typed, Next, job = "connect"
    PROVE  \/ Dropped \/ Connect
           \/ DutTakes \/ DutSends \/ OthersSend \/ Loses \/ UNCHANGED vars
<1>1. pc \in {"syn", "connecting", "ack", "open", "closed", "nothing"}
  BY DEF Typed
<1>2. Arrives => Dropped
  BY <1>1 DEF Arrives, Sniffs, Dropped
<1>3. ~ SendReply /\ ~ SniffAgain /\ ~ TimesOut
  BY <1>1 DEF SendReply, SniffAgain, TimesOut
<1>4. ~ DutSpeaks
  BY DEF DutSpeaks
<1> QED
  BY <1>2, <1>3, <1>4 DEF Next, Serve, Outside, Over

\* A step after which the DUT's packets in flight are the same, or fewer.
LEMMA FewerPackets ==
    ASSUME ConnectOK, NEW k \in {0, 1}, Len(toUs) \in Nat, Len(toUs') \in Nat,
           UNCHANGED <<job, pc, seq, ack, toDut, dut, protested, lost, data>>,
           \A i \in 1..Len(toUs') : toUs'[i].src = "dut" =>
              i + k \in 1..Len(toUs) /\ toUs'[i] = toUs[i + k]
    PROVE  ConnectOK'
<1> SUFFICES ASSUME job = "connect", lost = FALSE
             PROVE  (protested = FALSE /\ Addressed /\ Opening /\ Open)'
  BY DEF ConnectOK
<1>1. protested = FALSE /\ Addressed /\ Opening /\ Open
  BY DEF ConnectOK
<1>2. protested' = FALSE /\ Addressed'
  BY <1>1 DEF Addressed
<1>3. NoneFromDut => NoneFromDut'
  BY DEF NoneFromDut
<1>4. Chain => Chain'
  BY DEF Chain, SeqAt
<1>5. OrderOut => OrderOut'
  BY DEF OrderOut, Past
<1>6. OrderIn => OrderIn'
  <2> SUFFICES ASSUME OrderIn PROVE OrderIn'
    OBVIOUS
  <2>1. ASSUME NEW i \in 1..Len(toUs'), toUs'[i].src = "dut"
        PROVE  /\ toUs'[i].flags = {"ACK"}
               /\ Past(ack) <= Past(toUs'[i].seq)
               /\ Past(toUs'[i].seq) + toUs'[i].len <= Past(dut.snd)
    BY <2>1 DEF OrderIn, FromDut
  <2>2. ASSUME NEW i \in 1..Len(toUs'), NEW j \in 1..Len(toUs'),
               toUs'[i].src = "dut", toUs'[j].src = "dut", i < j
        PROVE  Past(toUs'[i].seq) + toUs'[i].len <= Past(toUs'[j].seq)
    <3>1. i + k \in 1..Len(toUs) /\ j + k \in 1..Len(toUs) /\ i + k < j + k
          /\ toUs'[i] = toUs[i + k] /\ toUs'[j] = toUs[j + k]
      BY <2>2
    <3> QED
      BY <2>2, <3>1 DEF OrderIn, FromDut
  <2> QED
    BY <2>1, <2>2 DEF OrderIn, FromDut, Past
<1>7. SynAnswered => SynAnswered'
  <2> SUFFICES ASSUME SynAnswered PROVE SynAnswered'
    OBVIOUS
  <2>1. ASSUME NEW i \in 1..Len(toUs'), NEW j \in 1..Len(toUs'),
               toUs'[i].src = "dut", toUs'[j].src = "dut"
        PROVE  i = j
    <3>1. i + k = j + k
      BY <2>1 DEF SynAnswered, FromDut
    <3> QED
      BY <3>1
  <2> QED
    BY <2>1 DEF SynAnswered, FromDut
<1>8. SynSent => SynSent'
  BY <1>3 DEF SynSent
<1>9. Opening'
  BY <1>1, <1>3, <1>7, <1>8 DEF Opening
<1>10. HalfOpen => HalfOpen'
  BY <1>3, <1>4 DEF HalfOpen
<1>11. Established => Established'
  BY <1>4, <1>5, <1>6 DEF Established
<1>12. Open'
  BY <1>1, <1>10, <1>11 DEF Open, Reset
<1> QED
  BY <1>2, <1>9, <1>12

\* Packets of others change nothing: when they come, ...
LEMMA NoiseComes ==
    ASSUME Typed, ConnectOK, OthersSend
    PROVE  ConnectOK'
<1>1. PICK p \in Noise : toUs' = Append(toUs, p)
  BY DEF OthersSend
<1>2. p \in Segments /\ p.src # "dut" /\ toUs \in Seq(Segments)
  BY NoiseAreSegments DEF Typed
<1>3. /\ Len(toUs) \in Nat /\ Len(toUs') = Len(toUs) + 1
      /\ \A i \in 1..Len(toUs) : toUs'[i] = toUs[i]
      /\ toUs'[Len(toUs) + 1] = p
  BY <1>1, <1>2, AppendFacts
<1>4. ASSUME NEW i \in 1..Len(toUs'), toUs'[i].src = "dut"
      PROVE  i + 0 \in 1..Len(toUs) /\ toUs'[i] = toUs[i + 0]
  <2>1. i \in 1..Len(toUs) \/ i = Len(toUs) + 1
    BY <1>3
  <2> QED
    BY <1>2, <1>3, <1>4, <2>1
<1>5. UNCHANGED <<job, pc, seq, ack, toDut, dut, protested, lost, data>>
  BY DEF OthersSend
<1>6. Len(toUs') \in Nat
  BY <1>3
<1> QED
  BY <1>3, <1>4, <1>5, <1>6, FewerPackets

\* ... and when a packet is taken of which the client takes no notice.
LEMMA PacketGoes ==
    ASSUME Typed, ConnectOK, toUs # <<>>, toUs' = Tail(toUs),
           UNCHANGED <<job, pc, seq, ack, toDut, dut, protested, lost, data>>
    PROVE  ConnectOK'
<1>1. toUs \in Seq(Segments)
  BY DEF Typed
<1>2. /\ Len(toUs) \in Nat /\ Len(toUs) >= 1 /\ Len(toUs') = Len(toUs) - 1
      /\ \A i \in 1..Len(toUs') : toUs'[i] = toUs[i + 1] /\ i + 1 \in 1..Len(toUs)
  BY <1>1, TailFacts
<1>3. Len(toUs') \in Nat
  BY <1>2
<1> QED
  BY <1>2, <1>3, FewerPackets

\* A segment is put behind the ones on their way: it takes up where they end.
LEMMA ChainGrows ==
    ASSUME Typed, Chain, pc # "closed",
           NEW p \in Segments, toDut' = Append(toDut, p), dut' = dut,
           p.seq = seq, p.flags \in OurFlags, seq' = Seq32(seq + Takes(p.flags, p.len)),
           "RST" \in p.flags => pc' = "closed"
    PROVE  Chain'
<1>1. toDut \in Seq(Segments)
  BY DEF Typed
<1>2. /\ Len(toDut) \in Nat /\ Len(toDut') = Len(toDut) + 1
      /\ \A i \in 1..Len(toDut) : toDut'[i] = toDut[i]
      /\ toDut'[Len(toDut) + 1] = p
  BY <1>1, AppendFacts
<1>3. \A i \in 1..(Len(toDut) + 1) : SeqAt(i)' = SeqAt(i)
  <2> SUFFICES ASSUME NEW i \in 1..(Len(toDut) + 1)
               PROVE  (IF i <= Len(toDut') THEN toDut'[i].seq ELSE seq')
                       = (IF i <= Len(toDut) THEN toDut[i].seq ELSE seq)
    BY DEF SeqAt
  <2>1. CASE i = Len(toDut) + 1
    BY <1>2, <2>1
  <2>2. CASE i \in 1..Len(toDut)
    BY <1>2, <2>2
  <2> QED
    BY <1>2, <2>1, <2>2
<1>4. (IF 1 <= Len(toDut') THEN toDut'[1].seq ELSE seq') = dut.rcv
  <2>1. 1 \in 1..(Len(toDut) + 1)
    BY <1>2
  <2>2. SeqAt(1)' = SeqAt(1)
    BY <1>3, <2>1
  <2> QED
    BY <2>2 DEF Chain, SeqAt
<1>5. ASSUME NEW i \in 1..Len(toDut')
      PROVE  /\ toDut'[i].flags \in OurFlags
             /\ "RST" \in toDut'[i].flags => i = Len(toDut') /\ pc' = "closed"
             /\ (IF i + 1 <= Len(toDut') THEN toDut'[i + 1].seq ELSE seq')
                  = Seq32(toDut'[i].seq + Takes(toDut'[i].flags, toDut'[i].len))
  <2>1. CASE i = Len(toDut) + 1
    <3>1. toDut'[i] = p /\ ~ (i + 1 <= Len(toDut')) /\ i = Len(toDut')
      BY <1>2, <2>1
    <3> QED
      BY <3>1
  <2>2. CASE i \in 1..Len(toDut)
    <3>1. toDut'[i] = toDut[i] /\ i + 1 \in 1..(Len(toDut) + 1)
      BY <1>2, <2>2
    <3>2. SeqAt(i + 1)' = SeqAt(i + 1)
      BY <1>3, <3>1
    <3>3. SeqAt(i + 1)' = (IF i + 1 <= Len(toDut') THEN toDut'[i + 1].seq ELSE seq')
      BY DEF SeqAt
    <3>4. /\ toDut[i].flags \in OurFlags /\ "RST" \notin toDut[i].flags
          /\ SeqAt(i + 1) = Seq32(toDut[i].seq + Takes(toDut[i].flags, toDut[i].len))
      BY <2>2 DEF Chain
    <3> QED
      BY <3>1, <3>2, <3>3, <3>4
  <2> QED
    BY <1>2, <2>1, <2>2
<1> QED
  BY <1>4, <1>5 DEF Chain, SeqAt

\* It acknowledges all the suite has received, so nothing before it acknowledges more.
LEMMA OrderGrows ==
    ASSUME Typed, OrderOut, OrderIn,
           NEW p \in Segments, toDut' = Append(toDut, p), p.ack = ack,
           UNCHANGED <<dut, ack, toUs>>, data'.dut = data.dut
    PROVE  OrderOut' /\ OrderIn'
<1>1. toDut \in Seq(Segments)
  BY DEF Typed
<1>2. /\ Len(toDut) \in Nat /\ Len(toDut') = Len(toDut) + 1
      /\ \A i \in 1..Len(toDut) : toDut'[i] = toDut[i]
      /\ toDut'[Len(toDut) + 1] = p
  BY <1>1, AppendFacts
<1>3. OrderIn'
  BY DEF OrderIn, FromDut, Past
<1>4. Past(ack) \in Nat
  BY TypedFacts, DistValue DEF Past
<1>5. ASSUME NEW i \in 1..Len(toDut')
      PROVE  Past(toDut'[i].ack) <= Past(ack)
  <2>1. i \in 1..Len(toDut) \/ i = Len(toDut) + 1
    BY <1>2
  <2> QED
    BY <1>2, <1>4, <2>1 DEF OrderOut
<1>6. ASSUME NEW i \in 1..Len(toDut'), NEW j \in 1..Len(toDut'), i <= j
      PROVE  Past(toDut'[i].ack) <= Past(toDut'[j].ack)
  <2>1. CASE j = Len(toDut) + 1
    BY <1>2, <1>5, <2>1
  <2>2. CASE j \in 1..Len(toDut)
    <3>1. i \in 1..Len(toDut)
      BY <1>2, <1>6, <2>2
    <3> QED
      BY <1>2, <1>6, <2>2, <3>1 DEF OrderOut
  <2> QED
    BY <1>2, <2>1, <2>2
<1>7. OrderOut'
  BY <1>5, <1>6 DEF OrderOut, Past
<1> QED
  BY <1>3, <1>7

\* The handshake's ACK, a segment of the test or the RST.
LEMMA ClientSends ==
    ASSUME Typed, ConnectOK, job = "connect",
           pc \in {"ack", "open"}, pc' \in {"open", "closed"}, pc = "ack" => pc' = "open",
           NEW f \in OurFlags, NEW n \in Nat, Build(f, n),
           pc = "ack" => f = {"ACK"},
           "RST" \in f => pc' = "closed",
           UNCHANGED <<job, ack, toUs, dut, protested, lost>>, data'.dut = data.dut
    PROVE  ConnectOK'
<1> SUFFICES ASSUME lost = FALSE
             PROVE  (protested = FALSE /\ Addressed /\ Opening /\ Open)'
  BY DEF ConnectOK
<1>1. protested = FALSE /\ Addressed /\ Opening /\ Open
  BY DEF ConnectOK
<1> DEFINE p == Packet("us", "dut", "tcp", f, seq, ack, n)
<1>2. /\ p.seq = seq /\ p.ack = ack /\ p.flags = f /\ p.len = n
      /\ p.dst = "dut" /\ p.proto = "tcp"
  BY DEF Packet
<1>3. p \in Segments /\ toDut' = Append(toDut, p) /\ seq' = Seq32(seq + Takes(f, n))
  <2>1. f \in SUBSET Flags
    BY NamesExist DEF OurFlags
  <2> QED
    BY <2>1, OursAreSegments, BuildTyped
<1> HIDE DEF p
<1>4. toDut \in Seq(Segments)
  BY DEF Typed
<1>5. /\ Len(toDut) \in Nat /\ Len(toDut') = Len(toDut) + 1
      /\ \A i \in 1..Len(toDut) : toDut'[i] = toDut[i]
      /\ toDut'[Len(toDut) + 1] = p
  BY <1>3, <1>4, AppendFacts
<1>6. \A i \in 1..Len(toDut') : i \in 1..Len(toDut) \/ i = Len(toDut) + 1
  BY <1>5
<1>7. Addressed'
  BY <1>1, <1>2, <1>5, <1>6 DEF Addressed
<1>8. Opening'
  BY DEF Opening
<1>9. seq' = Seq32(seq + Takes(p.flags, p.len)) /\ p.flags \in OurFlags
      /\ ("RST" \in p.flags => pc' = "closed")
  BY <1>2, <1>3
<1>10. NoneFromDut => NoneFromDut'
  BY DEF NoneFromDut
<1>11. CASE pc = "ack"
  <2>1. /\ dut.state = "syn-received" /\ toDut = <<>> /\ seq = dut.rcv
        /\ NoneFromDut /\ ack = dut.snd
    BY <1>1, <1>11 DEF Opening
  <2>2. Len(toDut) = 0
    BY <2>1
  <2>3. Chain
    BY <2>1, <2>2 DEF Chain, SeqAt
  <2>4. Chain'
    BY <1>2, <1>3, <1>9, <1>11, <2>3, ChainGrows
  <2>5. Len(toDut') = 1 /\ toDut'[1] = p /\ toDut' # <<>>
    BY <1>5, <2>2
  <2>6. HalfOpen'
    BY <1>2, <1>10, <1>11, <2>1, <2>4, <2>5 DEF HalfOpen
  <2> QED
    BY <1>1, <1>7, <1>8, <2>6 DEF Open
<1>12. CASE pc = "open" /\ HalfOpen
  <2>1. Chain'
    BY <1>2, <1>3, <1>9, <1>12, ChainGrows DEF HalfOpen
  <2>2. toDut' # <<>> /\ toDut'[1].flags = {"ACK"}
    <3>1. Len(toDut) # 0
      BY <1>4, <1>12 DEF HalfOpen
    <3>2. Len(toDut') # 0 /\ 1 \in 1..Len(toDut)
      BY <1>5, <3>1
    <3>3. toDut'[1] = toDut[1]
      BY <1>5, <3>2
    <3> QED
      BY <1>12, <3>2, <3>3 DEF HalfOpen
  <2>3. \A i \in 1..Len(toDut') : toDut'[i].ack = dut.snd
    BY <1>2, <1>5, <1>6, <1>12 DEF HalfOpen
  <2>4. HalfOpen'
    BY <1>10, <1>12, <2>1, <2>2, <2>3 DEF HalfOpen
  <2> QED
    BY <1>1, <1>7, <1>8, <2>4 DEF Open
<1>13. CASE pc = "open" /\ Established
  <2>1. Chain'
    BY <1>2, <1>3, <1>9, <1>13, ChainGrows DEF Established
  <2>2. OrderOut' /\ OrderIn'
    BY <1>2, <1>3, <1>13, OrderGrows DEF Established
  <2>3. Established'
    BY <1>13, <2>1, <2>2 DEF Established
  <2> QED
    BY <1>1, <1>7, <1>8, <2>3 DEF Open
<1> QED
  BY <1>1, <1>11, <1>12, <1>13 DEF Open, Reset

\* The SYN of the fixture.
LEMMA SynGoes ==
    ASSUME Typed, ConnectOK, job = "connect", SendSyn
    PROVE  ConnectOK'
<1> SUFFICES ASSUME lost = FALSE
             PROVE  (protested = FALSE /\ Addressed /\ Opening /\ Open)'
  BY DEF ConnectOK, SendSyn
<1>1. protested = FALSE /\ Opening /\ UNCHANGED <<protested, toUs, dut>>
      /\ pc = "syn" /\ pc' = "connecting"
  BY DEF ConnectOK, SendSyn
<1>2. dut.state = "closed" /\ toDut = <<>> /\ NoneFromDut
  BY <1>1 DEF Opening
<1> DEFINE p == Packet("us", "dut", "tcp", {"SYN"}, seq, ack, 0)
<1>3. toDut' = Append(toDut, p) /\ seq' = Seq32(seq + Takes({"SYN"}, 0))
  BY DEF SendSyn, Build
<1>4. p.dst = "dut" /\ p.proto = "tcp" /\ p.flags = {"SYN"} /\ p.seq = seq
  BY DEF Packet
<1> HIDE DEF p
<1>5. toDut' = <<p>>
  BY <1>2, <1>3
<1>6. Len(toDut') = 1 /\ toDut'[1] = p
  BY <1>5
<1>7. Takes({"SYN"}, 0) = 1
  <2>1. {"SYN"} \cap {"SYN", "FIN"} # {}
    OBVIOUS
  <2> QED
    BY <2>1 DEF Takes
<1>8. Addressed'
  BY <1>4, <1>6 DEF Addressed
<1>9. SynSent'
  BY <1>1, <1>2, <1>3, <1>4, <1>6, <1>7 DEF SynSent, NoneFromDut
<1>10. Opening'
  BY <1>1, <1>9 DEF Opening
<1>11. Open'
  BY <1>1 DEF Open
<1> QED
  BY <1>1, <1>8, <1>10, <1>11

\* The SYN-ACK is taken and acknowledged, or the fixture fails.
LEMMA SynAckComes ==
    ASSUME Typed, ConnectOK, job = "connect", SynAckOrFail
    PROVE  ConnectOK'
<1> SUFFICES ASSUME lost = FALSE
             PROVE  (protested = FALSE /\ Addressed /\ Opening /\ Open)'
  BY DEF ConnectOK, SynAckOrFail
<1>1. /\ protested = FALSE /\ Addressed /\ Opening /\ pc = "connecting"
      /\ UNCHANGED <<job, seq, toDut, dut, protested, lost>>
  BY DEF ConnectOK, SynAckOrFail
<1>2. SynSent \/ SynAnswered
  BY <1>1 DEF Opening
<1>3. Addressed'
  BY <1>1 DEF Addressed
<1>4. CASE toUs # <<>> /\ Head(toUs).src = "dut" /\ toUs' = Tail(toUs)
           /\ IF {"SYN", "ACK"} \subseteq Head(toUs).flags
              THEN OnReceive(Head(toUs)) /\ pc' = "ack"
              ELSE pc' = "nothing" /\ UNCHANGED ack
  <2>1. toUs \in Seq(Segments)
    BY DEF Typed
  <2>2. /\ Len(toUs) \in Nat /\ Len(toUs) >= 1 /\ Head(toUs) = toUs[1] /\ toUs[1] \in Segments
        /\ Len(toUs') = Len(toUs) - 1
        /\ \A i \in 1..Len(toUs') : toUs'[i] = toUs[i + 1] /\ i + 1 \in 1..Len(toUs)
    BY <1>4, <2>1, TailFacts
  <2>3. 1 \in 1..Len(toUs) /\ toUs[1].src = "dut"
    BY <1>4, <2>2
  <2>4. SynAnswered
    BY <1>2, <2>3 DEF SynSent, NoneFromDut
  <2>5. /\ toUs[1].flags = {"SYN", "ACK"} /\ toUs[1].len = 0
        /\ dut.snd = Wrap(toUs[1].seq + 1)
    BY <2>3, <2>4 DEF SynAnswered, FromDut
  <2>6. pc' = "ack" /\ OnReceive(toUs[1])
    BY <1>4, <2>2, <2>5
  <2>7. ack' = dut.snd
    <3>1. toUs[1].flags \cap {"SYN", "FIN"} # {}
      BY <2>5
    <3>2. toUs[1].seq \in Nat
      BY <2>2, ReceivedIsNumber, TypedFacts
    <3>3. toUs[1].seq + toUs[1].len + 1 = toUs[1].seq + 1
      BY <2>5, <3>2
    <3>4. ack' = Seq32(toUs[1].seq + 1)
      BY <2>6, <3>1, <3>3 DEF OnReceive
    <3>5. toUs[1].seq + 1 \in Nat
      BY <3>2
    <3> QED
      BY <2>5, <3>4, <3>5, WrapType
  <2>8. NoneFromDut'
    <3> SUFFICES ASSUME NEW i \in 1..Len(toUs'), toUs'[i].src = "dut" PROVE FALSE
      BY DEF NoneFromDut
    <3>1. i + 1 \in 1..Len(toUs) /\ toUs[i + 1].src = "dut"
      BY <2>2
    <3>2. i + 1 = 1
      BY <2>3, <2>4, <3>1 DEF SynAnswered, FromDut
    <3> QED
      BY <3>2
  <2>9. Opening'
    BY <1>1, <2>4, <2>6, <2>7, <2>8 DEF Opening, SynAnswered
  <2>10. Open'
    BY <2>6 DEF Open
  <2> QED
    BY <1>1, <1>3, <2>9, <2>10
<1>5. CASE toUs = <<>> /\ toDut = <<>> /\ pc' = "nothing"
  <2>1. Opening'
    BY <1>1, <1>2, <1>5 DEF Opening, SynSent, SynAnswered
  <2>2. Open'
    BY <1>5 DEF Open
  <2> QED
    BY <1>1, <1>3, <2>1, <2>2
<1> QED
  BY <1>4, <1>5 DEF SynAckOrFail

\* A data segment of the DUT is read: what the suite acknowledges from now on is where
\* it ends.
LEMMA SegmentRead ==
    ASSUME Typed, ConnectOK, job = "connect", ReadSegment, Head(toUs).src = "dut"
    PROVE  ConnectOK'
<1> SUFFICES ASSUME lost = FALSE
             PROVE  (protested = FALSE /\ Addressed /\ Opening /\ Open)'
  BY DEF ConnectOK, ReadSegment
<1>1. /\ protested = FALSE /\ Addressed /\ Opening /\ Open /\ pc = "open"
      /\ UNCHANGED <<job, pc, seq, toDut, dut, protested, lost, data>>
      /\ toUs # <<>> /\ toUs' = Tail(toUs) /\ OnReceive(Head(toUs))
  BY DEF ConnectOK, ReadSegment
<1>2. toUs \in Seq(Segments) /\ toDut \in Seq(Segments)
  BY DEF Typed
<1>3. /\ Len(toUs) \in Nat /\ Len(toUs) >= 1 /\ Head(toUs) = toUs[1] /\ toUs[1] \in Segments
      /\ Len(toUs') = Len(toUs) - 1
      /\ \A i \in 1..Len(toUs') : toUs'[i] = toUs[i + 1] /\ i + 1 \in 1..Len(toUs)
  BY <1>1, <1>2, TailFacts
<1> DEFINE p == toUs[1]
<1>4. 1 \in 1..Len(toUs) /\ p.src = "dut" /\ p.seq \in Numbers /\ p.len \in Nat
  BY <1>3, ReceivedIsNumber
<1>5. Established
  BY <1>1, <1>4 DEF Open, HalfOpen, Reset, NoneFromDut
<1>6. /\ p.flags = {"ACK"} /\ Past(ack) <= Past(p.seq)
      /\ Past(p.seq) + p.len <= Past(dut.snd)
  BY <1>4, <1>5 DEF Established, OrderIn, FromDut
<1> HIDE DEF p
<1>7. /\ Past(ack) \in Nat /\ Past(p.seq) \in Nat /\ Past(dut.snd) \in Nat
      /\ Past(dut.snd) < Modulus
  BY <1>4, TypedFacts, DistValue DEF Past
<1>8. /\ Wrap(p.seq + p.len) \in Numbers
      /\ Past(Wrap(p.seq + p.len)) = Past(p.seq) + p.len
  <2>1. Modulus \in Nat /\ dut.una \in Numbers
    BY TypedFacts
  <2>2. Past(p.seq) + p.len < Modulus
    BY <1>4, <1>6, <1>7, <2>1
  <2> QED
    BY <1>4, <2>1, <2>2, DistAdvance DEF Past
<1>9. ack' = Wrap(p.seq + p.len)
  <2>1. p.flags \cap {"SYN", "FIN"} = {}
    BY <1>6
  <2>2. p.seq + p.len \in Nat /\ p.seq + p.len + 0 = p.seq + p.len
    <3>1. p.seq \in Nat
      BY <1>4, TypedFacts
    <3> QED
      BY <1>4, <3>1
  <2>3. ack' = Seq32(p.seq + p.len)
    BY <1>1, <1>3, <2>1, <2>2 DEF OnReceive, p
  <2> QED
    BY <2>2, <2>3, WrapType
<1>10. Past(ack') = Past(p.seq) + p.len
  BY <1>8, <1>9
<1>12. OrderOut'
  <2>1. ASSUME NEW i \in 1..Len(toDut)
        PROVE  Past(toDut[i].ack) <= Past(ack')
    <3>1. Past(toDut[i].ack) \in Nat
      <4>1. toDut[i] \in Segments
        BY <1>2
      <4> QED
        BY <4>1, ReceivedIsNumber, TypedFacts, DistValue DEF Past
    <3>2. Past(toDut[i].ack) <= Past(ack)
      BY <1>5 DEF Established, OrderOut
    <3> QED
      BY <1>4, <1>6, <1>7, <1>10, <3>1, <3>2
  <2>2. Past(ack') <= Past(dut.snd)
    BY <1>6, <1>10
  <2> QED
    BY <1>1, <1>5, <2>1, <2>2 DEF Established, OrderOut, Past
<1>13. OrderIn'
  <2>1. ASSUME NEW i \in 1..Len(toUs'), toUs'[i].src = "dut"
        PROVE  /\ toUs'[i].flags = {"ACK"}
               /\ Past(ack') <= Past(toUs'[i].seq)
               /\ Past(toUs'[i].seq) + toUs'[i].len <= Past(dut.snd)
    <3>1. i + 1 \in 1..Len(toUs) /\ toUs'[i] = toUs[i + 1] /\ 1 < i + 1
      BY <1>3
    <3>2. Past(p.seq) + p.len <= Past(toUs[i + 1].seq)
      BY <1>4, <1>5, <2>1, <3>1 DEF Established, OrderIn, FromDut, p
    <3> QED
      BY <1>5, <1>10, <2>1, <3>1, <3>2 DEF Established, OrderIn, FromDut
  <2>2. ASSUME NEW i \in 1..Len(toUs'), NEW j \in 1..Len(toUs'),
               toUs'[i].src = "dut", toUs'[j].src = "dut", i < j
        PROVE  Past(toUs'[i].seq) + toUs'[i].len <= Past(toUs'[j].seq)
    <3>1. i + 1 \in 1..Len(toUs) /\ j + 1 \in 1..Len(toUs) /\ i + 1 < j + 1
          /\ toUs'[i] = toUs[i + 1] /\ toUs'[j] = toUs[j + 1]
      BY <1>3, <2>2
    <3> QED
      BY <1>5, <2>2, <3>1 DEF Established, OrderIn, FromDut
  <2> QED
    BY <1>1, <2>1, <2>2 DEF OrderIn, FromDut, Past
<1>14. Chain'
  BY <1>1, <1>5 DEF Established, Chain, SeqAt
<1>15. Established'
  BY <1>1, <1>5, <1>12, <1>13, <1>14 DEF Established
<1>16. Addressed' /\ Opening' /\ Open'
  BY <1>1, <1>15 DEF Addressed, Opening, Open
<1> QED
  BY <1>1, <1>16

\* The steps of the client.
LEMMA ConnectStep ==
    ASSUME Typed, ConnectOK, job = "connect", Connect
    PROVE  ConnectOK'
<1>1. CASE SendAck
  <2>1. Build({"ACK"}, 0) /\ pc = "ack" /\ pc' = "open"
        /\ UNCHANGED <<job, ack, toUs, dut, protested, lost, data>>
    BY <1>1 DEF SendAck
  <2>2. {"ACK"} \in OurFlags /\ "RST" \notin {"ACK"} /\ 0 \in Nat
    BY DEF OurFlags
  <2> QED
    BY <2>1, <2>2, ClientSends
<1>2. CASE Teardown
  <2>1. Build({"RST"}, 0) /\ pc = "open" /\ pc' = "closed"
        /\ UNCHANGED <<job, ack, toUs, dut, protested, lost, data>>
    BY <1>2 DEF Teardown
  <2>2. {"RST"} \in OurFlags /\ 0 \in Nat
    BY DEF OurFlags
  <2> QED
    BY <2>1, <2>2, ClientSends
<1>3. CASE SendSegment
  <2>1. PICK n \in 0..MaxLen, fin \in {{}, {"FIN"}} : Build({"ACK"} \cup fin, n)
    BY <1>3 DEF SendSegment
  <2>2. pc = "open" /\ pc' = "open" /\ UNCHANGED <<job, ack, toUs, dut, protested, lost>>
    BY <1>3 DEF SendSegment
  <2>3. data'.dut = data.dut
    <3>1. PICK x : data' = [data EXCEPT !.us = x]
      BY <1>3 DEF SendSegment
    <3> QED
      BY <3>1, TypedFacts
  <2>4. {"ACK"} \cup fin \in OurFlags /\ "RST" \notin {"ACK"} \cup fin
    BY DEF OurFlags
  <2>5. n \in Nat
    BY PeerAssumption
  <2> QED
    BY <2>1, <2>2, <2>3, <2>4, <2>5, ClientSends
<1>4. CASE ReadSegment
  <2>1. CASE Head(toUs).src # "dut"
    <3>1. /\ toUs # <<>> /\ toUs' = Tail(toUs)
          /\ UNCHANGED <<job, pc, seq, ack, toDut, dut, protested, lost, data>>
      BY <1>4, <2>1 DEF ReadSegment
    <3> QED
      BY <3>1, PacketGoes
  <2> QED
    BY <1>4, <2>1, SegmentRead
<1>5. CASE IgnoresOther
  <2>1. /\ toUs # <<>> /\ toUs' = Tail(toUs)
        /\ UNCHANGED <<job, pc, seq, ack, toDut, dut, protested, lost, data>>
    BY <1>5 DEF IgnoresOther
  <2> QED
    BY <2>1, PacketGoes
<1> QED
  BY <1>1, <1>2, <1>3, <1>4, <1>5, SynGoes, SynAckComes DEF Connect

\* The first of the segments on their way is gone, and the DUT expects the next.
LEMMA ChainShrinks ==
    ASSUME Typed, Chain, toDut # <<>>, toDut' = Tail(toDut), dut'.rcv = SeqAt(2),
           UNCHANGED <<pc, seq>>
    PROVE  Chain'
<1>1. toDut \in Seq(Segments)
  BY DEF Typed
<1>2. /\ Len(toDut) \in Nat /\ Len(toDut) >= 1 /\ Len(toDut') = Len(toDut) - 1
      /\ \A i \in 1..Len(toDut') : toDut'[i] = toDut[i + 1] /\ i + 1 \in 1..Len(toDut)
  BY <1>1, TailFacts
<1>3. (IF 1 <= Len(toDut') THEN toDut'[1].seq ELSE seq') = dut'.rcv
  <2>1. CASE Len(toDut) >= 2
    <3>1. 1 <= Len(toDut') /\ toDut'[1] = toDut[2] /\ 2 <= Len(toDut)
      BY <1>2, <2>1
    <3> QED
      BY <3>1 DEF SeqAt
  <2>2. CASE ~ (Len(toDut) >= 2)
    <3>1. ~ (1 <= Len(toDut')) /\ ~ (2 <= Len(toDut))
      BY <1>2, <2>2
    <3> QED
      BY <3>1 DEF SeqAt
  <2> QED
    BY <2>1, <2>2
<1>4. ASSUME NEW i \in 1..Len(toDut')
      PROVE  /\ toDut'[i].flags \in OurFlags
             /\ "RST" \in toDut'[i].flags => i = Len(toDut') /\ pc' = "closed"
             /\ (IF i + 1 <= Len(toDut') THEN toDut'[i + 1].seq ELSE seq')
                  = Seq32(toDut'[i].seq + Takes(toDut'[i].flags, toDut'[i].len))
  <2> DEFINE k == i + 1
  <2>1. k \in 1..Len(toDut) /\ toDut'[i] = toDut[k] /\ (k = Len(toDut) => i = Len(toDut'))
    <3>1. k \in 1..Len(toDut) /\ toDut'[i] = toDut[k]
      BY <1>2
    <3>2. ASSUME k = Len(toDut) PROVE i = Len(toDut')
      <4>1. i \in Nat /\ i + 1 = Len(toDut)
        BY <3>2
      <4>2. Len(toDut') = Len(toDut) - 1 /\ Len(toDut) \in Nat
        BY <1>2
      <4> HIDE DEF k
      <4> QED
        BY <4>1, <4>2
    <3> QED
      BY <3>1, <3>2
  <2>2. (IF i + 1 <= Len(toDut') THEN toDut'[i + 1].seq ELSE seq')
          = (IF k + 1 <= Len(toDut) THEN toDut[k + 1].seq ELSE seq)
    <3>1. CASE i + 1 <= Len(toDut')
      <4>1. i + 1 \in 1..Len(toDut') /\ k + 1 <= Len(toDut)
        BY <1>2, <3>1
      <4>2. toDut'[i + 1] = toDut[k + 1]
        BY <1>2, <4>1
      <4> QED
        BY <3>1, <4>1, <4>2
    <3>2. CASE ~ (i + 1 <= Len(toDut'))
      <4>1. ~ (k + 1 <= Len(toDut))
        BY <1>2, <3>2
      <4> QED
        BY <3>2, <4>1
    <3> QED
      BY <3>1, <3>2
  <2> HIDE DEF k
  <2>3. /\ toDut[k].flags \in OurFlags
        /\ "RST" \in toDut[k].flags => k = Len(toDut) /\ pc = "closed"
        /\ (IF k + 1 <= Len(toDut) THEN toDut[k + 1].seq ELSE seq)
             = Seq32(toDut[k].seq + Takes(toDut[k].flags, toDut[k].len))
    BY <2>1 DEF Chain, SeqAt
  <2> QED
    BY <2>1, <2>2, <2>3
<1> QED
  BY <1>3, <1>4 DEF Chain, SeqAt

\* An acknowledgement arrives: the distances are measured from there.
LEMMA OrderShrinks ==
    ASSUME Typed, OrderOut, OrderIn, toDut # <<>>, toDut' = Tail(toDut),
           dut'.una = toDut[1].ack, dut'.snd = dut.snd,
           UNCHANGED <<ack, toUs, data>>
    PROVE  OrderOut' /\ OrderIn'
<1>1. toDut \in Seq(Segments) /\ toUs \in Seq(Segments)
  BY DEF Typed
<1>2. /\ Len(toDut) \in Nat /\ Len(toDut) >= 1 /\ Len(toDut') = Len(toDut) - 1
      /\ \A i \in 1..Len(toDut') : toDut'[i] = toDut[i + 1] /\ i + 1 \in 1..Len(toDut)
      /\ 1 \in 1..Len(toDut)
  <2>1. /\ Len(toDut) \in Nat /\ Len(toDut) >= 1 /\ Len(toDut') = Len(toDut) - 1
        /\ \A i \in 1..Len(toDut') : toDut'[i] = toDut[i + 1] /\ i + 1 \in 1..Len(toDut)
    BY <1>1, TailFacts
  <2> QED
    BY <2>1
<1> DEFINE b == toDut[1].ack
           Now(n) == Dist(b, n)
<1>3. b \in Numbers
  <2>1. toDut[1] \in Segments
    BY <1>1, <1>2
  <2> QED
    BY <2>1, ReceivedIsNumber
<1>4. \A n \in Numbers : Past(n) \in Nat
  BY TypedFacts, DistValue DEF Past
<1>5. \A n \in Numbers : Past(b) <= Past(n) => Now(n) = Past(n) - Past(b)
  BY <1>3, TypedFacts, DistRebase DEF Past
<1>6. Past(b) \in Nat /\ Past(ack) \in Nat /\ Past(dut.snd) \in Nat
  BY <1>3, <1>4, TypedFacts
<1>7. dut'.una = b /\ ack' = ack /\ dut'.snd = dut.snd
  OBVIOUS
<1> HIDE DEF b, Now
<1>8. Past(b) <= Past(ack) /\ Past(ack) <= Past(dut.snd) /\ Past(b) <= Past(dut.snd)
  <2>1. Past(b) <= Past(ack) /\ Past(ack) <= Past(dut.snd)
    BY <1>2 DEF OrderOut, b
  <2> QED
    BY <1>6, <2>1
<1>9. Now(ack) = Past(ack) - Past(b) /\ Now(dut.snd) = Past(dut.snd) - Past(b)
  BY <1>5, <1>8, TypedFacts
<1>10. ASSUME NEW i \in 1..Len(toDut)
       PROVE  /\ toDut[i].ack \in Numbers /\ Past(toDut[i].ack) \in Nat
              /\ Now(toDut[i].ack) = Past(toDut[i].ack) - Past(b)
              /\ Past(toDut[i].ack) <= Past(ack)
  <2>1. toDut[i] \in Segments
    BY <1>1
  <2>2. toDut[i].ack \in Numbers
    BY <2>1, ReceivedIsNumber
  <2>3. Past(b) <= Past(toDut[i].ack) /\ Past(toDut[i].ack) <= Past(ack)
    <3>1. 1 <= i
      BY <1>2
    <3> QED
      BY <1>2, <3>1 DEF OrderOut, b
  <2> QED
    BY <1>4, <1>5, <2>2, <2>3
<1>11. ASSUME NEW i \in 1..Len(toUs), toUs[i].src = "dut"
       PROVE  /\ toUs[i].seq \in Numbers /\ Past(toUs[i].seq) \in Nat /\ toUs[i].len \in Nat
              /\ Now(toUs[i].seq) = Past(toUs[i].seq) - Past(b)
              /\ toUs[i].flags = {"ACK"}
              /\ Past(ack) <= Past(toUs[i].seq)
              /\ Past(toUs[i].seq) + toUs[i].len <= Past(dut.snd)
  <2>1. toUs[i] \in Segments
    BY <1>1
  <2>2. toUs[i].seq \in Numbers /\ toUs[i].len \in Nat
    BY <2>1, ReceivedIsNumber
  <2>3. /\ toUs[i].flags = {"ACK"}
        /\ Past(ack) <= Past(toUs[i].seq)
        /\ Past(toUs[i].seq) + toUs[i].len <= Past(dut.snd)
    BY <1>11 DEF OrderIn, FromDut
  <2>4. Past(toUs[i].seq) \in Nat
    BY <1>4, <2>2
  <2>5. Past(b) <= Past(toUs[i].seq)
    BY <1>6, <1>8, <2>3, <2>4
  <2> QED
    BY <1>5, <2>2, <2>3, <2>4, <2>5
<1>12. Now(dut.snd) <= data.dut * MaxLen
  <2>1. Past(dut.snd) <= data.dut * MaxLen
    BY DEF OrderOut
  <2>2. data.dut * MaxLen \in Nat
    <3>1. data.dut \in Nat /\ MaxLen \in Nat
      BY TypedFacts
    <3> QED
      BY <3>1
  <2> DEFINE m == data.dut * MaxLen
  <2>3. m \in Nat /\ Past(dut.snd) <= m
    BY <2>1, <2>2
  <2> HIDE DEF m
  <2>4. Now(dut.snd) <= m
    BY <1>6, <1>9, <2>3
  <2> QED
    BY <2>4 DEF m
<1>13. Now(ack) <= Now(dut.snd)
  BY <1>6, <1>8, <1>9
<1>14. ASSUME NEW i \in 1..Len(toDut')
       PROVE  Now(toDut'[i].ack) <= Now(ack)
  <2>1. i + 1 \in 1..Len(toDut) /\ toDut'[i] = toDut[i + 1]
    BY <1>2
  <2> QED
    BY <1>6, <1>9, <1>10, <2>1
<1>15. ASSUME NEW i \in 1..Len(toDut'), NEW j \in 1..Len(toDut'), i <= j
       PROVE  Now(toDut'[i].ack) <= Now(toDut'[j].ack)
  <2>1. /\ i + 1 \in 1..Len(toDut) /\ toDut'[i] = toDut[i + 1]
        /\ j + 1 \in 1..Len(toDut) /\ toDut'[j] = toDut[j + 1] /\ i + 1 <= j + 1
    BY <1>2, <1>15
  <2>2. Past(toDut[i + 1].ack) <= Past(toDut[j + 1].ack)
    BY <2>1 DEF OrderOut
  <2> QED
    BY <1>6, <1>10, <2>1, <2>2
<1>16. OrderOut'
  BY <1>7, <1>12, <1>13, <1>14, <1>15 DEF OrderOut, Past, Now
<1>17. ASSUME NEW i \in 1..Len(toUs), toUs[i].src = "dut"
       PROVE  /\ toUs[i].flags = {"ACK"}
              /\ Now(ack) <= Now(toUs[i].seq)
              /\ Now(toUs[i].seq) + toUs[i].len <= Now(dut.snd)
  BY SMTT(30), <1>6, <1>9, <1>11, <1>17
<1>18. ASSUME NEW i \in 1..Len(toUs), NEW j \in 1..Len(toUs),
              toUs[i].src = "dut", toUs[j].src = "dut", i < j
       PROVE  Now(toUs[i].seq) + toUs[i].len <= Now(toUs[j].seq)
  <2>1. Past(toUs[i].seq) + toUs[i].len <= Past(toUs[j].seq)
    BY <1>18 DEF OrderIn, FromDut
  <2>2. /\ Past(toUs[i].seq) \in Nat /\ toUs[i].len \in Nat /\ Past(toUs[j].seq) \in Nat
        /\ Now(toUs[i].seq) = Past(toUs[i].seq) - Past(b)
        /\ Now(toUs[j].seq) = Past(toUs[j].seq) - Past(b)
    BY <1>11, <1>18
  <2> QED
    BY <1>6, <2>1, <2>2
<1>19. OrderIn'
  BY <1>7, <1>17, <1>18 DEF OrderIn, FromDut, Past, Now
<1> QED
  BY <1>16, <1>19

\* The DUT takes the SYN of the fixture.
LEMMA SynTaken ==
    ASSUME Typed, Addressed, SynSent, pc = "connecting", protested = FALSE, DutTakes
    PROVE  (protested = FALSE /\ Addressed /\ Opening /\ Open)'
<1> DEFINE p == Head(toDut)
<1>1. /\ toDut # <<>> /\ toDut' = Tail(toDut)
      /\ UNCHANGED <<job, pc, seq, ack, seen, lost, missed, noise, data>>
  BY DutTakesCases
<1>2. toDut \in Seq(Segments) /\ toUs \in Seq(Segments)
  BY DEF Typed
<1>3. p = toDut[1] /\ p \in Segments /\ 1 \in 1..Len(toDut)
      /\ toDut' \in Seq(Segments) /\ Len(toDut') = Len(toDut) - 1
  BY <1>1, <1>2, TailFacts DEF SynSent
<1>4. Len(toDut') = 0 /\ toDut' = <<>>
  BY <1>3 DEF SynSent
<1>5. p.dst = "dut" /\ p.proto = "tcp" /\ p.flags = {"SYN"} /\ seq = Seq32(p.seq + 1)
      /\ dut.state = "closed"
  BY <1>3 DEF Addressed, SynSent
<1> HIDE DEF p
<1>6. Accepts(p)
  BY <1>5 DEF Accepts
<1>7. protested' = protested /\ DutSynReceived(p)
  BY <1>5, <1>6, DutTakesCases DEF p
<1>8. PICK iss \in Numbers :
         /\ dut' = [state |-> "syn-received", snd |-> Wrap(iss + 1), una |-> iss,
                    rcv |-> Wrap(p.seq + 1)]
         /\ toUs' = Append(toUs, Packet("dut", "us", Proto, {"SYN", "ACK"}, iss,
                                        Wrap(p.seq + 1), 0))
  BY <1>7 DEF DutSynReceived, Says
<1> DEFINE q == Packet("dut", "us", Proto, {"SYN", "ACK"}, iss, Wrap(p.seq + 1), 0)
<1>9. q \in Segments
  <2>1. Wrap(p.seq + 1) \in Numbers /\ {"SYN", "ACK"} \in SUBSET Flags
    BY <1>3, ReceivedIsNumber, NamesExist
  <2> QED
    BY <2>1, ItsAreSegments
<1>10. q.flags = {"SYN", "ACK"} /\ q.len = 0 /\ q.seq = iss
  BY DEF Packet
<1>11. toUs' = Append(toUs, q)
  BY <1>8
<1> HIDE DEF q
<1>12. /\ Len(toUs) \in Nat /\ Len(toUs') = Len(toUs) + 1
       /\ \A i \in 1..Len(toUs) : toUs'[i] = toUs[i]
       /\ toUs'[Len(toUs) + 1] = q
  BY <1>2, <1>9, <1>11, AppendFacts
<1>13. ASSUME NEW i \in 1..Len(toUs'), toUs'[i].src = "dut"
       PROVE  i = Len(toUs) + 1 /\ toUs'[i] = q
  <2>1. i \in 1..Len(toUs) \/ i = Len(toUs) + 1
    BY <1>12
  <2> QED
    BY <1>12, <1>13, <2>1 DEF SynSent, NoneFromDut
<1>14. seq' = dut'.rcv
  <2>1. p.seq + 1 \in Nat
    <3>1. p.seq \in Numbers
      BY <1>3, ReceivedIsNumber
    <3>2. p.seq \in Nat
      BY <3>1, TypedFacts
    <3> QED
      BY <3>2
  <2> QED
    BY <1>1, <1>5, <1>8, <2>1, WrapType
<1>15. dut'.state = "syn-received" /\ dut'.snd = Wrap(iss + 1)
  BY <1>8
<1>16. SynAnswered'
  <2>1. \A i, j \in 1..Len(toUs') : toUs'[i].src = "dut" /\ toUs'[j].src = "dut" => i = j
    BY <1>13
  <2>2. \A i \in 1..Len(toUs') : toUs'[i].src = "dut" =>
           /\ toUs'[i].flags = {"SYN", "ACK"} /\ toUs'[i].len = 0
           /\ dut'.snd = Wrap(toUs'[i].seq + 1)
    BY <1>10, <1>13, <1>15
  <2> QED
    BY <1>4, <1>14, <1>15, <2>1, <2>2 DEF SynAnswered, FromDut
<1>17. Opening'
  BY <1>1, <1>16 DEF Opening
<1>18. Addressed' /\ Open'
  BY <1>1, <1>4 DEF Addressed, Open
<1> QED
  BY <1>7, <1>17, <1>18

\* The DUT takes a segment of an open connection: it never has a reason not to.
LEMMA SegmentTaken ==
    ASSUME Typed, Addressed, HalfOpen \/ Established, pc \in {"open", "closed"},
           protested = FALSE, DutTakes
    PROVE  (protested = FALSE /\ Addressed /\ Opening /\ Open)'
<1> DEFINE p == Head(toDut)
<1>1. /\ toDut # <<>> /\ toDut' = Tail(toDut)
      /\ UNCHANGED <<job, pc, seq, ack, seen, lost, missed, noise, data>>
  BY DutTakesCases
<1>2. toDut \in Seq(Segments)
  BY DEF Typed
<1>3. /\ p = toDut[1] /\ p \in Segments /\ Len(toDut) \in Nat /\ Len(toDut) >= 1
      /\ toDut' \in Seq(Segments) /\ Len(toDut') = Len(toDut) - 1
      /\ \A i \in 1..Len(toDut') : toDut'[i] = toDut[i + 1] /\ i + 1 \in 1..Len(toDut)
  BY <1>1, <1>2, TailFacts
<1>3a. 1 \in 1..Len(toDut)
  BY <1>3
<1>4. /\ p.dst = "dut" /\ p.proto = "tcp" /\ p.ack \in Numbers /\ p.len \in Nat
      /\ p.seq \in Numbers
  BY <1>3, <1>3a, ReceivedIsNumber DEF Addressed
<1> HIDE DEF p
<1>5. Chain
  BY DEF HalfOpen, Established
<1>6. /\ p.flags \in OurFlags /\ p.seq = dut.rcv
      /\ "RST" \in p.flags => Len(toDut) = 1 /\ pc = "closed"
      /\ SeqAt(2) = Seq32(p.seq + Takes(p.flags, p.len))
  <2>1. SeqAt(1) = p.seq
    BY <1>3, <1>3a DEF SeqAt
  <2>2. SeqAt(1 + 1) = Seq32(p.seq + Takes(p.flags, p.len))
        /\ p.flags \in OurFlags /\ ("RST" \in p.flags => 1 = Len(toDut) /\ pc = "closed")
    BY <1>3, <1>3a, <1>5 DEF Chain
  <2> QED
    BY <1>5, <2>1, <2>2 DEF Chain
<1>7. dut.state \in {"syn-received", "established"}
  BY DEF HalfOpen, Established
<1>8. "ACK" \in p.flags => AckFits(p)
  <2>1. CASE HalfOpen
    <3>1. p.ack = dut.snd
      BY <1>3, <1>3a, <2>1 DEF HalfOpen
    <3>2. Past(p.ack) \in Nat /\ Past(p.ack) <= Past(dut.snd)
      <4>1. Dist(dut.una, dut.snd) \in Nat
        BY TypedFacts, DistValue
      <4>2. Past(p.ack) = Dist(dut.una, dut.snd) /\ Past(dut.snd) = Dist(dut.una, dut.snd)
        BY <3>1 DEF Past
      <4> HIDE DEF Past
      <4> QED
        BY <4>1, <4>2
    <3> QED
      BY <3>2 DEF AckFits, Past, Dist
  <2>2. CASE Established
    <3>1. Past(p.ack) <= Past(ack) /\ Past(ack) <= Past(dut.snd)
      BY <1>3, <1>3a, <2>2 DEF Established, OrderOut
    <3>2. Past(p.ack) \in Nat /\ Past(ack) \in Nat /\ Past(dut.snd) \in Nat
      BY <1>4, TypedFacts, DistValue DEF Past
    <3>3. Past(p.ack) <= Past(dut.snd)
      BY <3>1, <3>2
    <3> QED
      BY <3>3 DEF AckFits, Past, Dist
  <2> QED
    BY <2>1, <2>2
<1>9. Accepts(p)
  BY <1>6, <1>7, <1>8 DEF Accepts
<1>10. protested' = protested /\ DutGoesOn(p)
  BY <1>4, <1>7, <1>9, DutTakesCases DEF p
<1>11. Addressed'
  BY <1>3 DEF Addressed
<1>12. Opening'
  BY <1>1 DEF Opening
<1>13. CASE "RST" \in p.flags
  <2>1. dut'.state = "reset"
    BY <1>10, <1>13, TypedFacts DEF DutGoesOn
  <2>2. toDut' = <<>>
    <3>1. Len(toDut') = 0
      BY <1>3, <1>6, <1>13
    <3> QED
      BY <1>3, <3>1
  <2>3. Reset'
    BY <1>1, <1>6, <1>13, <2>1, <2>2 DEF Reset
  <2> QED
    BY <1>10, <1>11, <1>12, <2>3 DEF Open
<1>14. CASE "RST" \notin p.flags
  <2>1. "ACK" \in p.flags
    BY <1>6, <1>14 DEF OurFlags
  <2>2. /\ dut' = [dut EXCEPT !.state = "established", !.una = p.ack,
                              !.rcv = Wrap(@ + p.len
                                             + Cardinality(p.flags \cap {"SYN", "FIN"}))]
        /\ toUs' = toUs
    BY <1>10, <1>14, <2>1 DEF DutGoesOn
  <2>3. /\ dut'.state = "established" /\ dut'.una = p.ack /\ dut'.snd = dut.snd
        /\ dut'.rcv = Wrap(dut.rcv + p.len + Cardinality(p.flags \cap {"SYN", "FIN"}))
    BY <2>2, TypedFacts
  <2>4. dut'.rcv = SeqAt(2)
    <3> DEFINE c == Cardinality(p.flags \cap {"SYN", "FIN"})
    <3>1. c \in Nat /\ Takes(p.flags, p.len) = p.len + c
      BY <1>4, <1>6, TakesFacts DEF OurFlags
    <3> HIDE DEF c
    <3>2. p.seq \in Nat
      BY <1>4, TypedFacts
    <3>3. p.seq + Takes(p.flags, p.len) = p.seq + p.len + c /\ p.seq + p.len + c \in Nat
      BY <1>4, <3>1, <3>2
    <3>4. SeqAt(2) = Wrap(p.seq + p.len + c)
      BY <1>6, <3>3, WrapType
    <3> QED
      BY <1>6, <2>3, <3>4 DEF c
  <2>5. Chain'
    BY <1>1, <1>5, <2>4, ChainShrinks
  <2>6. OrderOut' /\ OrderIn'
    <3>1. CASE Established
      BY <1>1, <1>3, <2>2, <2>3, <3>1, OrderShrinks DEF Established
    <3>2. CASE HalfOpen
      <4>1. p.ack = dut.snd /\ ack = dut.snd
        BY <1>3, <1>3a, <3>2 DEF HalfOpen
      <4>2. \A i \in 1..Len(toDut') : toDut'[i].ack = dut.snd
        BY <1>3, <3>2 DEF HalfOpen
      <4>3. Dist(dut.snd, dut.snd) = 0
        BY TypedFacts, DistSelf
      <4>4. dut'.una = dut.snd /\ dut'.snd = dut.snd /\ ack' = dut.snd
        BY <1>1, <2>3, <4>1
      <4>5. 0 <= data'.dut * MaxLen
        <5>1. data'.dut \in Nat /\ MaxLen \in Nat
          BY <1>1, TypedFacts
        <5> QED
          BY <5>1
      <4>6. OrderOut'
        BY <4>2, <4>3, <4>4, <4>5 DEF OrderOut, Past
      <4>7. OrderIn'
        BY <2>2, <3>2 DEF HalfOpen, NoneFromDut, OrderIn, FromDut
      <4> QED
        BY <4>6, <4>7
    <3> QED
      BY <3>1, <3>2
  <2>7. Established'
    BY <2>3, <2>5, <2>6 DEF Established
  <2> QED
    BY <1>10, <1>11, <1>12, <2>7 DEF Open
<1> QED
  BY <1>13, <1>14

\* Whatever of the suite's segments the DUT takes.
LEMMA DutTakesStep ==
    ASSUME Typed, ConnectOK, job = "connect", DutTakes
    PROVE  ConnectOK'
<1>1. toDut # <<>> /\ UNCHANGED <<job, pc, lost>>
  BY DutTakesCases
<1> SUFFICES ASSUME lost = FALSE
             PROVE  (protested = FALSE /\ Addressed /\ Opening /\ Open)'
  BY <1>1 DEF ConnectOK
<1>2. protested = FALSE /\ Addressed /\ Opening /\ Open
  BY DEF ConnectOK
<1>3. pc \in {"connecting", "open", "closed"}
  BY <1>1, <1>2 DEF Opening, Typed
<1>4. CASE pc = "connecting"
  <2>1. SynSent
    BY <1>1, <1>2, <1>4 DEF Opening, SynAnswered
  <2> QED
    BY <1>2, <1>4, <2>1, SynTaken
<1>5. CASE pc \in {"open", "closed"}
  <2>1. HalfOpen \/ Established
    BY <1>1, <1>2, <1>5 DEF Open, Reset
  <2> QED
    BY <1>2, <1>5, <2>1, SegmentTaken
<1> QED
  BY <1>3, <1>4, <1>5

\* The DUT sends data: it has not come round to what the suite acknowledged last.
LEMMA DutSendsStep ==
    ASSUME Typed, ConnectOK, job = "connect", DutSends
    PROVE  ConnectOK'
<1> SUFFICES ASSUME lost = FALSE
             PROVE  (protested = FALSE /\ Addressed /\ Opening /\ Open)'
  BY DEF ConnectOK, DutSends
<1>1. /\ protested = FALSE /\ Addressed /\ Opening /\ Open
      /\ UNCHANGED <<job, pc, seq, ack, toDut, protested, lost>>
      /\ dut.state = "established" /\ data.dut < MaxData
      /\ data' = [data EXCEPT !.dut = @ + 1]
  BY DEF ConnectOK, DutSends
<1>2. PICK n \in 1..MaxLen : /\ Says({"ACK"}, dut.snd, dut.rcv, n)
                             /\ dut' = [dut EXCEPT !.snd = Wrap(@ + n)]
  BY DEF DutSends
<1>3. pc \in {"open", "closed"} /\ Established
  <2>1. pc \in {"open", "closed"}
    BY <1>1 DEF Opening, SynSent, SynAnswered, Typed
  <2> QED
    BY <1>1, <2>1 DEF Open, HalfOpen, Reset
<1>4. n \in Nat /\ data.dut \in Nat /\ MaxLen \in Nat
  BY TypedFacts
<1>5. /\ dut'.state = "established" /\ dut'.una = dut.una /\ dut'.rcv = dut.rcv
      /\ dut'.snd = Wrap(dut.snd + n)
  BY <1>1, <1>2, TypedFacts
<1>6. data'.dut = data.dut + 1
  BY <1>1, TypedFacts
<1> DEFINE p == Packet("dut", "us", Proto, {"ACK"}, dut.snd, dut.rcv, n)
<1>7. p \in Segments /\ toUs' = Append(toUs, p)
  <2>1. {"ACK"} \in SUBSET Flags
    BY NamesExist
  <2> QED
    BY <1>2, <1>4, <2>1, ItsAreSegments, TypedFacts DEF Says
<1>8. p.seq = dut.snd /\ p.len = n /\ p.flags = {"ACK"}
  BY DEF Packet
<1> HIDE DEF p
<1>9. toUs \in Seq(Segments) /\ toDut \in Seq(Segments)
  BY DEF Typed
<1>10. /\ Len(toUs) \in Nat /\ Len(toUs') = Len(toUs) + 1
       /\ \A i \in 1..Len(toUs) : toUs'[i] = toUs[i]
       /\ toUs'[Len(toUs) + 1] = p
  BY <1>7, <1>9, AppendFacts
<1>11. \A i \in 1..Len(toUs') : i \in 1..Len(toUs) \/ i = Len(toUs) + 1
  BY <1>10
<1>12. Past(dut.snd) \in Nat /\ Past(ack) \in Nat
  BY TypedFacts, DistValue DEF Past
<1>13. /\ Past(dut.snd) + n <= (data.dut + 1) * MaxLen
       /\ Past(dut.snd) + n < Modulus
  BY <1>1, <1>3, <1>4, <1>12, Room DEF Established, OrderOut
<1>14. Past(dut'.snd) = Past(dut.snd) + n
  <2>1. Dist(dut.una, dut.snd) + n < Modulus
    BY <1>13 DEF Past
  <2> QED
    BY <1>4, <1>5, <2>1, TypedFacts, DistAdvance DEF Past
<1>15. Past(ack) <= Past(dut'.snd)
  <2>1. Past(ack) <= Past(dut.snd)
    BY <1>3 DEF Established, OrderOut
  <2> QED
    BY <1>4, <1>12, <1>14, <2>1
<1>16. Past(dut'.snd) <= data'.dut * MaxLen
  BY <1>6, <1>13, <1>14
<1>17. OrderOut'
  BY <1>1, <1>3, <1>5, <1>15, <1>16 DEF Established, OrderOut, Past
<1>18. ASSUME NEW i \in 1..Len(toUs'), toUs'[i].src = "dut"
       PROVE  /\ toUs'[i].flags = {"ACK"}
              /\ Past(ack) <= Past(toUs'[i].seq)
              /\ Past(toUs'[i].seq) + toUs'[i].len <= Past(dut'.snd)
  <2>1. CASE i = Len(toUs) + 1
    <3>1. Past(ack) <= Past(dut.snd)
      BY <1>3 DEF Established, OrderOut
    <3>2. toUs'[i].seq = dut.snd /\ toUs'[i].len = n /\ toUs'[i].flags = {"ACK"}
      BY <1>8, <1>10, <2>1
    <3>3. Past(dut.snd) + n <= Past(dut'.snd)
      BY <1>4, <1>12, <1>14
    <3> QED
      BY <3>1, <3>2, <3>3
  <2>2. CASE i \in 1..Len(toUs)
    <3>1. /\ toUs[i].flags = {"ACK"} /\ Past(ack) <= Past(toUs[i].seq)
          /\ Past(toUs[i].seq) + toUs[i].len <= Past(dut.snd)
      BY <1>3, <1>10, <1>18, <2>2 DEF Established, OrderIn, FromDut
    <3>2. Past(toUs[i].seq) \in Nat /\ toUs[i].len \in Nat
      <4>1. toUs[i] \in Segments
        BY <1>9, <2>2
      <4> QED
        BY <4>1, ReceivedIsNumber, TypedFacts, DistValue DEF Past
    <3>3. Past(toUs[i].seq) + toUs[i].len <= Past(dut'.snd)
      BY <1>4, <1>12, <1>14, <3>1, <3>2
    <3> QED
      BY <1>10, <2>2, <3>1, <3>3
  <2> QED
    BY <1>11, <2>1, <2>2
<1>19. ASSUME NEW i \in 1..Len(toUs'), NEW j \in 1..Len(toUs'),
              toUs'[i].src = "dut", toUs'[j].src = "dut", i < j
       PROVE  Past(toUs'[i].seq) + toUs'[i].len <= Past(toUs'[j].seq)
  <2>1. i \in 1..Len(toUs)
    BY <1>10, <1>19
  <2>2. CASE j = Len(toUs) + 1
    <3>1. Past(toUs[i].seq) + toUs[i].len <= Past(dut.snd)
      BY <1>3, <1>10, <1>19, <2>1 DEF Established, OrderIn, FromDut
    <3> QED
      BY <1>8, <1>10, <2>1, <2>2, <3>1
  <2>3. CASE j \in 1..Len(toUs)
    BY <1>3, <1>10, <1>19, <2>1, <2>3 DEF Established, OrderIn, FromDut
  <2> QED
    BY <1>11, <2>2, <2>3
<1>20. OrderIn'
  BY <1>1, <1>5, <1>18, <1>19 DEF OrderIn, FromDut, Past
<1>21. Chain'
  BY <1>1, <1>3, <1>5 DEF Established, Chain, SeqAt
<1>22. Established'
  BY <1>5, <1>17, <1>20, <1>21 DEF Established
<1>23. Addressed' /\ Opening' /\ Open'
  BY <1>1, <1>3, <1>22 DEF Addressed, Opening, Open
<1> QED
  BY <1>1, <1>23

\* Every step keeps the client's connection in step.
LEMMA ClientStep ==
    ASSUME Typed, ConnectOK, job = "connect", Next
    PROVE  ConnectOK'
<1>1. CASE Dropped
  BY <1>1, PacketGoes DEF Dropped
<1>2. CASE Loses
  BY <1>2 DEF Loses, ConnectOK
<1>3. CASE UNCHANGED vars
  BY <1>3 DEF vars, ConnectOK, Addressed, Opening, Open, SynSent, SynAnswered, NoneFromDut,
              HalfOpen, Established, Reset, Chain, SeqAt, OrderOut, OrderIn, Past, FromDut
<1> QED
  BY <1>1, <1>2, <1>3, ClientSteps, ConnectStep, DutTakesStep, DutSendsStep, NoiseComes

-----------------------------------------------------------------------------
(***************************************************************************)
(* The peer's theorems.                                                    *)
(***************************************************************************)
\* What the peer is used for does not change.
LEMMA JobStays == Next => job' = job
<1>1. Serve => job' = job
  BY DEF Serve, Arrives, SendReply, SniffAgain, TimesOut
<1>2. Connect => job' = job
  BY DEF Connect, SendSyn, SynAckOrFail, IgnoresOther, SendAck, SendSegment,
    ReadSegment, Teardown
<1>3. Outside => job' = job
  BY DEF Outside, DutSpeaks, DutTakes, DutSends, OthersSend, Loses
<1> QED
  BY <1>1, <1>2, <1>3 DEF Next, Over, vars

\* Before the first step no packet is in flight.
LEMMA InitPeerInv == Init => PeerInv
<1> SUFFICES ASSUME Init PROVE PeerInv
  OBVIOUS
<1>1. /\ toDut = <<>> /\ toUs = <<>> /\ Len(toDut) = 0 /\ Len(toUs) = 0
      /\ dut.state = "closed" /\ protested = FALSE
      /\ pc = IF job = "connect" THEN "syn" ELSE "sniff"
  BY DEF Init
<1>2. EchoOK
  BY <1>1 DEF EchoOK
<1>3. ServeOK
  BY <1>1 DEF ServeOK, ServeReply, ServeSyn, ServeAck
<1>4. ConnectOK
  BY <1>1 DEF ConnectOK, Addressed, Opening, Open, NoneFromDut
<1> QED
  BY <1>2, <1>3, <1>4, InitTyped DEF PeerInv

\* Every step of the specification preserves the invariant.
LEMMA NextPeerInv == PeerInv /\ [Next]_vars => PeerInv'
<1> SUFFICES ASSUME PeerInv, [Next]_vars PROVE PeerInv'
  OBVIOUS
<1>1. Typed /\ EchoOK /\ ServeOK /\ ConnectOK
  BY DEF PeerInv
<1>2. Typed'
  BY <1>1, NextTyped
<1>3. CASE UNCHANGED vars
  <2>1. EchoOK'
    BY <1>1, <1>3 DEF EchoOK, vars
  <2>2. ServeOK'
    BY <1>1, <1>3 DEF ServeOK, ServeReply, ServeSyn, ServeAck, FromDut, FinalAck, ToUs,
                      Proto, vars
  <2>3. ConnectOK'
    BY <1>1, <1>3 DEF vars, ConnectOK, Addressed, Opening, Open, SynSent, SynAnswered,
                      NoneFromDut, HalfOpen, Established, Reset, Chain, SeqAt, OrderOut,
                      OrderIn, Past, FromDut
  <2> QED
    BY <1>2, <2>1, <2>2, <2>3 DEF PeerInv
<1>4. CASE Next
  <2>1. job' = job
    BY <1>4, JobStays
  <2>2. EchoOK'
    BY <1>1, <1>4, EchoStep
  <2>3. ServeOK'
    BY <1>1, <1>4, <2>1, ServeStep DEF ServeOK
  <2>4. ConnectOK'
    BY <1>1, <1>4, <2>1, ClientStep DEF ConnectOK
  <2> QED
    BY <1>2, <2>2, <2>3, <2>4 DEF PeerInv
<1> QED
  BY <1>3, <1>4

\* The inductive invariant holds of every behaviour of the peer.
THEOREM PeerInvariantHolds == Spec => []PeerInv
BY InitPeerInv, NextPeerInv, PTL DEF Spec

\* Unless the network loses something, the DUT never has a reason to reject a segment of
\* the suite, wherever the numbers of either side wrap (sequence.py, responder.py).
THEOREM AlwaysInStep == Spec => []InStep
<1>1. PeerInv => InStep
  <2> SUFFICES ASSUME PeerInv, lost = FALSE PROVE protested = FALSE
    <3>1. PeerInv => TypeOK /\ lost \in BOOLEAN /\ protested \in BOOLEAN
      BY TypedFacts DEF PeerInv, Typed
    <3> QED
      BY <3>1, Zenon DEF InStep
  <2>1. job \in {"tcp-serve", "udp-serve", "icmp-serve", "connect"}
    BY TypedFacts DEF PeerInv
  <2> QED
    BY <2>1 DEF PeerInv, EchoOK, ServeOK, ServeReply, ConnectOK
<1> QED
  BY <1>1, PeerInvariantHolds, PTL

\* serve_tcp_handshake misses a handshake the DUT has completed only if its ACK was lost,
\* or came between the two sniffs (responder.py).
THEOREM HandshakeAlwaysSeen == Spec => []HandshakeSeen
<1>1. PeerInv => HandshakeSeen
  <2> SUFFICES ASSUME PeerInv, job = "tcp-serve", pc = "nothing", dut.state = "established"
               PROVE  lost = TRUE \/ missed = TRUE
    BY Zenon DEF HandshakeSeen
  <2>1. ServeAck /\ lost \in BOOLEAN /\ missed \in BOOLEAN
    BY TypedFacts DEF PeerInv, ServeOK
  <2> QED
    BY <2>1 DEF ServeAck
<1> QED
  BY <1>1, PeerInvariantHolds, PTL

-----------------------------------------------------------------------------
(***************************************************************************)
(* The recorder of `netstack-cli record`, for any number of frames and of  *)
(* Ctrl+Cs: its inductive invariant.                                       *)
(***************************************************************************)

\* A frame is in the file before it is counted, and no frame is both; the frame
\* a failing write left behind may follow when the file is closed.
FramesOK ==
    /\ thread = "count" => file = count + 1
    /\ file = count + 1 => thread = "count" \/ (stored = "disk" /\ closed)
    /\ count <= frames
    /\ thread \in {"write", "count"} => count < frames

\* Which method of the recorder the command is in, at each of its steps.
CallsOK ==
    /\ thread = "unborn" => mainPc \in {"begin", "opened", "done"} /\ call = None
    /\ mainPc \in {"begin", "opened"} => thread = "unborn"
    /\ mainPc = "spawned" => call = None
    /\ mainPc \in {"wait", "stop"} => call # "stop"
    /\ mainPc \in {"check", "ask", "stopping", "report"} => call = "stop"
    /\ mainPc \in {"close", "forget"} => call # None
    /\ call = "join" => bounded
    /\ pending # None => mainPc \in {"close", "forget"}
    /\ outcome # None => mainPc = "done"

\* The life of the writer: closed before it is forgotten, by an unbounded capture
\* only at the end of stop(), and open past a join or a stop only if Ctrl+C came
\* between.
WriterOK ==
    /\ mainPc = "begin" => ~ attr /\ ~ closed
    /\ mainPc \in {"opened", "spawned", "wait"} => attr /\ ~ closed
    /\ thread = "unborn" => ~ closed
    /\ thread # "unborn" => attr \/ closed
    /\ closed /\ ~ bounded => mainPc \in {"forget", "report", "done"}
    /\ mainPc \in {"forget", "report"} => closed
    /\ mainPc = "report" \/ outcome = "wrote" => closed /\ ~ attr
    /\ mainPc = "stop" \/ call = "stop" => closed \/ interrupts > 0

\* `running` says that the thread has begun and did not come to a regular end.
RunningOK ==
    /\ thread \in {"unborn", "spawned"} => ~ running
    /\ thread \notin {"unborn", "spawned", "ended"} => running
    /\ stored # None => thread = "ended" /\ running

\* Who may still be running when stop() is done with the sniffer.
JoinedOK ==
    /\ mainPc \in {"stop", "check", "ask", "stopping", "close", "forget", "report"}
          => interrupts > 0 \/ thread = "ended"
    /\ closed => interrupts > 0 \/ thread = "ended"
    /\ asked => mainPc \notin {"stop", "check", "ask"} /\ call = "stop"
    /\ mainPc = "ask" /\ ~ running => bounded /\ interrupts > 0
    /\ (mainPc \in {"close", "forget"} /\ call = "stop" /\ pending = None) \/ mainPc = "report"
          => overlooked \/ (thread = "ended" /\ stored = None)
    /\ outcome = "wrote" => /\ file \in {printed, printed + 1}
                            /\ overlooked \/ (thread = "ended" /\ file = printed)

\* What the sniffer died of.
StoredOK ==
    /\ stored = "write" => closed
    /\ pending = "CaptureError" => \/ stored \in {"socket", "disk"}
                                   \/ bounded /\ interrupts > 0

\* The invariant every step of the command and of the sniffer preserves.
RecorderInv ==
    /\ RecorderTypeOK /\ interrupts \in Nat /\ printed \in Nat
    /\ FramesOK
    /\ CallsOK
    /\ WriterOK
    /\ RunningOK
    /\ JoinedOK
    /\ StoredOK
    /\ WriterIsClosed
    /\ DeathIsExplained

-----------------------------------------------------------------------------
(***************************************************************************)
(* Every step of the recorder preserves the invariant.                     *)
(***************************************************************************)

\* Before start() there is no writer and no thread.
LEMMA InitRecorderInv == RecorderInit => RecorderInv
<1> SUFFICES ASSUME RecorderInit PROVE RecorderInv
  OBVIOUS
<1>1. RecorderTypeOK /\ interrupts \in Nat /\ printed \in Nat
  <2>1. 0 \in Nat /\ 0 \in 0..MaxFrames
    BY RecorderAssumption
  <2>2. {bounded, attr, closed, running, asked, overlooked} \subseteq BOOLEAN
    BY Zenon DEF RecorderInit
  <2> QED
    BY <2>1, <2>2, Zenon DEF RecorderInit, RecorderTypeOK, None
<1>2. FramesOK /\ CallsOK /\ WriterOK
  BY DEF RecorderInit, FramesOK, CallsOK, WriterOK, None
<1>3. RunningOK /\ JoinedOK /\ StoredOK
  BY DEF RecorderInit, RunningOK, JoinedOK, StoredOK, None
<1>4. WriterIsClosed /\ DeathIsExplained
  BY DEF RecorderInit, WriterIsClosed, DeathIsExplained, None
<1> QED
  BY <1>1, <1>2, <1>3, <1>4 DEF RecorderInv

\* The state's components, each with its type.
LEMMA Types ==
    ASSUME RecorderTypeOK
    PROVE  /\ MaxFrames \in Nat /\ count \in Nat /\ file \in Nat /\ frames \in Nat
           /\ count <= MaxFrames /\ frames <= MaxFrames
           /\ bounded \in BOOLEAN /\ attr \in BOOLEAN /\ closed \in BOOLEAN
           /\ running \in BOOLEAN /\ asked \in BOOLEAN /\ overlooked \in BOOLEAN
BY RecorderAssumption DEF RecorderTypeOK

\* A step of the command.
LEMMA MainInv ==
    ASSUME RecorderInv, Main
    PROVE  RecorderInv'
<1> USE DEF None
<1>0. /\ MaxFrames \in Nat /\ count \in Nat /\ file \in Nat /\ frames \in Nat
      /\ count <= MaxFrames /\ frames <= MaxFrames
      /\ bounded \in BOOLEAN /\ attr \in BOOLEAN /\ closed \in BOOLEAN
      /\ running \in BOOLEAN /\ asked \in BOOLEAN /\ overlooked \in BOOLEAN
      /\ interrupts \in Nat /\ printed \in Nat
      /\ RecorderTypeOK
  BY Types DEF RecorderInv
<1>9. FramesOK /\ CallsOK /\ WriterOK /\ RunningOK
  BY DEF RecorderInv
<1>10. JoinedOK /\ StoredOK /\ WriterIsClosed /\ DeathIsExplained
  BY DEF RecorderInv
<1>11. CASE OpenCapture
  <2>1. RecorderTypeOK' /\ interrupts' \in Nat /\ printed' \in Nat
    <3>1. /\ bounded' \in BOOLEAN /\ attr' \in BOOLEAN /\ closed' \in BOOLEAN
          /\ running' \in BOOLEAN /\ asked' \in BOOLEAN /\ overlooked' \in BOOLEAN
      BY <1>0, <1>11, Zenon DEF OpenCapture, Ends, snifferVars
    <3>2. {bounded, attr, closed, running, asked, overlooked}' \subseteq BOOLEAN
      BY <3>1, Zenon
    <3>3. /\ count' \in 0..MaxFrames /\ file' \in {count', count' + 1}
          /\ frames' \in 0..MaxFrames /\ interrupts' \in Nat /\ printed' \in Nat
      BY <1>0, <1>9, <1>11 DEF OpenCapture, Ends, snifferVars,
        RecorderTypeOK, FramesOK, RunningOK
    <3>4. /\ mainPc' \in {"begin", "opened", "spawned", "wait", "stop", "check", "ask",
                         "stopping", "close", "forget", "report", "done"}
          /\ call' \in {None, "join", "stop"}
          /\ pending' \in {None, "CaptureError", "KeyboardInterrupt"}
          /\ outcome' \in {None, "wrote", "CaptureError", "OSError", "KeyboardInterrupt"}
      BY <1>0, <1>11 DEF OpenCapture, Ends, snifferVars, RecorderTypeOK
    <3>5. /\ thread' \in {"unborn", "spawned", "opening", "sniffing", "write", "count",
                         "sinks", "ended"}
          /\ stored' \in {None, "socket", "write", "disk", "sink"}
      BY <1>0, <1>11 DEF OpenCapture, Ends, snifferVars, RecorderTypeOK
    <3> QED
      BY <3>2, <3>3, <3>4, <3>5, Zenon DEF RecorderTypeOK
  <2>2. FramesOK' /\ CallsOK'
    BY <1>0, <1>9, <1>10, <1>11 DEF OpenCapture, Ends, snifferVars, FramesOK, CallsOK,
      RunningOK, RecorderTypeOK
  <2>3. WriterOK' /\ RunningOK'
    BY <1>0, <1>9, <1>10, <1>11 DEF OpenCapture, Ends, snifferVars, WriterOK, RunningOK,
      CallsOK
  <2>4. JoinedOK'
    BY <1>0, <1>9, <1>10, <1>11 DEF OpenCapture, Ends, snifferVars, JoinedOK, FramesOK,
      CallsOK, WriterOK, RunningOK, StoredOK, WriterIsClosed, RecorderTypeOK
  <2>5. StoredOK' /\ WriterIsClosed' /\ DeathIsExplained'
    BY <1>0, <1>9, <1>10, <1>11 DEF OpenCapture, Ends, snifferVars, StoredOK,
      WriterIsClosed, DeathIsExplained, CallsOK, WriterOK, RunningOK, JoinedOK,
      RecorderTypeOK
  <2> QED
    BY <2>1, <2>2, <2>3, <2>4, <2>5 DEF RecorderInv
<1>12. CASE SpawnSniffer
  <2>1. RecorderTypeOK' /\ interrupts' \in Nat /\ printed' \in Nat
    BY <1>0, <1>9, <1>12 DEF SpawnSniffer, snifferVars, RecorderTypeOK, FramesOK
  <2>2. FramesOK' /\ CallsOK'
    BY <1>0, <1>9, <1>10, <1>12 DEF SpawnSniffer, snifferVars, FramesOK, CallsOK,
      RunningOK, RecorderTypeOK
  <2>3. WriterOK' /\ RunningOK'
    BY <1>0, <1>9, <1>10, <1>12 DEF SpawnSniffer, snifferVars, WriterOK, RunningOK,
      CallsOK
  <2>4. JoinedOK'
    BY <1>0, <1>9, <1>10, <1>12 DEF SpawnSniffer, snifferVars, JoinedOK, FramesOK,
      CallsOK, WriterOK, RunningOK, StoredOK, WriterIsClosed, RecorderTypeOK
  <2>5. StoredOK' /\ WriterIsClosed' /\ DeathIsExplained'
    BY <1>0, <1>9, <1>10, <1>12 DEF SpawnSniffer, snifferVars, StoredOK, WriterIsClosed,
      DeathIsExplained, CallsOK, WriterOK, RunningOK, JoinedOK, RecorderTypeOK
  <2> QED
    BY <2>1, <2>2, <2>3, <2>4, <2>5 DEF RecorderInv
<1>13. CASE EnterTry
  <2>1. RecorderTypeOK' /\ interrupts' \in Nat /\ printed' \in Nat
    BY <1>0, <1>9, <1>13 DEF EnterTry, snifferVars, RecorderTypeOK, FramesOK
  <2>2. FramesOK' /\ CallsOK'
    BY <1>0, <1>9, <1>10, <1>13 DEF EnterTry, snifferVars, FramesOK, CallsOK, RunningOK,
      RecorderTypeOK
  <2>3. WriterOK' /\ RunningOK'
    BY <1>0, <1>9, <1>10, <1>13 DEF EnterTry, snifferVars, WriterOK, RunningOK, CallsOK
  <2>4. JoinedOK'
    BY <1>0, <1>9, <1>10, <1>13 DEF EnterTry, snifferVars, JoinedOK, FramesOK, CallsOK,
      WriterOK, RunningOK, StoredOK, WriterIsClosed, RecorderTypeOK
  <2>5. StoredOK' /\ WriterIsClosed' /\ DeathIsExplained'
    BY <1>0, <1>9, <1>10, <1>13 DEF EnterTry, snifferVars, StoredOK, WriterIsClosed,
      DeathIsExplained, CallsOK, WriterOK, RunningOK, JoinedOK, RecorderTypeOK
  <2> QED
    BY <2>1, <2>2, <2>3, <2>4, <2>5 DEF RecorderInv
<1>14. CASE EnterJoin
  <2>1. RecorderTypeOK' /\ interrupts' \in Nat /\ printed' \in Nat
    BY <1>0, <1>9, <1>14 DEF EnterJoin, snifferVars, RecorderTypeOK, FramesOK
  <2>2. FramesOK' /\ CallsOK'
    BY <1>0, <1>9, <1>10, <1>14 DEF EnterJoin, snifferVars, FramesOK, CallsOK,
      RunningOK, RecorderTypeOK
  <2>3. WriterOK' /\ RunningOK'
    BY <1>0, <1>9, <1>10, <1>14 DEF EnterJoin, snifferVars, WriterOK, RunningOK, CallsOK
  <2>4. JoinedOK'
    BY <1>0, <1>9, <1>10, <1>14 DEF EnterJoin, snifferVars, JoinedOK, FramesOK, CallsOK,
      WriterOK, RunningOK, StoredOK, WriterIsClosed, RecorderTypeOK
  <2>5. StoredOK' /\ WriterIsClosed' /\ DeathIsExplained'
    BY <1>0, <1>9, <1>10, <1>14 DEF EnterJoin, snifferVars, StoredOK, WriterIsClosed,
      DeathIsExplained, CallsOK, WriterOK, RunningOK, JoinedOK, RecorderTypeOK
  <2> QED
    BY <2>1, <2>2, <2>3, <2>4, <2>5 DEF RecorderInv
<1>15. CASE JoinReturns
  <2>1. RecorderTypeOK' /\ interrupts' \in Nat /\ printed' \in Nat
    BY <1>0, <1>9, <1>15 DEF JoinReturns, Leave, snifferVars, RecorderTypeOK, FramesOK
  <2>2. FramesOK' /\ CallsOK'
    BY <1>0, <1>9, <1>10, <1>15 DEF JoinReturns, Leave, snifferVars, FramesOK, CallsOK,
      RunningOK, RecorderTypeOK
  <2>3. WriterOK' /\ RunningOK'
    BY <1>0, <1>9, <1>10, <1>15 DEF JoinReturns, Leave, snifferVars, WriterOK,
      RunningOK, CallsOK
  <2>4. JoinedOK'
    BY <1>0, <1>9, <1>10, <1>15 DEF JoinReturns, Leave, snifferVars, JoinedOK, FramesOK,
      CallsOK, WriterOK, RunningOK, StoredOK, WriterIsClosed, RecorderTypeOK
  <2>5. StoredOK' /\ WriterIsClosed' /\ DeathIsExplained'
    BY <1>0, <1>9, <1>10, <1>15 DEF JoinReturns, Leave, snifferVars, StoredOK,
      WriterIsClosed, DeathIsExplained, CallsOK, WriterOK, RunningOK, JoinedOK,
      RecorderTypeOK
  <2> QED
    BY <2>1, <2>2, <2>3, <2>4, <2>5 DEF RecorderInv
<1>16. CASE EnterStop
  <2>1. RecorderTypeOK' /\ interrupts' \in Nat /\ printed' \in Nat
    BY <1>0, <1>9, <1>16 DEF EnterStop, snifferVars, RecorderTypeOK, FramesOK
  <2>2. FramesOK' /\ CallsOK'
    BY <1>0, <1>9, <1>10, <1>16 DEF EnterStop, snifferVars, FramesOK, CallsOK,
      RunningOK, RecorderTypeOK
  <2>3. WriterOK' /\ RunningOK'
    BY <1>0, <1>9, <1>10, <1>16 DEF EnterStop, snifferVars, WriterOK, RunningOK, CallsOK
  <2>4. JoinedOK'
    BY <1>0, <1>9, <1>10, <1>16 DEF EnterStop, snifferVars, JoinedOK, FramesOK, CallsOK,
      WriterOK, RunningOK, StoredOK, WriterIsClosed, RecorderTypeOK
  <2>5. StoredOK' /\ WriterIsClosed' /\ DeathIsExplained'
    BY <1>0, <1>9, <1>10, <1>16 DEF EnterStop, snifferVars, StoredOK, WriterIsClosed,
      DeathIsExplained, CallsOK, WriterOK, RunningOK, JoinedOK, RecorderTypeOK
  <2> QED
    BY <2>1, <2>2, <2>3, <2>4, <2>5 DEF RecorderInv
<1>17. CASE StopLooks
  <2>1. RecorderTypeOK' /\ interrupts' \in Nat /\ printed' \in Nat
    <3>1. /\ bounded' \in BOOLEAN /\ attr' \in BOOLEAN /\ closed' \in BOOLEAN
          /\ running' \in BOOLEAN /\ asked' \in BOOLEAN /\ overlooked' \in BOOLEAN
      BY <1>0, <1>17, Zenon DEF StopLooks, Leave, snifferVars
    <3>2. {bounded, attr, closed, running, asked, overlooked}' \subseteq BOOLEAN
      BY <3>1, Zenon
    <3>3. /\ count' \in 0..MaxFrames /\ file' \in {count', count' + 1}
          /\ frames' \in 0..MaxFrames /\ interrupts' \in Nat /\ printed' \in Nat
      BY <1>0, <1>9, <1>17 DEF StopLooks, Leave, snifferVars,
        RecorderTypeOK, FramesOK, RunningOK
    <3>4. /\ mainPc' \in {"begin", "opened", "spawned", "wait", "stop", "check", "ask",
                         "stopping", "close", "forget", "report", "done"}
          /\ call' \in {None, "join", "stop"}
          /\ pending' \in {None, "CaptureError", "KeyboardInterrupt"}
          /\ outcome' \in {None, "wrote", "CaptureError", "OSError", "KeyboardInterrupt"}
      BY <1>0, <1>17 DEF StopLooks, Leave, snifferVars, RecorderTypeOK
    <3>5. /\ thread' \in {"unborn", "spawned", "opening", "sniffing", "write", "count",
                         "sinks", "ended"}
          /\ stored' \in {None, "socket", "write", "disk", "sink"}
      BY <1>0, <1>17 DEF StopLooks, Leave, snifferVars, RecorderTypeOK
    <3> QED
      BY <3>2, <3>3, <3>4, <3>5, Zenon DEF RecorderTypeOK
  <2>2. FramesOK' /\ CallsOK'
    BY <1>0, <1>9, <1>10, <1>17 DEF StopLooks, Leave, snifferVars, FramesOK, CallsOK,
      RunningOK, RecorderTypeOK
  <2>3. WriterOK' /\ RunningOK'
    BY <1>0, <1>9, <1>10, <1>17 DEF StopLooks, Leave, snifferVars, WriterOK, RunningOK,
      CallsOK
  <2>4. JoinedOK'
    BY <1>0, <1>9, <1>10, <1>17 DEF StopLooks, Leave, snifferVars, JoinedOK, FramesOK,
      CallsOK, WriterOK, RunningOK, StoredOK, WriterIsClosed, RecorderTypeOK
  <2>5. StoredOK' /\ WriterIsClosed' /\ DeathIsExplained'
    BY <1>0, <1>9, <1>10, <1>17 DEF StopLooks, Leave, snifferVars, StoredOK,
      WriterIsClosed, DeathIsExplained, CallsOK, WriterOK, RunningOK, JoinedOK,
      RecorderTypeOK
  <2> QED
    BY <2>1, <2>2, <2>3, <2>4, <2>5 DEF RecorderInv
<1>18. CASE AskSniffer
  <2>1. RecorderTypeOK' /\ interrupts' \in Nat /\ printed' \in Nat
    <3>1. /\ bounded' \in BOOLEAN /\ attr' \in BOOLEAN /\ closed' \in BOOLEAN
          /\ running' \in BOOLEAN /\ asked' \in BOOLEAN /\ overlooked' \in BOOLEAN
      BY <1>0, <1>18, Zenon DEF AskSniffer, Leave, StopAsks, snifferVars
    <3>2. {bounded, attr, closed, running, asked, overlooked}' \subseteq BOOLEAN
      BY <3>1, Zenon
    <3>3. /\ count' \in 0..MaxFrames /\ file' \in {count', count' + 1}
          /\ frames' \in 0..MaxFrames /\ interrupts' \in Nat /\ printed' \in Nat
      BY <1>0, <1>9, <1>18 DEF AskSniffer, Leave, StopAsks, snifferVars,
        RecorderTypeOK, FramesOK, RunningOK
    <3>4. /\ mainPc' \in {"begin", "opened", "spawned", "wait", "stop", "check", "ask",
                         "stopping", "close", "forget", "report", "done"}
          /\ call' \in {None, "join", "stop"}
          /\ pending' \in {None, "CaptureError", "KeyboardInterrupt"}
          /\ outcome' \in {None, "wrote", "CaptureError", "OSError", "KeyboardInterrupt"}
      BY <1>0, <1>18 DEF AskSniffer, Leave, StopAsks, snifferVars, RecorderTypeOK
    <3>5. /\ thread' \in {"unborn", "spawned", "opening", "sniffing", "write", "count",
                         "sinks", "ended"}
          /\ stored' \in {None, "socket", "write", "disk", "sink"}
      BY <1>0, <1>18 DEF AskSniffer, Leave, StopAsks, snifferVars, RecorderTypeOK
    <3> QED
      BY <3>2, <3>3, <3>4, <3>5, Zenon DEF RecorderTypeOK
  <2>2. FramesOK' /\ CallsOK'
    BY <1>0, <1>9, <1>10, <1>18 DEF AskSniffer, Leave, StopAsks, snifferVars, FramesOK,
      CallsOK, RunningOK, RecorderTypeOK
  <2>3. WriterOK' /\ RunningOK'
    BY <1>0, <1>9, <1>10, <1>18 DEF AskSniffer, Leave, StopAsks, snifferVars, WriterOK,
      RunningOK, CallsOK
  <2>4. JoinedOK'
    BY <1>0, <1>9, <1>10, <1>18 DEF AskSniffer, Leave, StopAsks, snifferVars, JoinedOK,
      FramesOK, CallsOK, WriterOK, RunningOK, StoredOK, WriterIsClosed, RecorderTypeOK
  <2>5. StoredOK' /\ WriterIsClosed' /\ DeathIsExplained'
    BY <1>0, <1>9, <1>10, <1>18 DEF AskSniffer, Leave, StopAsks, snifferVars, StoredOK,
      WriterIsClosed, DeathIsExplained, CallsOK, WriterOK, RunningOK, JoinedOK,
      RecorderTypeOK
  <2> QED
    BY <2>1, <2>2, <2>3, <2>4, <2>5 DEF RecorderInv
<1>19. CASE StopJoined
  <2>1. RecorderTypeOK' /\ interrupts' \in Nat /\ printed' \in Nat
    BY <1>0, <1>9, <1>19 DEF StopJoined, Leave, StopJoins, snifferVars, RecorderTypeOK,
      FramesOK
  <2>2. FramesOK' /\ CallsOK'
    BY <1>0, <1>9, <1>10, <1>19 DEF StopJoined, Leave, StopJoins, snifferVars, FramesOK,
      CallsOK, RunningOK, RecorderTypeOK
  <2>3. WriterOK' /\ RunningOK'
    BY <1>0, <1>9, <1>10, <1>19 DEF StopJoined, Leave, StopJoins, snifferVars, WriterOK,
      RunningOK, CallsOK
  <2>4. JoinedOK'
    BY <1>0, <1>9, <1>10, <1>19 DEF StopJoined, Leave, StopJoins, snifferVars, JoinedOK,
      FramesOK, CallsOK, WriterOK, RunningOK, StoredOK, WriterIsClosed, RecorderTypeOK
  <2>5. StoredOK' /\ WriterIsClosed' /\ DeathIsExplained'
    BY <1>0, <1>9, <1>10, <1>19 DEF StopJoined, Leave, StopJoins, snifferVars, StoredOK,
      WriterIsClosed, DeathIsExplained, CallsOK, WriterOK, RunningOK, JoinedOK,
      RecorderTypeOK
  <2> QED
    BY <2>1, <2>2, <2>3, <2>4, <2>5 DEF RecorderInv
<1>20. CASE CloseFile
  <2>1. RecorderTypeOK' /\ interrupts' \in Nat /\ printed' \in Nat
    <3>1. /\ bounded' \in BOOLEAN /\ attr' \in BOOLEAN /\ closed' \in BOOLEAN
          /\ running' \in BOOLEAN /\ asked' \in BOOLEAN /\ overlooked' \in BOOLEAN
      BY <1>0, <1>20, Zenon DEF CloseFile, Ends, snifferVars
    <3>2. {bounded, attr, closed, running, asked, overlooked}' \subseteq BOOLEAN
      BY <3>1, Zenon
    <3>3. /\ count' \in 0..MaxFrames /\ file' \in {count', count' + 1}
          /\ frames' \in 0..MaxFrames /\ interrupts' \in Nat /\ printed' \in Nat
      BY <1>0, <1>9, <1>20 DEF CloseFile, Ends, snifferVars,
        RecorderTypeOK, FramesOK, RunningOK
    <3>4. /\ mainPc' \in {"begin", "opened", "spawned", "wait", "stop", "check", "ask",
                         "stopping", "close", "forget", "report", "done"}
          /\ call' \in {None, "join", "stop"}
          /\ pending' \in {None, "CaptureError", "KeyboardInterrupt"}
          /\ outcome' \in {None, "wrote", "CaptureError", "OSError", "KeyboardInterrupt"}
      BY <1>0, <1>20 DEF CloseFile, Ends, snifferVars, RecorderTypeOK
    <3>5. /\ thread' \in {"unborn", "spawned", "opening", "sniffing", "write", "count",
                         "sinks", "ended"}
          /\ stored' \in {None, "socket", "write", "disk", "sink"}
      BY <1>0, <1>20 DEF CloseFile, Ends, snifferVars, RecorderTypeOK
    <3> QED
      BY <3>2, <3>3, <3>4, <3>5, Zenon DEF RecorderTypeOK
  <2>2. FramesOK' /\ CallsOK'
    BY <1>0, <1>9, <1>10, <1>20 DEF CloseFile, Ends, snifferVars,
      FramesOK, CallsOK, RunningOK, RecorderTypeOK
  <2>3. WriterOK' /\ RunningOK'
    BY <1>0, <1>9, <1>10, <1>20 DEF CloseFile, Ends, snifferVars,
      WriterOK, RunningOK, CallsOK
  <2>4. JoinedOK'
    BY <1>0, <1>9, <1>10, <1>20 DEF CloseFile, Ends, snifferVars,
      JoinedOK, FramesOK, CallsOK, WriterOK, RunningOK, StoredOK, WriterIsClosed,
      RecorderTypeOK
  <2>5. StoredOK' /\ WriterIsClosed' /\ DeathIsExplained'
    BY <1>0, <1>9, <1>10, <1>20 DEF CloseFile, Ends, snifferVars,
      StoredOK, WriterIsClosed, DeathIsExplained, CallsOK, WriterOK, RunningOK,
      JoinedOK, RecorderTypeOK
  <2> QED
    BY <2>1, <2>2, <2>3, <2>4, <2>5 DEF RecorderInv
<1>21. CASE ForgetWriter
  <2>1. RecorderTypeOK' /\ interrupts' \in Nat /\ printed' \in Nat
    BY <1>0, <1>9, <1>21 DEF ForgetWriter, Ends, snifferVars, RecorderTypeOK, FramesOK
  <2>2. FramesOK' /\ CallsOK'
    BY <1>0, <1>9, <1>10, <1>21 DEF ForgetWriter, Ends, snifferVars, FramesOK, CallsOK,
      RunningOK, RecorderTypeOK
  <2>3. WriterOK' /\ RunningOK'
    BY <1>0, <1>9, <1>10, <1>21 DEF ForgetWriter, Ends, snifferVars, WriterOK,
      RunningOK, CallsOK
  <2>4. JoinedOK'
    BY <1>0, <1>9, <1>10, <1>21 DEF ForgetWriter, Ends, snifferVars, JoinedOK, FramesOK,
      CallsOK, WriterOK, RunningOK, StoredOK, WriterIsClosed, RecorderTypeOK
  <2>5. StoredOK' /\ WriterIsClosed' /\ DeathIsExplained'
    BY <1>0, <1>9, <1>10, <1>21 DEF ForgetWriter, Ends, snifferVars, StoredOK,
      WriterIsClosed, DeathIsExplained, CallsOK, WriterOK, RunningOK, JoinedOK,
      RecorderTypeOK
  <2> QED
    BY <2>1, <2>2, <2>3, <2>4, <2>5 DEF RecorderInv
<1>22. CASE Report
  <2>1. RecorderTypeOK' /\ interrupts' \in Nat /\ printed' \in Nat
    BY <1>0, <1>9, <1>22 DEF Report, Ends, snifferVars, RecorderTypeOK, FramesOK
  <2>2. FramesOK' /\ CallsOK'
    BY <1>0, <1>9, <1>10, <1>22 DEF Report, Ends, snifferVars, FramesOK, CallsOK,
      RunningOK, RecorderTypeOK
  <2>3. WriterOK' /\ RunningOK'
    BY <1>0, <1>9, <1>10, <1>22 DEF Report, Ends, snifferVars, WriterOK, RunningOK,
      CallsOK
  <2>4. JoinedOK'
    BY <1>0, <1>9, <1>10, <1>22 DEF Report, Ends, snifferVars, JoinedOK, FramesOK,
      CallsOK, WriterOK, RunningOK, StoredOK, WriterIsClosed, RecorderTypeOK
  <2>5. StoredOK' /\ WriterIsClosed' /\ DeathIsExplained'
    BY <1>0, <1>9, <1>10, <1>22 DEF Report, Ends, snifferVars, StoredOK, WriterIsClosed,
      DeathIsExplained, CallsOK, WriterOK, RunningOK, JoinedOK, RecorderTypeOK
  <2> QED
    BY <2>1, <2>2, <2>3, <2>4, <2>5 DEF RecorderInv
<1> QED
  BY <1>11, <1>12, <1>13, <1>14, <1>15, <1>16, <1>17, <1>18, <1>19, <1>20, <1>21, <1>22 DEF Main

\* Ctrl+C, wherever the command is.
LEMMA InterruptInv ==
    ASSUME RecorderInv, Interrupt
    PROVE  RecorderInv'
<1> USE DEF None
<1>0. /\ MaxFrames \in Nat /\ count \in Nat /\ file \in Nat /\ frames \in Nat
      /\ count <= MaxFrames /\ frames <= MaxFrames
      /\ bounded \in BOOLEAN /\ attr \in BOOLEAN /\ closed \in BOOLEAN
      /\ running \in BOOLEAN /\ asked \in BOOLEAN /\ overlooked \in BOOLEAN
      /\ interrupts \in Nat /\ printed \in Nat
      /\ RecorderTypeOK
  BY Types DEF RecorderInv
<1>9. FramesOK /\ CallsOK /\ WriterOK /\ RunningOK
  BY DEF RecorderInv
<1>10. JoinedOK /\ StoredOK /\ WriterIsClosed /\ DeathIsExplained
  BY DEF RecorderInv
<1>11. CASE Interrupt
  <2>1. RecorderTypeOK' /\ interrupts' \in Nat /\ printed' \in Nat
    BY <1>0, <1>9, <1>11 DEF Interrupt, Ends, Leave, snifferVars, RecorderTypeOK,
      FramesOK
  <2>2. FramesOK' /\ CallsOK'
    BY <1>0, <1>9, <1>10, <1>11 DEF Interrupt, Ends, Leave, snifferVars, FramesOK,
      CallsOK, RunningOK, RecorderTypeOK
  <2>3. WriterOK' /\ RunningOK'
    BY <1>0, <1>9, <1>10, <1>11 DEF Interrupt, Ends, Leave, snifferVars, WriterOK,
      RunningOK, CallsOK
  <2>4. JoinedOK'
    BY <1>0, <1>9, <1>10, <1>11 DEF Interrupt, Ends, Leave, snifferVars, JoinedOK,
      FramesOK, CallsOK, WriterOK, RunningOK, StoredOK, WriterIsClosed, RecorderTypeOK
  <2>5. StoredOK' /\ WriterIsClosed' /\ DeathIsExplained'
    BY <1>0, <1>9, <1>10, <1>11 DEF Interrupt, Ends, Leave, snifferVars, StoredOK,
      WriterIsClosed, DeathIsExplained, CallsOK, WriterOK, RunningOK, JoinedOK,
      RecorderTypeOK
  <2> QED
    BY <2>1, <2>2, <2>3, <2>4, <2>5 DEF RecorderInv
<1> QED
  BY <1>11

\* A step of the sniffer thread.
LEMMA SnifferInv ==
    ASSUME RecorderInv, Sniffer
    PROVE  RecorderInv'
<1> USE DEF None
<1>0. /\ MaxFrames \in Nat /\ count \in Nat /\ file \in Nat /\ frames \in Nat
      /\ count <= MaxFrames /\ frames <= MaxFrames
      /\ bounded \in BOOLEAN /\ attr \in BOOLEAN /\ closed \in BOOLEAN
      /\ running \in BOOLEAN /\ asked \in BOOLEAN /\ overlooked \in BOOLEAN
      /\ interrupts \in Nat /\ printed \in Nat
      /\ RecorderTypeOK
  BY Types DEF RecorderInv
<1>9. FramesOK /\ CallsOK /\ WriterOK /\ RunningOK
  BY DEF RecorderInv
<1>10. JoinedOK /\ StoredOK /\ WriterIsClosed /\ DeathIsExplained
  BY DEF RecorderInv
<1>11. CASE SnifferRuns
  <2>1. RecorderTypeOK' /\ interrupts' \in Nat /\ printed' \in Nat
    BY <1>0, <1>9, <1>11 DEF SnifferRuns, mainVars, RecorderTypeOK, FramesOK
  <2>2. FramesOK' /\ CallsOK'
    BY <1>0, <1>9, <1>10, <1>11 DEF SnifferRuns, mainVars, FramesOK, CallsOK, RunningOK,
      RecorderTypeOK
  <2>3. WriterOK' /\ RunningOK'
    BY <1>0, <1>9, <1>10, <1>11 DEF SnifferRuns, mainVars, WriterOK, RunningOK, CallsOK
  <2>4. JoinedOK'
    BY <1>0, <1>9, <1>10, <1>11 DEF SnifferRuns, mainVars, JoinedOK, FramesOK, CallsOK,
      WriterOK, RunningOK, StoredOK, WriterIsClosed, RecorderTypeOK
  <2>5. StoredOK' /\ WriterIsClosed' /\ DeathIsExplained'
    BY <1>0, <1>9, <1>10, <1>11 DEF SnifferRuns, mainVars, StoredOK, WriterIsClosed,
      DeathIsExplained, CallsOK, WriterOK, RunningOK, JoinedOK, RecorderTypeOK
  <2> QED
    BY <2>1, <2>2, <2>3, <2>4, <2>5 DEF RecorderInv
<1>12. CASE SnifferOpens
  <2>1. RecorderTypeOK' /\ interrupts' \in Nat /\ printed' \in Nat
    BY <1>0, <1>9, <1>12 DEF SnifferOpens, Dies, mainVars, RecorderTypeOK, FramesOK
  <2>2. FramesOK' /\ CallsOK'
    BY <1>0, <1>9, <1>10, <1>12 DEF SnifferOpens, Dies, mainVars, FramesOK, CallsOK,
      RunningOK, RecorderTypeOK
  <2>3. WriterOK' /\ RunningOK'
    BY <1>0, <1>9, <1>10, <1>12 DEF SnifferOpens, Dies, mainVars, WriterOK, RunningOK,
      CallsOK
  <2>4. JoinedOK'
    BY <1>0, <1>9, <1>10, <1>12 DEF SnifferOpens, Dies, mainVars, JoinedOK, FramesOK,
      CallsOK, WriterOK, RunningOK, StoredOK, WriterIsClosed, RecorderTypeOK
  <2>5. StoredOK' /\ WriterIsClosed' /\ DeathIsExplained'
    BY <1>0, <1>9, <1>10, <1>12 DEF SnifferOpens, Dies, mainVars, StoredOK,
      WriterIsClosed, DeathIsExplained, CallsOK, WriterOK, RunningOK, JoinedOK,
      RecorderTypeOK
  <2> QED
    BY <2>1, <2>2, <2>3, <2>4, <2>5 DEF RecorderInv
<1>13. CASE HandleReads
  <2>1. RecorderTypeOK' /\ interrupts' \in Nat /\ printed' \in Nat
    BY <1>0, <1>9, <1>13 DEF HandleReads, mainVars, RecorderTypeOK, FramesOK
  <2>2. FramesOK' /\ CallsOK'
    BY <1>0, <1>9, <1>10, <1>13 DEF HandleReads, mainVars, FramesOK, CallsOK, RunningOK,
      RecorderTypeOK
  <2>3. WriterOK' /\ RunningOK'
    BY <1>0, <1>9, <1>10, <1>13 DEF HandleReads, mainVars, WriterOK, RunningOK, CallsOK
  <2>4. JoinedOK'
    BY <1>0, <1>9, <1>10, <1>13 DEF HandleReads, mainVars, JoinedOK, FramesOK, CallsOK,
      WriterOK, RunningOK, StoredOK, WriterIsClosed, RecorderTypeOK
  <2>5. StoredOK' /\ WriterIsClosed' /\ DeathIsExplained'
    BY <1>0, <1>9, <1>10, <1>13 DEF HandleReads, mainVars, StoredOK, WriterIsClosed,
      DeathIsExplained, CallsOK, WriterOK, RunningOK, JoinedOK, RecorderTypeOK
  <2> QED
    BY <2>1, <2>2, <2>3, <2>4, <2>5 DEF RecorderInv
<1>14. CASE HandleWrites
  <2>1. RecorderTypeOK' /\ interrupts' \in Nat /\ printed' \in Nat
    BY <1>0, <1>9, <1>14 DEF HandleWrites, Dies, mainVars, RecorderTypeOK, FramesOK
  <2>2. FramesOK' /\ CallsOK'
    BY <1>0, <1>9, <1>10, <1>14 DEF HandleWrites, Dies, mainVars, FramesOK, CallsOK,
      RunningOK, RecorderTypeOK
  <2>3. WriterOK' /\ RunningOK'
    BY <1>0, <1>9, <1>10, <1>14 DEF HandleWrites, Dies, mainVars, WriterOK, RunningOK,
      CallsOK
  <2>4. JoinedOK'
    BY <1>0, <1>9, <1>10, <1>14 DEF HandleWrites, Dies, mainVars, JoinedOK, FramesOK,
      CallsOK, WriterOK, RunningOK, StoredOK, WriterIsClosed, RecorderTypeOK
  <2>5. StoredOK' /\ WriterIsClosed' /\ DeathIsExplained'
    BY <1>0, <1>9, <1>10, <1>14 DEF HandleWrites, Dies, mainVars, StoredOK,
      WriterIsClosed, DeathIsExplained, CallsOK, WriterOK, RunningOK, JoinedOK,
      RecorderTypeOK
  <2> QED
    BY <2>1, <2>2, <2>3, <2>4, <2>5 DEF RecorderInv
<1>15. CASE HandleCounts
  <2>1. RecorderTypeOK' /\ interrupts' \in Nat /\ printed' \in Nat
    BY <1>0, <1>9, <1>15 DEF HandleCounts, FrameCounts, mainVars, RecorderTypeOK,
      FramesOK
  <2>2. FramesOK' /\ CallsOK'
    BY <1>0, <1>9, <1>10, <1>15 DEF HandleCounts, FrameCounts, mainVars, FramesOK,
      CallsOK, RunningOK, RecorderTypeOK
  <2>3. WriterOK' /\ RunningOK'
    BY <1>0, <1>9, <1>10, <1>15 DEF HandleCounts, FrameCounts, mainVars, WriterOK,
      RunningOK, CallsOK
  <2>4. JoinedOK'
    BY <1>0, <1>9, <1>10, <1>15 DEF HandleCounts, FrameCounts, mainVars, JoinedOK,
      FramesOK, CallsOK, WriterOK, RunningOK, StoredOK, WriterIsClosed, RecorderTypeOK
  <2>5. StoredOK' /\ WriterIsClosed' /\ DeathIsExplained'
    BY <1>0, <1>9, <1>10, <1>15 DEF HandleCounts, FrameCounts, mainVars, StoredOK,
      WriterIsClosed, DeathIsExplained, CallsOK, WriterOK, RunningOK, JoinedOK,
      RecorderTypeOK
  <2> QED
    BY <2>1, <2>2, <2>3, <2>4, <2>5 DEF RecorderInv
<1>16. CASE HandleSinks
  <2>1. RecorderTypeOK' /\ interrupts' \in Nat /\ printed' \in Nat
    BY <1>0, <1>9, <1>16 DEF HandleSinks, SinkRaises, mainVars, RecorderTypeOK, FramesOK
  <2>2. FramesOK' /\ CallsOK'
    BY <1>0, <1>9, <1>10, <1>16 DEF HandleSinks, SinkRaises, mainVars, FramesOK,
      CallsOK, RunningOK, RecorderTypeOK
  <2>3. WriterOK' /\ RunningOK'
    BY <1>0, <1>9, <1>10, <1>16 DEF HandleSinks, SinkRaises, mainVars, WriterOK,
      RunningOK, CallsOK
  <2>4. JoinedOK'
    BY <1>0, <1>9, <1>10, <1>16 DEF HandleSinks, SinkRaises, mainVars, JoinedOK,
      FramesOK, CallsOK, WriterOK, RunningOK, StoredOK, WriterIsClosed, RecorderTypeOK
  <2>5. StoredOK' /\ WriterIsClosed' /\ DeathIsExplained'
    BY <1>0, <1>9, <1>10, <1>16 DEF HandleSinks, SinkRaises, mainVars, StoredOK,
      WriterIsClosed, DeathIsExplained, CallsOK, WriterOK, RunningOK, JoinedOK,
      RecorderTypeOK
  <2> QED
    BY <2>1, <2>2, <2>3, <2>4, <2>5 DEF RecorderInv
<1>17. CASE SnifferEnds
  <2>1. RecorderTypeOK' /\ interrupts' \in Nat /\ printed' \in Nat
    <3>1. /\ bounded' \in BOOLEAN /\ attr' \in BOOLEAN /\ closed' \in BOOLEAN
          /\ running' \in BOOLEAN /\ asked' \in BOOLEAN /\ overlooked' \in BOOLEAN
      BY <1>0, <1>17, Zenon DEF SnifferEnds, mainVars
    <3>2. {bounded, attr, closed, running, asked, overlooked}' \subseteq BOOLEAN
      BY <3>1, Zenon
    <3>3. /\ count' \in 0..MaxFrames /\ file' \in {count', count' + 1}
          /\ frames' \in 0..MaxFrames /\ interrupts' \in Nat /\ printed' \in Nat
      BY <1>0, <1>9, <1>17 DEF SnifferEnds, mainVars,
        RecorderTypeOK, FramesOK, RunningOK
    <3>4. /\ mainPc' \in {"begin", "opened", "spawned", "wait", "stop", "check", "ask",
                         "stopping", "close", "forget", "report", "done"}
          /\ call' \in {None, "join", "stop"}
          /\ pending' \in {None, "CaptureError", "KeyboardInterrupt"}
          /\ outcome' \in {None, "wrote", "CaptureError", "OSError", "KeyboardInterrupt"}
      BY <1>0, <1>17 DEF SnifferEnds, mainVars, RecorderTypeOK
    <3>5. /\ thread' \in {"unborn", "spawned", "opening", "sniffing", "write", "count",
                         "sinks", "ended"}
          /\ stored' \in {None, "socket", "write", "disk", "sink"}
      BY <1>0, <1>17 DEF SnifferEnds, mainVars, RecorderTypeOK
    <3> QED
      BY <3>2, <3>3, <3>4, <3>5, Zenon DEF RecorderTypeOK
  <2>2. FramesOK' /\ CallsOK'
    BY <1>0, <1>9, <1>10, <1>17 DEF SnifferEnds, mainVars, FramesOK, CallsOK, RunningOK,
      RecorderTypeOK
  <2>3. WriterOK' /\ RunningOK'
    BY <1>0, <1>9, <1>10, <1>17 DEF SnifferEnds, mainVars, WriterOK, RunningOK, CallsOK
  <2>4. JoinedOK'
    BY <1>0, <1>9, <1>10, <1>17 DEF SnifferEnds, mainVars, JoinedOK, FramesOK, CallsOK,
      WriterOK, RunningOK, StoredOK, WriterIsClosed, RecorderTypeOK
  <2>5. StoredOK' /\ WriterIsClosed' /\ DeathIsExplained'
    BY <1>0, <1>9, <1>10, <1>17 DEF SnifferEnds, mainVars, StoredOK, WriterIsClosed,
      DeathIsExplained, CallsOK, WriterOK, RunningOK, JoinedOK, RecorderTypeOK
  <2> QED
    BY <2>1, <2>2, <2>3, <2>4, <2>5 DEF RecorderInv
<1> QED
  BY <1>11, <1>12, <1>13, <1>14, <1>15, <1>16, <1>17 DEF Sniffer

\* Every step of the specification preserves the invariant.
LEMMA NextRecorderInv == RecorderInv /\ [RecorderNext]_recorderVars => RecorderInv'
<1> SUFFICES ASSUME RecorderInv, [RecorderNext]_recorderVars PROVE RecorderInv'
  OBVIOUS
<1>1. CASE UNCHANGED recorderVars
  BY <1>1 DEF recorderVars, mainVars, snifferVars, RecorderInv, RecorderTypeOK, FramesOK,
       CallsOK, WriterOK, RunningOK, JoinedOK, StoredOK, WriterIsClosed, DeathIsExplained
<1> QED
  BY <1>1, MainInv, InterruptInv, SnifferInv DEF RecorderNext, RecorderOver

-----------------------------------------------------------------------------
(***************************************************************************)
(* The recorder's theorems.                                                *)
(***************************************************************************)

\* The inductive invariant holds of every behaviour of the command.
THEOREM RecorderInvariantHolds == RecorderSpec => []RecorderInv
BY InitRecorderInv, NextRecorderInv, PTL DEF RecorderSpec

\* "Wrote N packet(s)" is what is in the file, which is closed and stays so; and
\* only a Ctrl+C before the command's try, or a second one, leaves the file open.
THEOREM ReportExact == RecorderSpec => []ReportIsExact
<1>1. RecorderInv => ReportIsExact
  BY Types DEF RecorderInv, JoinedOK, WriterOK, ReportIsExact
<1> QED
  BY <1>1, RecorderInvariantHolds, PTL

\* The sniffer never dies of a sink; a failed capture is reported only for a
\* socket or a write that failed or an interrupted join, and a count only if the
\* sniffer did not die or was overlooked.
THEOREM DeathExplained == RecorderSpec => []DeathIsExplained
<1>1. RecorderInv => DeathIsExplained
  BY DEF RecorderInv
<1> QED
  BY <1>1, RecorderInvariantHolds, PTL

-----------------------------------------------------------------------------
(***************************************************************************)
(* A session of the suite: what is open, from set-up to tear-down, for any *)
(* number of runs and frames.                                              *)
(***************************************************************************)
\* The fixture's record.
FixtureOK ==
    fix \in [phase  : {"configured", "written", "guarded", "up", "ifaceClosed",
                       "writerClosed", "closed", "over"},
             guard  : {"none", "open", "closed"}, writer : {"none", "open", "closed"},
             logger : {"none", "open", "closed"}, pcap   : {"none", "open"},
             broken : BOOLEAN, late : BOOLEAN]

\* What each step of the tear-down has closed stays closed, unless one of them raised;
\* only the capture file is opened again, by a frame that comes late.
ClosedOK ==
    /\ fix.phase = "over" => fix.logger # "open"
    /\ fix.phase \in {"writerClosed", "closed", "over"} /\ fix.broken = FALSE
          => fix.writer # "open"
    /\ fix.phase \in {"closed", "over"} /\ fix.broken = FALSE => fix.guard # "open"
    /\ TearingDown /\ fix.broken = FALSE /\ fix.pcap = "open" => fix.late = TRUE

\* The invariant every step of a session preserves.
SessionInv == FixtureOK /\ ClosedOK

\* A new subprocess has nothing open but its debug log.
LEMMA NewFixtureOK ==
    ASSUME NEW e, fix' = NewFixture(e)
    PROVE  SessionInv'
BY DEF NewFixture, SessionInv, FixtureOK, ClosedOK, TearingDown

\* So has the first.
LEMMA InitSessionInv == SessionInit => SessionInv
BY DEF SessionInit, NewFixture, SessionInv, FixtureOK, ClosedOK, TearingDown

\* A step of the set-up.
LEMMA SetupInv ==
    ASSUME SessionInv,
           \/ SetupRaises \/ OpenWriter \/ StartGuard
           \/ OpenInterface
    PROVE  SessionInv'
<1> USE DEF SessionInv, FixtureOK, ClosedOK, TearingDown, Session
<1>1. CASE SetupRaises
  BY <1>1 DEF SetupRaises
<1>2. CASE OpenWriter
  BY <1>2 DEF OpenWriter
<1>3. CASE StartGuard
  BY <1>3 DEF StartGuard
<1>4. CASE OpenInterface
  BY <1>4 DEF OpenInterface
<1> QED
  BY <1>1, <1>2, <1>3, <1>4

\* A step of the tear-down.
LEMMA TeardownInv ==
    ASSUME SessionInv,
           \/ CloseInterface \/ CloseWriter \/ StopGuard
           \/ Unconfigure
    PROVE  SessionInv'
<1> USE DEF SessionInv, FixtureOK, ClosedOK, TearingDown, Session
<1>1. CASE CloseInterface
  BY <1>1 DEF CloseInterface
<1>2. CASE CloseWriter
  BY <1>2 DEF CloseWriter
<1>3. CASE StopGuard
  BY <1>3 DEF StopGuard, StopsGuard
<1>4. CASE Unconfigure
  BY <1>4 DEF Unconfigure
<1> QED
  BY <1>1, <1>2, <1>3, <1>4

\* A frame that is recorded opens the capture file, at any time.
LEMMA RecordPcapInv ==
    ASSUME SessionInv, NEW t, RecordPcap(t)
    PROVE  SessionInv'
<1>1. \/ fix' = [fix EXCEPT !.pcap = "open", !.late = @ \/ TearingDown]
      \/ fix' = fix
  BY DEF RecordPcap
<1>2. CASE fix' = [fix EXCEPT !.pcap = "open", !.late = @ \/ TearingDown]
  BY <1>2 DEF SessionInv, FixtureOK, ClosedOK, TearingDown
<1>3. CASE fix' = fix
  BY <1>3 DEF SessionInv, FixtureOK, ClosedOK, TearingDown
<1> QED
  BY <1>1, <1>2, <1>3

\* Every step of the specification preserves the invariant.
LEMMA NextSessionInv == SessionInv /\ [SessionNext]_sessionVars => SessionInv'
<1> SUFFICES ASSUME SessionInv, [SessionNext]_sessionVars PROVE SessionInv'
  OBVIOUS
<1>1. UNCHANGED fix => SessionInv'
  BY DEF SessionInv, FixtureOK, ClosedOK, TearingDown
<1>2. CASE \/ SetupRaises \/ OpenWriter \/ StartGuard
           \/ OpenInterface \/ CloseInterface \/ CloseWriter
           \/ StopGuard \/ Unconfigure
  BY <1>2, SetupInv, TeardownInv
<1>3. CASE \E t \in Threads :
              \/ Send(t) \/ SendReceive(t) \/ Sniff(t)
              \/ Srp1(t) \/ RecordPcap(t) \/ RecordDebug(t)
              \/ RecordSink(t)
  <2>1. PICK t \in Threads :
              \/ Send(t) \/ SendReceive(t) \/ Sniff(t)
              \/ Srp1(t) \/ RecordPcap(t) \/ RecordDebug(t)
              \/ RecordSink(t)
    BY <1>3
  <2>2. \/ UNCHANGED fix
        \/ RecordPcap(t)
    BY <2>1 DEF Send, SendReceive, Sniff, Srp1,
                Records, RecordDebug, RecordSink
  <2> QED
    BY <1>1, <2>2, RecordPcapInv
<1>4. CASE Add \/ Done \/ UNCHANGED sessionVars
  BY <1>1, <1>4 DEF Add, Done, sessionVars
<1>5. CASE StartRun
  BY <1>5, NewFixtureOK DEF StartRun
<1> QED
  BY <1>2, <1>3, <1>4, <1>5 DEF SessionNext

\* A session that was set up and torn down without an error has closed the guard, the
\* writer, the log and, unless a frame came late, the capture (network_interface,
\* pytest_unconfigure).
THEOREM TeardownAlwaysReleases == SessionSpec => []TeardownReleases
<1>1. SessionInv => TeardownReleases
  BY DEF SessionInv, FixtureOK, ClosedOK, TeardownReleases, TearingDown
<1> QED
  BY <1>1, InitSessionInv, NextSessionInv, PTL DEF SessionSpec

-----------------------------------------------------------------------------
(***************************************************************************)
(* The records of a session, for any number of runs, frames and points:    *)
(* the inductive invariant.                                                *)
(***************************************************************************)
ThreadState == [pc : {"idle", "pcap", "debug", "sink", "srp1"}, queue : Seq(Frame),
                asking : BOOLEAN, made : 0..MaxSessionFrames, stamp : Nat]
Lines  == Seq([frame : Frame, number : Nat])
Events == Seq([frame : Frame, at : Nat])

\* What each part of the state is.
OutTyped ==
    out \in [file : Seq(Frame), captured : Nat, trace : Lines, frameNo : Nat,
             clock : Nat, events : Events]
RecordsTyped ==
    env \in Env /\ runs \in 1..MaxRuns /\ thr \in [Threads -> ThreadState] /\ OutTyped

\* How many frames a thread is done with, and how many of its frames each record
\* has been given, if r is the thread's state.
Recorded(r) == r.made - Len(r.queue)
ToFile(r)   == Recorded(r) + IF r.pc \in {"debug", "sink"} THEN 1 ELSE 0
ToTrace(r)  == Recorded(r) + IF r.pc = "sink" THEN 1 ELSE 0

\* The frames thread t has still to record are the last it handled, in order.
Recording == {"pcap", "debug", "sink"}
RowOK(t, r) ==
    /\ Len(r.queue) <= r.made
    /\ IF r.pc \in Recording THEN r.queue # <<>> ELSE r.queue = <<>>
    /\ r.pc = "sink" => r.stamp >= 1
    /\ \A i \in 1..Len(r.queue) : r.queue[i].by = t /\ r.queue[i].n = Recorded(r) + i
QueueOK == \A t \in Threads : RowOK(t, thr[t])

\* Before the interface is there nothing is handled; while it is there, every file
\* that was asked for is open.
EarlyOK ==
    fix.phase \in {"configured", "written", "guarded"} =>
       out = NoOutput /\ thr = IdleThreads /\ fix.pcap = "none"
PhaseOK ==
    /\ EarlyOK
    /\ fix.phase \in {"configured", "written", "guarded", "up"} =>
          fix.late = FALSE /\ fix.logger = IF "debug" \in env.opts THEN "open" ELSE "none"
    /\ fix.phase \in {"written", "guarded", "up"} =>
          fix.writer = IF "events" \in env.opts THEN "open" ELSE "none"
    /\ fix.phase = "up" /\ fix.pcap = "none" => out.file = <<>>

\* The capture holds of each thread frames it has handled, in order.
FileOK ==
    /\ \A t \in Threads : Ordered(t, out.file)
    /\ \A i \in DOMAIN out.file : out.file[i].n <= ToFile(thr[out.file[i].by])
    /\ out.captured >= Len(out.file)
    /\ fix.late = FALSE => out.captured = Len(out.file)

\* The lines of the debug log are numbered.
TraceOK ==
    /\ \A i \in DOMAIN out.trace : out.trace[i].number = i
    /\ fix.logger = "open" => out.frameNo = Len(out.trace)

\* While the interface is up, each record that is kept holds exactly the first frames of
\* each thread.
HeldOK ==
    fix.phase = "up" => \A t \in Threads :
       /\ "capture" \in env.opts => FirstOf(t, out.file, ToFile(thr[t]))
       /\ "debug" \in env.opts   => FirstOf(t, Frames(out.trace), ToTrace(thr[t]))
       /\ "events" \in env.opts  => FirstOf(t, Frames(out.events), Recorded(thr[t]))

\* No two different frames have the same number.
Known == Range(out.file) \cup Range(Frames(out.trace)) \cup Range(Frames(out.events))
         \cup UNION {Range(thr[t].queue) : t \in Threads}
KnownOK ==
    fix.phase = "up" =>
       /\ \A f \in Known : f.n <= thr[f.by].made
       /\ \A f, g \in Known : f.by = g.by /\ f.n = g.n => f = g

RecordsInv == RecordsTyped /\ QueueOK /\ PhaseOK /\ FileOK /\ TraceOK /\ HeldOK /\ KnownOK

\* The events are stamped from 1, and the counters and the clock's start are those of
\* the events read.
Total(s, k) == CASE s = "sent"          -> SentUpto(k)
                 [] s = "received"      -> k - SentUpto(k)
                 [] s = "bytesSent"     -> SentUpto(k)
                 [] s = "bytesReceived" -> 2 * (k - SentUpto(k))
PlotOK ==
    /\ plot \in [read : Nat, start : Nat, total : [Counters -> Int],
                 window : [Series -> Seq(Int)]]
    /\ plot.read <= Len(out.events)
    /\ \A i \in DOMAIN out.events : out.events[i].at >= 1
    /\ plot.start = IF plot.read = 0 THEN 0 ELSE out.events[1].at
    /\ \A s \in Counters : plot.total[s] = Total(s, plot.read)
    /\ PlotIsTail

-----------------------------------------------------------------------------
(***************************************************************************)
(* Records that grow by a frame.                                           *)
(***************************************************************************)
\* An element more.
LEMMA Appended ==
    ASSUME NEW S, NEW s \in Seq(S), NEW e \in S
    PROVE  /\ Append(s, e) \in Seq(S) /\ Len(s) \in Nat /\ Len(Append(s, e)) = Len(s) + 1
           /\ DOMAIN s = 1..Len(s) /\ DOMAIN Append(s, e) = 1..(Len(s) + 1)
           /\ \A i \in 1..Len(s) : Append(s, e)[i] = s[i]
           /\ Append(s, e)[Len(s) + 1] = e
OBVIOUS

\* The same in terms of places.
LEMMA PlacesAfter ==
    ASSUME NEW n \in Nat, NEW i \in 1..(n + 1)
    PROVE  i \in 1..n \/ i = n + 1
OBVIOUS

\* What a sequence holds after one element more.
LEMMA RangeAppended ==
    ASSUME NEW S, NEW s \in Seq(S), NEW e \in S
    PROVE  Range(Append(s, e)) = Range(s) \cup {e}
<1>1. /\ Len(s) \in Nat /\ DOMAIN s = 1..Len(s) /\ DOMAIN Append(s, e) = 1..(Len(s) + 1)
      /\ \A i \in 1..Len(s) : Append(s, e)[i] = s[i]
      /\ Append(s, e)[Len(s) + 1] = e
  BY Appended
<1>2. /\ \A i \in 1..(Len(s) + 1) : i \in 1..Len(s) \/ i = Len(s) + 1
      /\ Len(s) + 1 \in 1..(Len(s) + 1) /\ 1..Len(s) \subseteq 1..(Len(s) + 1)
  BY <1>1
<1> QED
  BY <1>1, <1>2, Zenon DEF Range

\* The frames of a record of lines or events.
LEMMA FramesTyped ==
    ASSUME NEW S, NEW s \in Seq(S), \A x \in S : x.frame \in Frame
    PROVE  /\ Frames(s) \in Seq(Frame) /\ Len(s) \in Nat /\ Len(Frames(s)) = Len(s)
           /\ DOMAIN s = 1..Len(s) /\ DOMAIN Frames(s) = 1..Len(s)
           /\ \A i \in 1..Len(s) : Frames(s)[i] = s[i].frame
<1>1. Len(s) \in Nat /\ DOMAIN s = 1..Len(s) /\ \A i \in 1..Len(s) : s[i] \in S
  OBVIOUS
<1>2. Frames(s) = [i \in 1..Len(s) |-> s[i].frame]
  BY <1>1 DEF Frames
<1>3. Frames(s) \in [1..Len(s) -> Frame]
  BY <1>1, <1>2
<1> QED
  BY <1>1, <1>2, <1>3

\* A line or an event more is a frame more.
LEMMA FramesAppended ==
    ASSUME NEW S, NEW s \in Seq(S), NEW e \in S, \A x \in S : x.frame \in Frame
    PROVE  /\ Frames(s) \in Seq(Frame) /\ e.frame \in Frame
           /\ Frames(Append(s, e)) = Append(Frames(s), e.frame)
<1>1. /\ Len(s) \in Nat /\ DOMAIN s = 1..Len(s) /\ DOMAIN Append(s, e) = 1..(Len(s) + 1)
      /\ \A i \in 1..Len(s) : Append(s, e)[i] = s[i] /\ s[i] \in S
      /\ Append(s, e)[Len(s) + 1] = e
  BY Appended
<1>2. /\ Frames(s) = [i \in 1..Len(s) |-> s[i].frame]
      /\ Frames(Append(s, e)) = [i \in 1..(Len(s) + 1) |-> Append(s, e)[i].frame]
  BY <1>1 DEF Frames
<1>3. Frames(s) \in Seq(Frame) /\ Len(Frames(s)) = Len(s)
  BY <1>1, <1>2
<1>4. \A i \in 1..Len(s) : Frames(s)[i] = s[i].frame
  BY <1>2
<1>5. \A i \in 1..(Len(s) + 1) : Append(s, e)[i].frame = Append(Frames(s), e.frame)[i]
  <2> SUFFICES ASSUME NEW i \in 1..(Len(s) + 1)
               PROVE  Append(s, e)[i].frame = Append(Frames(s), e.frame)[i]
    OBVIOUS
  <2>1. CASE i = Len(s) + 1
    BY <1>1, <1>3, <2>1, Appended
  <2>2. CASE i \in 1..Len(s)
    BY <1>1, <1>3, <1>4, <2>2, Appended
  <2> QED
    BY <1>1, <2>1, <2>2, PlacesAfter
<1>6. Append(Frames(s), e.frame) = [i \in 1..(Len(s) + 1) |-> Append(Frames(s), e.frame)[i]]
  BY <1>1, <1>3
<1> QED
  BY <1>1, <1>2, <1>3, <1>5, <1>6, Zenon

\* A frame behind all that its thread has in a record keeps the record ordered.
LEMMA OrderedAppended ==
    ASSUME NEW s \in Seq(Frame), NEW f \in Frame, NEW t, Ordered(t, s),
           f.by = t => \A i \in DOMAIN s : s[i].by = t => s[i].n < f.n
    PROVE  Ordered(t, Append(s, f))
<1>1. /\ Len(s) \in Nat /\ DOMAIN s = 1..Len(s) /\ DOMAIN Append(s, f) = 1..(Len(s) + 1)
      /\ \A i \in 1..Len(s) : Append(s, f)[i] = s[i]
      /\ Append(s, f)[Len(s) + 1] = f
  BY Appended
<1> SUFFICES ASSUME NEW i \in 1..(Len(s) + 1), NEW j \in 1..(Len(s) + 1),
                    Append(s, f)[i].by = t, Append(s, f)[j].by = t, i < j
             PROVE  Append(s, f)[i].n < Append(s, f)[j].n
  BY <1>1 DEF Ordered, Of
<1>2. i \in 1..Len(s)
  BY <1>1
<1>3. CASE j \in 1..Len(s)
  BY <1>1, <1>2, <1>3 DEF Ordered, Of
<1>4. CASE j = Len(s) + 1
  BY <1>1, <1>2, <1>4
<1> QED
  BY <1>1, <1>3, <1>4, PlacesAfter

\* The next frame of a thread.
LEMMA NextAppended ==
    ASSUME NEW s \in Seq(Frame), NEW f \in Frame, NEW t, NEW k \in Nat,
           FirstOf(t, s, k), f.by = t, f.n = k + 1
    PROVE  FirstOf(t, Append(s, f), k + 1)
<1>1. /\ Len(s) \in Nat /\ DOMAIN s = 1..Len(s) /\ DOMAIN Append(s, f) = 1..(Len(s) + 1)
      /\ \A i \in 1..Len(s) : Append(s, f)[i] = s[i]
      /\ Append(s, f)[Len(s) + 1] = f
  BY Appended
<1>2. \A i \in DOMAIN s : s[i].by = t => s[i].n \in 1..k
  BY DEF FirstOf, Of
<1>3. Ordered(t, Append(s, f))
  <2>1. \A i \in DOMAIN s : s[i].by = t => s[i].n < f.n
    BY <1>2
  <2> QED
    BY <2>1, OrderedAppended DEF FirstOf
<1>4. Of(t, Append(s, f)) = Of(t, s) \cup {Len(s) + 1}
  <2>1. \A i \in 1..(Len(s) + 1) : i \in 1..Len(s) \/ i = Len(s) + 1
    BY <1>1
  <2>2. Len(s) + 1 \in 1..(Len(s) + 1) /\ 1..Len(s) \subseteq 1..(Len(s) + 1)
    BY <1>1
  <2> QED
    BY <1>1, <2>1, <2>2 DEF Of
<1>5. {Append(s, f)[i].n : i \in Of(t, Append(s, f))} = {s[i].n : i \in Of(t, s)} \cup {k + 1}
  <2>1. \A i \in Of(t, s) : Append(s, f)[i].n = s[i].n
    BY <1>1 DEF Of
  <2>2. Append(s, f)[Len(s) + 1].n = k + 1
    BY <1>1
  <2>3. {Append(s, f)[i].n : i \in Of(t, s) \cup {Len(s) + 1}}
          = {Append(s, f)[i].n : i \in Of(t, s)} \cup {Append(s, f)[Len(s) + 1].n}
    BY Zenon
  <2>4. {Append(s, f)[i].n : i \in Of(t, s)} = {s[i].n : i \in Of(t, s)}
    BY <2>1, Zenon
  <2> QED
    BY <1>4, <2>2, <2>3, <2>4, Zenon
<1>6. 1..(k + 1) = 1..k \cup {k + 1}
  OBVIOUS
<1> QED
  BY <1>3, <1>5, <1>6 DEF FirstOf

\* A frame of another thread.
LEMMA OtherAppended ==
    ASSUME NEW s \in Seq(Frame), NEW f \in Frame, NEW t, NEW k,
           FirstOf(t, s, k), f.by # t
    PROVE  FirstOf(t, Append(s, f), k)
<1>1. /\ Len(s) \in Nat /\ DOMAIN s = 1..Len(s) /\ DOMAIN Append(s, f) = 1..(Len(s) + 1)
      /\ \A i \in 1..Len(s) : Append(s, f)[i] = s[i]
      /\ Append(s, f)[Len(s) + 1] = f
  BY Appended
<1>2. Ordered(t, Append(s, f))
  BY OrderedAppended DEF FirstOf
<1>3. Of(t, Append(s, f)) = Of(t, s)
  <2>1. \A i \in 1..(Len(s) + 1) : i \in 1..Len(s) \/ i = Len(s) + 1
    BY <1>1
  <2>2. 1..Len(s) \subseteq 1..(Len(s) + 1)
    BY <1>1
  <2> QED
    BY <1>1, <2>1, <2>2 DEF Of
<1>4. {Append(s, f)[i].n : i \in Of(t, Append(s, f))} = {s[i].n : i \in Of(t, s)}
  <2>1. \A i \in Of(t, s) : Append(s, f)[i].n = s[i].n
    BY <1>1 DEF Of
  <2> QED
    BY <1>3, <2>1, Zenon
<1> QED
  BY <1>2, <1>4 DEF FirstOf

\* No frames.
LEMMA NoneOf == \A t : Ordered(t, <<>>) /\ FirstOf(t, <<>>, 0)
BY DEF Ordered, FirstOf, Of

-----------------------------------------------------------------------------
(***************************************************************************)
(* The threads.                                                            *)
(***************************************************************************)
\* The parts of a thread's state.
LEMMA RowFacts ==
    ASSUME NEW r \in ThreadState, NEW t, RowOK(t, r)
    PROVE  /\ r.pc \in {"idle", "pcap", "debug", "sink", "srp1"}
           /\ r.queue \in Seq(Frame) /\ Len(r.queue) \in Nat /\ r.asking \in BOOLEAN
           /\ r.made \in 0..MaxSessionFrames /\ r.made \in Nat /\ r.stamp \in Nat
           /\ Recorded(r) \in Nat /\ Recorded(r) <= r.made
           /\ ToFile(r) \in Nat /\ ToTrace(r) \in Nat
<1>1. /\ r.pc \in {"idle", "pcap", "debug", "sink", "srp1"}
      /\ r.queue \in Seq(Frame) /\ r.asking \in BOOLEAN
      /\ r.made \in 0..MaxSessionFrames /\ r.stamp \in Nat
  BY DEF ThreadState
<1>2. r.made \in Nat /\ Len(r.queue) \in Nat
  BY <1>1, SessionAssumption
<1>3. Recorded(r) \in Nat /\ Recorded(r) <= r.made
  BY <1>2 DEF RowOK, Recorded
<1>4. ToFile(r) \in Nat /\ ToTrace(r) \in Nat
  BY <1>3 DEF ToFile, ToTrace
<1> QED
  BY <1>1, <1>2, <1>3, <1>4

\* The parts of what has been written.
LEMMA OutFacts ==
    ASSUME OutTyped
    PROVE  /\ out.file \in Seq(Frame) /\ out.captured \in Nat /\ out.frameNo \in Nat
           /\ out.clock \in Nat
           /\ out.trace \in Seq([frame : Frame, number : Nat])
           /\ out.events \in Seq([frame : Frame, at : Nat])
           /\ Frames(out.trace) \in Seq(Frame) /\ Frames(out.events) \in Seq(Frame)
<1>1. /\ out.file \in Seq(Frame) /\ out.captured \in Nat /\ out.frameNo \in Nat
      /\ out.clock \in Nat
      /\ out.trace \in Seq([frame : Frame, number : Nat])
      /\ out.events \in Seq([frame : Frame, at : Nat])
  BY DEF OutTyped, Lines, Events
<1>2. Frames(out.trace) \in Seq(Frame) /\ Frames(out.events) \in Seq(Frame)
  <2>1. /\ \A x \in [frame : Frame, number : Nat] : x.frame \in Frame
        /\ \A x \in [frame : Frame, at : Nat] : x.frame \in Frame
    OBVIOUS
  <2> QED
    BY <1>1, <2>1, FramesTyped
<1> QED
  BY <1>1, <1>2

\* A step of one thread.
Moves(t, r) == thr' = [thr EXCEPT ![t] = r]

\* The other threads stay as they are.
LEMMA Moved ==
    ASSUME thr \in [Threads -> ThreadState], QueueOK,
           NEW t \in Threads, NEW r \in ThreadState, RowOK(t, r), Moves(t, r)
    PROVE  /\ thr' \in [Threads -> ThreadState] /\ QueueOK' /\ thr'[t] = r
           /\ \A u \in Threads : u # t => thr'[u] = thr[u]
<1>1. /\ thr' \in [Threads -> ThreadState] /\ thr'[t] = r
      /\ \A u \in Threads : u # t => thr'[u] = thr[u]
  BY Zenon DEF Moves
<1>2. \A u \in Threads : RowOK(u, thr'[u])
  BY <1>1, Zenon DEF QueueOK
<1> QED
  BY <1>1, <1>2, Zenon DEF QueueOK

\* A thread starts to record the frames of a call.
LEMMA RecordsMoves ==
    ASSUME thr \in [Threads -> ThreadState], QueueOK, NEW t \in Threads,
           thr[t].pc \notin Recording,
           NEW dirs \in Seq(Directions), Len(dirs) >= 1, NEW asking \in BOOLEAN,
           Records(t, dirs, asking)
    PROVE  \E r \in ThreadState :
              /\ Moves(t, r) /\ RowOK(t, r) /\ r.pc = "pcap"
              /\ Recorded(r) = thr[t].made /\ Recorded(thr[t]) = thr[t].made
              /\ r.made >= thr[t].made
              /\ \A i \in 1..Len(r.queue) : r.queue[i].n > thr[t].made
<1> DEFINE q == [i \in DOMAIN dirs |->
                    [by |-> t, n |-> thr[t].made + i, direction |-> dirs[i]]]
           r == [thr[t] EXCEPT !.pc = "pcap", !.asking = asking, !.made = @ + Len(dirs),
                               !.queue = q]
<1>0. thr[t] \in ThreadState /\ RowOK(t, thr[t])
  BY DEF QueueOK
<1>1. /\ thr[t].made \in Nat /\ Len(dirs) \in Nat /\ DOMAIN dirs = 1..Len(dirs)
      /\ thr[t].made + Len(dirs) <= MaxSessionFrames /\ MaxSessionFrames \in Nat
      /\ thr[t].queue = <<>>
  BY <1>0, RowFacts, SessionAssumption DEF Records, RowOK
<1>2. \A i \in 1..Len(dirs) : /\ thr[t].made + i \in 1..MaxSessionFrames
                              /\ dirs[i] \in Directions /\ thr[t].made + i > thr[t].made
  BY <1>1
<1>3. /\ q \in Seq(Frame) /\ Len(q) = Len(dirs) /\ DOMAIN q = 1..Len(dirs)
      /\ \A i \in 1..Len(dirs) : q[i].by = t /\ q[i].n = thr[t].made + i
  <2>1. q = [i \in 1..Len(dirs) |-> [by |-> t, n |-> thr[t].made + i, direction |-> dirs[i]]]
    BY <1>1
  <2>2. \A i \in 1..Len(dirs) :
           [by |-> t, n |-> thr[t].made + i, direction |-> dirs[i]] \in Frame
    BY <1>2 DEF Frame
  <2> HIDE DEF q
  <2>3. q \in [1..Len(dirs) -> Frame]
    BY <2>1, <2>2
  <2>4. \A i \in 1..Len(dirs) : q[i].by = t /\ q[i].n = thr[t].made + i
    BY <2>1
  <2> QED
    BY <1>1, <2>3, <2>4
<1>4. Moves(t, r)
  BY Zenon DEF Records, Moves
<1> HIDE DEF q
<1>5. /\ r \in ThreadState /\ r.pc = "pcap" /\ r.made = thr[t].made + Len(dirs)
      /\ r.queue = q
  <2>1. thr[t].made + Len(dirs) \in 0..MaxSessionFrames
    BY <1>1
  <2> QED
    BY <1>0, <1>3, <2>1 DEF ThreadState
<1> HIDE DEF r
<1>6. Recorded(r) = thr[t].made
  BY <1>1, <1>3, <1>5 DEF Recorded
<1>6a. Recorded(thr[t]) = thr[t].made
  BY <1>1 DEF Recorded
<1>7. RowOK(t, r)
  <2>1. Len(r.queue) <= r.made /\ r.queue # <<>>
    BY <1>1, <1>3, <1>5
  <2> QED
    BY <1>3, <1>5, <1>6, <2>1 DEF RowOK, Recording
<1>8. r.made >= thr[t].made
  BY <1>1, <1>5
<1>9. \A i \in 1..Len(r.queue) : r.queue[i].n > thr[t].made
  BY <1>2, <1>3, <1>5
<1> QED
  BY <1>4, <1>5, <1>6, <1>6a, <1>7, <1>8, <1>9

\* The frame a thread is recording.
LEMMA HeadFrame ==
    ASSUME NEW r \in ThreadState, NEW t, RowOK(t, r), r.pc \in Recording
    PROVE  /\ Head(r.queue) \in Frame /\ Head(r.queue).by = t
           /\ Head(r.queue).n = Recorded(r) + 1 /\ Head(r.queue).n <= r.made
           /\ Head(r.queue) \in Range(r.queue)
<1>1. /\ r.queue \in Seq(Frame) /\ Len(r.queue) \in Nat /\ r.made \in Nat
      /\ r.queue # <<>>
  BY RowFacts DEF RowOK
<1>2. /\ Head(r.queue) = r.queue[1] /\ 1 \in 1..Len(r.queue) /\ r.queue[1] \in Frame
      /\ DOMAIN r.queue = 1..Len(r.queue) /\ Len(r.queue) >= 1
  BY <1>1
<1>3. r.queue[1].by = t /\ r.queue[1].n = Recorded(r) + 1
  BY <1>2 DEF RowOK
<1>4. Recorded(r) + 1 <= r.made
  BY <1>1, <1>2 DEF Recorded
<1>5. r.queue[1] \in Range(r.queue)
  BY <1>2, Zenon DEF Range
<1> QED
  BY <1>2, <1>3, <1>4, <1>5

\* A thread that stays with its frame.
LEMMA StaysMoves ==
    ASSUME thr \in [Threads -> ThreadState], QueueOK, NEW t \in Threads,
           thr[t].pc \in Recording, NEW r \in ThreadState, r.pc \in Recording,
           r.made = thr[t].made, r.queue = thr[t].queue, r.pc = "sink" => r.stamp >= 1
    PROVE  RowOK(t, r) /\ Recorded(r) = Recorded(thr[t])
<1>1. thr[t] \in ThreadState /\ RowOK(t, thr[t])
  BY DEF QueueOK
<1>2. Recorded(r) = Recorded(thr[t])
  BY DEF Recorded
<1> QED
  BY <1>1, <1>2 DEF RowOK

\* A thread that is done with its frame.
LEMMA NextMoves ==
    ASSUME thr \in [Threads -> ThreadState], QueueOK, NEW t \in Threads,
           thr[t].pc \in Recording, NEW r,
           r = [thr[t] EXCEPT !.queue = Tail(thr[t].queue), !.asking = FALSE,
                   !.pc = IF Tail(thr[t].queue) # <<>> THEN "pcap"
                          ELSE IF thr[t].asking THEN "srp1" ELSE "idle"]
    PROVE  /\ r \in ThreadState /\ RowOK(t, r) /\ r.pc \notin {"debug", "sink"}
           /\ r.made = thr[t].made /\ Recorded(r) = Recorded(thr[t]) + 1
           /\ Range(r.queue) \subseteq Range(thr[t].queue)
<1> DEFINE q == thr[t].queue
<1>1. /\ thr[t] \in ThreadState /\ RowOK(t, thr[t])
      /\ q \in Seq(Frame) /\ Len(q) \in Nat /\ thr[t].made \in Nat /\ q # <<>>
  BY RowFacts DEF QueueOK, RowOK
<1>2. /\ Tail(q) \in Seq(Frame) /\ Len(Tail(q)) = Len(q) - 1 /\ Len(q) >= 1
      /\ DOMAIN Tail(q) = 1..Len(Tail(q)) /\ DOMAIN q = 1..Len(q)
      /\ \A i \in 1..Len(Tail(q)) : Tail(q)[i] = q[i + 1] /\ i + 1 \in 1..Len(q)
  BY <1>1
<1>3. /\ r \in ThreadState /\ r.made = thr[t].made /\ r.queue = Tail(q)
      /\ r.pc \in {"pcap", "srp1", "idle"}
      /\ r.pc = IF Tail(q) # <<>> THEN "pcap" ELSE IF thr[t].asking THEN "srp1" ELSE "idle"
  BY <1>1, <1>2 DEF ThreadState
<1> HIDE DEF q
<1>4. Recorded(r) = Recorded(thr[t]) + 1
  BY <1>1, <1>2, <1>3 DEF Recorded, q
<1>5. \A i \in 1..Len(r.queue) : r.queue[i].by = t /\ r.queue[i].n = Recorded(r) + i
  <2> SUFFICES ASSUME NEW i \in 1..Len(Tail(q))
               PROVE  Tail(q)[i].by = t /\ Tail(q)[i].n = Recorded(r) + i
    BY <1>3
  <2>1. q[i + 1].by = t /\ q[i + 1].n = Recorded(thr[t]) + (i + 1)
    BY <1>1, <1>2 DEF RowOK, q
  <2>2. Recorded(thr[t]) \in Nat
    BY <1>1, RowFacts
  <2> QED
    BY <1>2, <1>4, <2>1, <2>2
<1>6. RowOK(t, r)
  <2>1. Len(r.queue) <= r.made
    BY <1>1, <1>2, <1>3 DEF RowOK, q
  <2>2. IF r.pc \in Recording THEN r.queue # <<>> ELSE r.queue = <<>>
    BY <1>3 DEF Recording
  <2>3. r.pc # "sink"
    BY <1>3
  <2> QED
    BY <1>5, <2>1, <2>2, <2>3, Zenon DEF RowOK
<1>7. Range(r.queue) \subseteq Range(thr[t].queue)
  <2> SUFFICES ASSUME NEW x \in DOMAIN Tail(q) PROVE \E y \in DOMAIN q : q[y] = Tail(q)[x]
    BY <1>3 DEF Range, q
  <2>1. Tail(q)[x] = q[x + 1] /\ x + 1 \in DOMAIN q
    BY <1>2
  <2> QED
    BY <2>1
<1>8. r.pc \notin {"debug", "sink"}
  BY <1>3
<1> QED
  BY <1>3, <1>4, <1>6, <1>7, <1>8

\* A thread whose call ended.
LEMMA IdleMoves ==
    ASSUME thr \in [Threads -> ThreadState], QueueOK, NEW t \in Threads,
           NEW a \in BOOLEAN, NEW r,
           r = [thr[t] EXCEPT !.pc = "idle", !.queue = <<>>, !.asking = a]
    PROVE  /\ r \in ThreadState /\ RowOK(t, r) /\ r.pc = "idle" /\ r.queue = <<>>
           /\ r.made = thr[t].made /\ Recorded(r) = thr[t].made
<1>1. thr[t] \in ThreadState /\ RowOK(t, thr[t]) /\ thr[t].made \in Nat
  BY RowFacts DEF QueueOK
<1>1a. <<>> \in Seq(Frame)
  OBVIOUS
<1>2. /\ r \in ThreadState /\ r.pc = "idle" /\ r.made = thr[t].made /\ r.queue = <<>>
  BY <1>1, <1>1a DEF ThreadState
<1>3. Recorded(r) = thr[t].made /\ Len(r.queue) = 0
  BY <1>1, <1>2 DEF Recorded
<1> QED
  BY <1>1, <1>2, <1>3 DEF RowOK, Recording

-----------------------------------------------------------------------------
(***************************************************************************)
(* What a step of a thread leaves alone.                                   *)
(***************************************************************************)
Early == {"configured", "written", "guarded"}

\* A thread that records, or may call, has an interface.
LEMMA NotEarly ==
    ASSUME EarlyOK, NEW t \in Threads, Calls(t) \/ thr[t].pc # "idle"
    PROVE  fix.phase \notin Early
<1>1. CASE Calls(t)
  BY <1>1 DEF Calls, TearingDown, Early
<1>2. CASE thr[t].pc # "idle"
  <2>1. thr = IdleThreads => thr[t].pc = "idle"
    BY DEF IdleThreads
  <2> QED
    BY <1>2, <2>1 DEF EarlyOK, Early
<1> QED
  BY <1>1, <1>2

\* The phase and what the fixture holds.
LEMMA PhaseStays ==
    ASSUME PhaseOK, fix.phase \notin Early, UNCHANGED <<env, fix>>,
           out.file = <<>> => out'.file = <<>>
    PROVE  PhaseOK'
BY DEF PhaseOK, EarlyOK, Early

\* The places of the capture.
LEMMA FileFacts ==
    ASSUME OutTyped
    PROVE  /\ Len(out.file) \in Nat /\ DOMAIN out.file = 1..Len(out.file)
           /\ \A i \in DOMAIN out.file : /\ out.file[i] \in Frame /\ out.file[i].n \in Nat
                                         /\ out.file[i].by \in Threads
<1>1. out.file \in Seq(Frame)
  BY OutFacts
<1>2. \A f \in Frame : f.n \in Nat /\ f.by \in Threads
  BY SessionAssumption DEF Frame
<1>3. \A i \in DOMAIN out.file : out.file[i] \in Frame
  BY <1>1
<1> QED
  BY <1>1, <1>2, <1>3

\* Nothing is recorded, and every thread is as far as it was.
LEMMA CountsStay ==
    ASSUME FileOK, TraceOK, HeldOK, OutTyped, UNCHANGED <<env, fix, out>>,
           \A u \in Threads : /\ ToFile(thr'[u]) = ToFile(thr[u])
                              /\ ToTrace(thr'[u]) = ToTrace(thr[u])
                              /\ Recorded(thr'[u]) = Recorded(thr[u])
    PROVE  FileOK' /\ TraceOK' /\ HeldOK'
<1>1. TraceOK'
  BY DEF TraceOK
<1>2. \A i \in DOMAIN out.file : out.file[i].by \in Threads
  BY FileFacts
<1>3. FileOK'
  <2>1. \A t \in Threads : Ordered(t, out'.file)
    BY DEF FileOK
  <2>2. \A i \in DOMAIN out'.file : out'.file[i].n <= ToFile(thr'[out'.file[i].by])
    BY <1>2 DEF FileOK
  <2>3. /\ out'.captured >= Len(out'.file)
        /\ fix'.late = FALSE => out'.captured = Len(out'.file)
    BY DEF FileOK
  <2> QED
    BY <2>1, <2>2, <2>3 DEF FileOK
<1>4. HeldOK'
  <2> SUFFICES ASSUME fix'.phase = "up", NEW t \in Threads
               PROVE  /\ "capture" \in env'.opts => FirstOf(t, out'.file, ToFile(thr'[t]))
                      /\ "debug" \in env'.opts
                            => FirstOf(t, Frames(out'.trace), ToTrace(thr'[t]))
                      /\ "events" \in env'.opts
                            => FirstOf(t, Frames(out'.events), Recorded(thr'[t]))
    BY DEF HeldOK
  <2> QED
    BY DEF HeldOK
<1> QED
  BY <1>1, <1>3, <1>4

\* No new frame.
LEMMA KnownStays ==
    ASSUME KnownOK, fix'.phase = "up" => fix.phase = "up",
           fix'.phase = "up" => Known' \subseteq Known,
           \A u \in Threads : thr'[u].made >= thr[u].made,
           \A u \in Threads : thr[u].made \in Nat /\ thr'[u].made \in Nat,
           \A f \in Known : f.by \in Threads /\ f.n \in Nat
    PROVE  KnownOK'
<1> SUFFICES ASSUME fix'.phase = "up"
             PROVE  /\ \A f \in Known' : f.n <= thr'[f.by].made
                    /\ \A f, g \in Known' : f.by = g.by /\ f.n = g.n => f = g
  BY DEF KnownOK
<1>1. Known' \subseteq Known
  OBVIOUS
<1> HIDE DEF Known
<1>2. ASSUME NEW f \in Known' PROVE f.n <= thr'[f.by].made
  <2>1. f \in Known /\ f.by \in Threads /\ f.n \in Nat
    BY <1>1
  <2>2. f.n <= thr[f.by].made
    BY <2>1 DEF KnownOK
  <2> QED
    BY <2>1, <2>2
<1>3. \A f, g \in Known' : f.by = g.by /\ f.n = g.n => f = g
  BY <1>1 DEF KnownOK
<1> QED
  BY <1>2, <1>3

\* Every known frame is one.
LEMMA KnownTyped ==
    ASSUME OutTyped, thr \in [Threads -> ThreadState]
    PROVE  /\ Known \subseteq Frame
           /\ \A f \in Known : f.by \in Threads /\ f.n \in Nat
<1>1. /\ Range(out.file) \subseteq Frame /\ Range(Frames(out.trace)) \subseteq Frame
      /\ Range(Frames(out.events)) \subseteq Frame
  BY OutFacts DEF Range
<1>2. ASSUME NEW t \in Threads PROVE Range(thr[t].queue) \subseteq Frame
  <2>1. thr[t].queue \in Seq(Frame)
    BY DEF ThreadState
  <2> QED
    BY <2>1 DEF Range
<1>3. Known \subseteq Frame
  BY <1>1, <1>2, Zenon DEF Known
<1>4. \A f \in Frame : f.by \in Threads /\ f.n \in Nat
  BY SessionAssumption DEF Frame
<1> QED
  BY <1>3, <1>4

-----------------------------------------------------------------------------
(***************************************************************************)
(* Every step of a thread keeps the records.                               *)
(***************************************************************************)
\* A call that hands frames over.
LEMMA RecordsKeeps ==
    ASSUME RecordsInv, NEW t \in Threads, Calls(t) \/ thr[t].pc = "srp1",
           NEW dirs \in Seq(Directions), Len(dirs) >= 1, NEW asking \in BOOLEAN,
           Records(t, dirs, asking)
    PROVE  RecordsInv'
<1>1. /\ thr \in [Threads -> ThreadState] /\ QueueOK /\ OutTyped
      /\ UNCHANGED <<env, fix, out, runs>>
  BY DEF RecordsInv, RecordsTyped, Records
<1>2. thr[t].pc \in {"idle", "srp1"} /\ thr[t].pc \notin Recording
  BY DEF Calls, Recording
<1>3. PICK r \in ThreadState :
         /\ Moves(t, r) /\ RowOK(t, r) /\ r.pc = "pcap"
         /\ Recorded(r) = thr[t].made /\ Recorded(thr[t]) = thr[t].made
         /\ r.made >= thr[t].made
         /\ \A i \in 1..Len(r.queue) : r.queue[i].n > thr[t].made
  BY <1>1, <1>2, RecordsMoves
<1>4. /\ thr' \in [Threads -> ThreadState] /\ QueueOK' /\ thr'[t] = r
      /\ \A u \in Threads : u # t => thr'[u] = thr[u]
  BY <1>1, <1>3, Moved
<1>5. RecordsTyped'
  BY <1>1, <1>4 DEF RecordsInv, RecordsTyped, OutTyped
<1>6. \A u \in Threads : /\ ToFile(thr'[u]) = ToFile(thr[u])
                         /\ ToTrace(thr'[u]) = ToTrace(thr[u])
                         /\ Recorded(thr'[u]) = Recorded(thr[u])
  <2>1. /\ ToFile(r) = ToFile(thr[t]) /\ ToTrace(r) = ToTrace(thr[t])
        /\ Recorded(r) = Recorded(thr[t])
    BY <1>2, <1>3 DEF ToFile, ToTrace
  <2> QED
    BY <1>4, <2>1
<1>7. FileOK' /\ TraceOK' /\ HeldOK'
  BY <1>1, <1>6, CountsStay DEF RecordsInv
<1>8. PhaseOK'
  <2>1. fix.phase \notin Early
    BY <1>2, NotEarly DEF RecordsInv, PhaseOK
  <2> QED
    BY <1>1, <2>1, PhaseStays DEF RecordsInv
<1>9. KnownOK'
  <2> SUFFICES ASSUME fix.phase = "up"
               PROVE  /\ \A f \in Known' : f.n <= thr'[f.by].made
                      /\ \A f, g \in Known' : f.by = g.by /\ f.n = g.n => f = g
    BY <1>1 DEF KnownOK
  <2> DEFINE new == Range(r.queue)
  <2>1. Known' \subseteq Known \cup new
    <3>1. \A u \in Threads : Range(thr'[u].queue) \subseteq Range(thr[u].queue) \cup new
      BY <1>4
    <3>2. UNCHANGED <<Range(out.file), Range(Frames(out.trace)), Range(Frames(out.events))>>
      BY <1>1 DEF Frames
    <3> HIDE DEF new
    <3> QED
      BY <3>1, <3>2 DEF Known
  <2>2. \A f \in Known : f.by \in Threads /\ f.n \in Nat /\ f.n <= thr[f.by].made
    BY <1>1, KnownTyped DEF RecordsInv, KnownOK
  <2>3. /\ r.queue \in Seq(Frame) /\ r.made \in Nat /\ Recorded(r) \in Nat
        /\ Len(r.queue) \in Nat /\ Recorded(r) + Len(r.queue) = r.made
        /\ DOMAIN r.queue = 1..Len(r.queue)
    <3>1. r.queue \in Seq(Frame) /\ r.made \in Nat /\ Recorded(r) \in Nat
      BY <1>3, RowFacts
    <3> QED
      BY <3>1 DEF Recorded
  <2>4. ASSUME NEW f \in new
        PROVE  \E i \in 1..Len(r.queue) :
                  /\ f = r.queue[i] /\ f.by = t /\ f.n = Recorded(r) + i
                  /\ f.n > thr[t].made /\ f.n <= r.made
    <3>1. PICK i \in 1..Len(r.queue) : f = r.queue[i]
      BY <2>3 DEF Range
    <3>2. f.by = t /\ f.n = Recorded(r) + i /\ f.n > thr[t].made
      BY <1>3, <3>1 DEF RowOK
    <3>3. f.n <= r.made
      BY <2>3, <3>1, <3>2
    <3> QED
      BY <3>1, <3>2, <3>3
  <2> HIDE DEF new
  <2>5. ASSUME NEW f \in Known' PROVE f.n <= thr'[f.by].made
    <3>1. CASE f \in Known
      <4>1. CASE f.by = t
        <5>1. thr[t].made \in Nat
          BY <1>1, RowFacts DEF QueueOK
        <5> QED
          BY <1>3, <1>4, <2>2, <2>3, <3>1, <4>1, <5>1
      <4>2. CASE f.by # t
        BY <1>4, <2>2, <3>1, <4>2
      <4> QED
        BY <4>1, <4>2
    <3>2. CASE f \in new
      BY <1>4, <2>4, <3>2
    <3> QED
      BY <2>1, <3>1, <3>2
  <2>6. ASSUME NEW f \in Known', NEW g \in Known', f.by = g.by, f.n = g.n PROVE f = g
    <3>1. CASE f \in Known /\ g \in Known
      BY <2>6, <3>1 DEF RecordsInv, KnownOK
    <3>2. ASSUME NEW x \in Known, NEW y \in new, x.by = y.by, x.n = y.n PROVE FALSE
      <4>1. y.by = t /\ y.n > thr[t].made
        BY <2>4
      <4>2. x.n <= thr[t].made /\ x.n \in Nat /\ thr[t].made \in Nat
        BY <1>1, <2>2, <3>2, <4>1, RowFacts DEF QueueOK
      <4> QED
        BY <3>2, <4>1, <4>2
    <3>3. CASE f \in new /\ g \in new
      <4>1. PICK i \in 1..Len(r.queue) : f = r.queue[i] /\ f.n = Recorded(r) + i
        BY <2>4, <3>3
      <4>2. PICK j \in 1..Len(r.queue) : g = r.queue[j] /\ g.n = Recorded(r) + j
        BY <2>4, <3>3
      <4>3. i = j
        BY <2>3, <2>6, <4>1, <4>2
      <4> QED
        BY <4>1, <4>2, <4>3
    <3> QED
      BY <2>1, <2>6, <3>1, <3>2, <3>3
  <2> QED
    BY <2>5, <2>6
<1> QED
  BY <1>4, <1>5, <1>7, <1>8, <1>9 DEF RecordsInv

\* A srp1 that ends without a reply.
LEMMA SilenceKeeps ==
    ASSUME RecordsInv, NEW t \in Threads, thr[t].pc = "srp1",
           thr' = [thr EXCEPT ![t].pc = "idle"], UNCHANGED <<env, fix, out, plot, runs>>
    PROVE  RecordsInv'
<1> DEFINE r == [thr[t] EXCEPT !.pc = "idle"]
<1>1. thr \in [Threads -> ThreadState] /\ QueueOK /\ OutTyped
  BY DEF RecordsInv, RecordsTyped
<1>2. /\ thr[t] \in ThreadState /\ RowOK(t, thr[t]) /\ thr[t].queue = <<>>
      /\ thr[t].made \in Nat
  BY <1>1, RowFacts DEF QueueOK, RowOK, Recording
<1>3. /\ r \in ThreadState /\ r.pc = "idle" /\ r.queue = thr[t].queue
      /\ r.made = thr[t].made
  BY <1>2 DEF ThreadState
<1>4. Moves(t, r)
  BY DEF Moves
<1> HIDE DEF r
<1>5. Recorded(r) = Recorded(thr[t])
  BY <1>3 DEF Recorded
<1>6. RowOK(t, r)
  BY <1>2, <1>3, <1>5 DEF RowOK, Recording
<1>7. /\ thr' \in [Threads -> ThreadState] /\ QueueOK' /\ thr'[t] = r
      /\ \A u \in Threads : u # t => thr'[u] = thr[u]
  BY <1>1, <1>3, <1>4, <1>6, Moved
<1>8. \A u \in Threads : /\ ToFile(thr'[u]) = ToFile(thr[u])
                         /\ ToTrace(thr'[u]) = ToTrace(thr[u])
                         /\ Recorded(thr'[u]) = Recorded(thr[u])
                         /\ thr'[u].made = thr[u].made /\ thr'[u].queue = thr[u].queue
  <2>1. /\ ToFile(r) = ToFile(thr[t]) /\ ToTrace(r) = ToTrace(thr[t])
    BY <1>3, <1>5 DEF ToFile, ToTrace
  <2> QED
    BY <1>3, <1>5, <1>7, <2>1
<1>9. FileOK' /\ TraceOK' /\ HeldOK'
  BY <1>1, <1>8, CountsStay DEF RecordsInv
<1>10. PhaseOK'
  <2>1. fix.phase \notin Early
    BY NotEarly DEF RecordsInv, PhaseOK
  <2> QED
    BY <2>1, PhaseStays DEF RecordsInv
<1>11. KnownOK'
  <2>1. Known' \subseteq Known
    <3>1. UNCHANGED <<Range(out.file), Range(Frames(out.trace)), Range(Frames(out.events))>>
      BY DEF Frames
    <3>2. \A u \in Threads : Range(thr'[u].queue) = Range(thr[u].queue)
      BY <1>8
    <3> QED
      BY <3>1, <3>2 DEF Known
  <2>2. \A u \in Threads : thr[u].made \in Nat
    BY <1>1, RowFacts DEF QueueOK
  <2> QED
    BY <1>1, <1>8, <2>1, <2>2, KnownStays, KnownTyped DEF RecordsInv
<1>12. RecordsTyped'
  BY <1>7 DEF RecordsInv, RecordsTyped, OutTyped
<1> QED
  BY <1>7, <1>9, <1>10, <1>11, <1>12 DEF RecordsInv

\* A frame goes into the capture.
LEMMA PcapKeeps ==
    ASSUME SessionInv, RecordsInv, NEW t \in Threads, RecordPcap(t)
    PROVE  RecordsInv'
<1> DEFINE f == Head(thr[t].queue)
           r == [thr[t] EXCEPT !.pc = "debug"]
<1>1. thr \in [Threads -> ThreadState] /\ QueueOK /\ OutTyped
  BY DEF RecordsInv, RecordsTyped
<1>2. /\ thr[t].pc = "pcap" /\ thr' = [thr EXCEPT ![t].pc = "debug"]
      /\ UNCHANGED <<env, runs>>
  BY DEF RecordPcap
<1>3. thr[t] \in ThreadState /\ RowOK(t, thr[t]) /\ thr[t].pc \in Recording
  BY <1>1, <1>2 DEF QueueOK, Recording
<1>4. /\ f \in Frame /\ f.by = t /\ f.n = Recorded(thr[t]) + 1 /\ f \in Range(thr[t].queue)
      /\ f.n \in Nat /\ Recorded(thr[t]) \in Nat
  BY <1>3, HeadFrame, RowFacts
<1>5. /\ r.pc = "debug" /\ Moves(t, r) /\ r \in ThreadState
      /\ r.made = thr[t].made /\ r.queue = thr[t].queue /\ r.pc \in Recording
  BY <1>2, <1>3 DEF Moves, ThreadState, Recording
<1>6. \/ /\ "capture" \in env.opts
         /\ out' = [out EXCEPT !.file = Append(Opened, f), !.captured = @ + 1]
         /\ fix' = [fix EXCEPT !.pcap = "open", !.late = @ \/ TearingDown]
      \/ "capture" \notin env.opts /\ UNCHANGED <<out, fix>>
  BY DEF RecordPcap
<1> HIDE DEF f, r
<1>7. RowOK(t, r) /\ Recorded(r) = Recorded(thr[t])
  BY <1>1, <1>3, <1>5, StaysMoves
<1>8. /\ thr' \in [Threads -> ThreadState] /\ QueueOK' /\ thr'[t] = r
      /\ \A u \in Threads : u # t => thr'[u] = thr[u]
  BY <1>1, <1>5, <1>7, Moved
<1>9. /\ ToFile(r) = Recorded(thr[t]) + 1 /\ ToFile(thr[t]) = Recorded(thr[t])
      /\ ToTrace(r) = ToTrace(thr[t])
  BY <1>2, <1>4, <1>5, <1>7 DEF ToFile, ToTrace
<1>10. fix.phase \notin Early
  BY <1>2, NotEarly DEF RecordsInv, PhaseOK
<1>11. \A u \in Threads : thr[u].made \in Nat /\ thr'[u].made = thr[u].made
                          /\ thr'[u].queue = thr[u].queue
  BY <1>1, <1>5, <1>7, <1>8, RowFacts DEF QueueOK
<1>12. \A u \in Threads : /\ ToFile(thr[u]) \in Nat
                          /\ ToTrace(thr'[u]) = ToTrace(thr[u])
                          /\ Recorded(thr'[u]) = Recorded(thr[u])
                          /\ ToFile(thr'[u]) = IF u = t THEN ToFile(thr[u]) + 1
                                               ELSE ToFile(thr[u])
  BY <1>1, <1>7, <1>8, <1>9, RowFacts DEF QueueOK
<1>13. CASE "capture" \notin env.opts
  <2>1. UNCHANGED <<out, fix>>
    BY <1>6, <1>13
  <2>2. PhaseOK' /\ TraceOK'
    BY <1>2, <1>10, <2>1, PhaseStays DEF RecordsInv, TraceOK
  <2>3. FileOK'
    <3>1. \A i \in DOMAIN out.file :
             /\ out.file[i].by \in Threads /\ out.file[i].n \in Nat
             /\ out.file[i].n <= ToFile(thr[out.file[i].by])
      BY <1>1, FileFacts DEF RecordsInv, FileOK
    <3>2. \A i \in DOMAIN out.file : out.file[i].n <= ToFile(thr'[out.file[i].by])
      BY <1>12, <3>1
    <3> QED
      BY <2>1, <3>2 DEF RecordsInv, FileOK
  <2>4. HeldOK'
    BY <1>2, <1>12, <1>13, <2>1 DEF RecordsInv, HeldOK
  <2>5. KnownOK'
    <3>1. Known' = Known
      BY <1>11, <2>1 DEF Known, Frames
    <3>2. fix'.phase = "up" => fix.phase = "up"
      BY <2>1
    <3> QED
      BY <1>1, <1>11, <3>1, <3>2, KnownStays, KnownTyped DEF RecordsInv
  <2>6. RecordsTyped'
    BY <1>2, <1>8, <2>1 DEF RecordsInv, RecordsTyped, OutTyped
  <2> QED
    BY <1>8, <2>2, <2>3, <2>4, <2>5, <2>6 DEF RecordsInv
<1>14. CASE "capture" \in env.opts
  <2>1. /\ out' = [out EXCEPT !.file = Append(Opened, f), !.captured = @ + 1]
        /\ fix' = [fix EXCEPT !.pcap = "open", !.late = @ \/ TearingDown]
    BY <1>6, <1>14
  <2>2. /\ out'.file = Append(Opened, f) /\ out'.captured = out.captured + 1
        /\ out'.trace = out.trace /\ out'.events = out.events
        /\ out'.frameNo = out.frameNo /\ out'.clock = out.clock
    BY <1>1, <2>1 DEF OutTyped
  <2>3. /\ fix'.pcap = "open" /\ fix'.phase = fix.phase /\ fix'.logger = fix.logger
        /\ fix'.writer = fix.writer /\ fix'.late = (fix.late \/ TearingDown)
    BY <2>1 DEF SessionInv, FixtureOK
  <2>4. /\ Opened \in Seq(Frame) /\ (Opened = <<>> \/ Opened = out.file)
        /\ fix.phase = "up" => Opened = out.file
    <3>1. <<>> \in Seq(Frame) /\ out.file \in Seq(Frame)
      BY <1>1, OutFacts
    <3> QED
      BY <3>1 DEF Opened, RecordsInv, PhaseOK
  <2>5. /\ \A i \in DOMAIN Opened : /\ Opened[i].n <= ToFile(thr[Opened[i].by])
                                    /\ Opened[i].by \in Threads /\ Opened[i].n \in Nat
        /\ \A u \in Threads : Ordered(u, Opened)
        /\ Len(Opened) \in Nat /\ Len(Opened) <= Len(out.file) /\ Len(out.file) \in Nat
    <3>1. CASE Opened = <<>>
      BY <1>1, <3>1, NoneOf, FileFacts
    <3>2. CASE Opened = out.file
      BY <1>1, <3>2, FileFacts DEF RecordsInv, FileOK
    <3> QED
      BY <2>4, <3>1, <3>2
  <2>6. /\ out'.file \in Seq(Frame) /\ Len(out'.file) = Len(Opened) + 1
        /\ DOMAIN out'.file = 1..(Len(Opened) + 1) /\ DOMAIN Opened = 1..Len(Opened)
        /\ \A i \in 1..Len(Opened) : out'.file[i] = Opened[i]
        /\ out'.file[Len(Opened) + 1] = f
    BY <1>4, <2>2, <2>4, Appended
  <2>7. FileOK'
    <3>1. \A u \in Threads : Ordered(u, out'.file)
      <4> SUFFICES ASSUME NEW u \in Threads PROVE Ordered(u, Append(Opened, f))
        BY <2>2
      <4>1. f.by = u => \A i \in DOMAIN Opened : Opened[i].by = u => Opened[i].n < f.n
        BY <1>4, <1>9, <2>5
      <4> QED
        BY <1>4, <2>4, <2>5, <4>1, OrderedAppended
    <3>2. ASSUME NEW i \in DOMAIN out'.file
          PROVE  out'.file[i].n <= ToFile(thr'[out'.file[i].by])
      <4>1. CASE i \in 1..Len(Opened)
        <5>1. /\ out'.file[i] = Opened[i] /\ Opened[i].by \in Threads
              /\ Opened[i].n \in Nat /\ Opened[i].n <= ToFile(thr[Opened[i].by])
          BY <2>4, <2>5, <2>6, <4>1
        <5>2. ASSUME NEW u \in Threads
              PROVE  /\ ToFile(thr[u]) \in Nat /\ ToFile(thr'[u]) \in Nat
                     /\ ToFile(thr'[u]) >= ToFile(thr[u])
          BY <1>12
        <5> QED
          BY <5>1, <5>2
      <4>2. CASE i = Len(Opened) + 1
        BY <1>4, <1>8, <1>9, <2>6, <4>2
      <4> QED
        BY <2>5, <2>6, <4>1, <4>2, PlacesAfter
    <3>3. out'.captured >= Len(out'.file)
      <4>1. out.captured \in Nat /\ out.captured >= Len(out.file)
        BY <1>1, OutFacts DEF RecordsInv, FileOK
      <4> QED
        BY <2>2, <2>5, <2>6, <4>1
    <3>4. fix'.late = FALSE => out'.captured = Len(out'.file)
      <4> SUFFICES ASSUME fix'.late = FALSE PROVE out'.captured = Len(out'.file)
        OBVIOUS
      <4>1. fix.late = FALSE /\ fix.phase = "up"
        BY <1>10, <2>3 DEF SessionInv, FixtureOK, TearingDown, Early
      <4>2. out.captured = Len(out.file) /\ Opened = out.file /\ out.captured \in Nat
        BY <1>1, <2>4, <4>1, OutFacts DEF RecordsInv, FileOK
      <4> QED
        BY <2>2, <2>6, <4>2
    <3> QED
      BY <3>1, <3>2, <3>3, <3>4 DEF FileOK
  <2>8. HeldOK'
    <3> SUFFICES ASSUME fix'.phase = "up", NEW u \in Threads
                 PROVE  /\ FirstOf(u, out'.file, ToFile(thr'[u]))
                        /\ "debug" \in env'.opts
                              => FirstOf(u, Frames(out'.trace), ToTrace(thr'[u]))
                        /\ "events" \in env'.opts
                              => FirstOf(u, Frames(out'.events), Recorded(thr'[u]))
      BY DEF HeldOK
    <3>1. /\ FirstOf(u, out.file, ToFile(thr[u])) /\ Opened = out.file
          /\ "debug" \in env'.opts => FirstOf(u, Frames(out'.trace), ToTrace(thr'[u]))
          /\ "events" \in env'.opts => FirstOf(u, Frames(out'.events), Recorded(thr'[u]))
      BY <1>2, <1>12, <1>14, <2>2, <2>3, <2>4 DEF RecordsInv, HeldOK
    <3>2. CASE u = t
      BY <1>4, <1>9, <1>12, <2>2, <2>4, <3>1, <3>2, NextAppended
    <3>3. CASE u # t
      BY <1>4, <1>12, <2>2, <2>4, <3>1, <3>3, OtherAppended
    <3> QED
      BY <3>1, <3>2, <3>3
  <2>9. PhaseOK' /\ TraceOK'
    <3>1. TraceOK'
      BY <2>2, <2>3 DEF RecordsInv, TraceOK
    <3>2. fix'.phase = "up" => fix'.late = FALSE
      BY <1>10, <2>3 DEF RecordsInv, PhaseOK, TearingDown
    <3>3. PhaseOK'
      BY <1>2, <1>10, <2>3, <3>2 DEF RecordsInv, PhaseOK, EarlyOK, Early
    <3> QED
      BY <3>1, <3>3
  <2>10. KnownOK'
    <3>1. Known' \subseteq Known
      <4>1. Range(out'.file) \subseteq Range(out.file) \cup {f}
        <5>1. Range(Append(Opened, f)) = Range(Opened) \cup {f}
          BY <1>4, <2>4, RangeAppended
        <5>2. Range(<<>>) = {}
          BY DEF Range
        <5> QED
          BY <2>2, <2>4, <5>1, <5>2
      <4>2. f \in Known
        BY <1>4 DEF Known
      <4>3. Range(out.file) \subseteq Known
        BY DEF Known
      <4>4. UNCHANGED <<Range(Frames(out.trace)), Range(Frames(out.events))>>
        BY <2>2 DEF Frames
      <4>5. \A u \in Threads : Range(thr'[u].queue) = Range(thr[u].queue)
        BY <1>11
      <4> QED
        BY <4>1, <4>2, <4>3, <4>4, <4>5 DEF Known
    <3>2. fix'.phase = "up" => fix.phase = "up"
      BY <2>3
    <3> QED
      BY <1>1, <1>11, <3>1, <3>2, KnownStays, KnownTyped DEF RecordsInv
  <2>11. RecordsTyped'
    <3>1. out'.captured \in Nat
      BY <1>1, <2>2, OutFacts
    <3>2. OutTyped'
      BY <1>1, <2>1, <2>6, <2>2, <3>1 DEF OutTyped
    <3> QED
      BY <1>2, <1>8, <3>2 DEF RecordsInv, RecordsTyped
  <2> QED
    BY <1>8, <2>7, <2>8, <2>9, <2>10, <2>11 DEF RecordsInv
<1> QED
  BY <1>13, <1>14

\* The capture is left alone by a thread that goes on.
LEMMA FileStays ==
    ASSUME FileOK, OutTyped, UNCHANGED <<fix, out.file, out.captured>>,
           \A u \in Threads : /\ ToFile(thr[u]) \in Nat /\ ToFile(thr'[u]) \in Nat
                              /\ ToFile(thr'[u]) >= ToFile(thr[u])
    PROVE  FileOK'
<1>1. \A i \in DOMAIN out.file :
         /\ out.file[i].by \in Threads /\ out.file[i].n \in Nat
         /\ out.file[i].n <= ToFile(thr[out.file[i].by])
  BY FileFacts DEF FileOK
<1>2. \A i \in DOMAIN out.file : out.file[i].n <= ToFile(thr'[out.file[i].by])
  BY <1>1
<1> QED
  BY <1>2 DEF FileOK

\* A record of a closed debug log raises, and the call ends.
LEMMA RaisedKeeps ==
    ASSUME RecordsInv, NEW t \in Threads, thr[t].pc = "debug",
           fix.logger = "closed", UNCHANGED <<env, fix, runs>>,
           out' = [out EXCEPT !.frameNo = out.frameNo + 1],
           thr' = [thr EXCEPT ![t] = [thr[t] EXCEPT !.pc = "idle", !.queue = <<>>,
                                                    !.asking = FALSE]]
    PROVE  RecordsInv'
<1> DEFINE r == [thr[t] EXCEPT !.pc = "idle", !.queue = <<>>, !.asking = FALSE]
<1>1. thr \in [Threads -> ThreadState] /\ QueueOK /\ OutTyped
  BY DEF RecordsInv, RecordsTyped
<1>2. /\ r \in ThreadState /\ RowOK(t, r) /\ r.pc = "idle" /\ r.made = thr[t].made
      /\ Recorded(r) = thr[t].made
  <2> HIDE DEF r
  <2>1. r = [thr[t] EXCEPT !.pc = "idle", !.queue = <<>>, !.asking = FALSE]
    BY DEF r
  <2> QED
    BY <1>1, <2>1, IdleMoves
<1>3. Moves(t, r)
  BY DEF Moves
<1> HIDE DEF r
<1>4. /\ thr' \in [Threads -> ThreadState] /\ QueueOK' /\ thr'[t] = r
      /\ \A u \in Threads : u # t => thr'[u] = thr[u]
  BY <1>1, <1>2, <1>3, Moved
<1>5. /\ thr[t] \in ThreadState /\ RowOK(t, thr[t]) /\ thr[t].pc \in Recording
  BY <1>1 DEF QueueOK, Recording
<1>6. fix.phase \notin Early /\ fix.phase # "up"
  <2>1. fix.phase \notin Early
    BY NotEarly DEF RecordsInv, PhaseOK
  <2> QED
    BY <2>1 DEF RecordsInv, PhaseOK
<1>7. ToFile(r) >= ToFile(thr[t]) /\ ToFile(r) \in Nat /\ ToFile(thr[t]) \in Nat
  <2>1. Recorded(thr[t]) + 1 <= thr[t].made /\ thr[t].made \in Nat /\ Recorded(thr[t]) \in Nat
    BY <1>5, HeadFrame, RowFacts
  <2> QED
    BY <1>2, <2>1 DEF ToFile
<1>8. out' \in [file : Seq(Frame), captured : Nat, trace : Lines, frameNo : Nat,
                clock : Nat, events : Events]
  BY <1>1 DEF OutTyped
<1>9. out'.file = out.file /\ out'.captured = out.captured /\ out'.trace = out.trace
  BY <1>1 DEF OutTyped
<1>10. FileOK'
  <2>1. \A u \in Threads : /\ ToFile(thr[u]) \in Nat /\ ToFile(thr'[u]) \in Nat
                           /\ ToFile(thr'[u]) >= ToFile(thr[u])
    BY <1>1, <1>4, <1>7, RowFacts DEF QueueOK
  <2> QED
    BY <1>1, <1>9, <2>1, FileStays DEF RecordsInv
<1>11. PhaseOK' /\ TraceOK' /\ HeldOK' /\ KnownOK'
  BY <1>6, <1>9 DEF RecordsInv, PhaseOK, EarlyOK, Early, TraceOK, HeldOK, KnownOK
<1> QED
  BY <1>4, <1>8, <1>10, <1>11 DEF RecordsInv, RecordsTyped, OutTyped

\* A frame goes into the debug log, if there is one.
LEMMA LineKeeps ==
    ASSUME SessionInv, RecordsInv, NEW t \in Threads, thr[t].pc = "debug",
           UNCHANGED <<env, fix, runs>>,
           thr' = [thr EXCEPT ![t] = [thr[t] EXCEPT !.pc = "sink",
                                                    !.stamp = out.clock + 1]],
           out'.file = out.file, out'.captured = out.captured, out'.events = out.events,
           OutTyped',
           \/ fix.logger = "none" /\ out'.trace = out.trace
           \/ /\ fix.logger = "open" /\ out'.frameNo = out.frameNo + 1
              /\ out'.trace = Append(out.trace, [frame  |-> Head(thr[t].queue),
                                                 number |-> out.frameNo + 1])
    PROVE  RecordsInv'
<1> DEFINE f == Head(thr[t].queue)
           line == [frame |-> f, number |-> out.frameNo + 1]
           r == [thr[t] EXCEPT !.pc = "sink", !.stamp = out.clock + 1]
<1>1. thr \in [Threads -> ThreadState] /\ QueueOK /\ OutTyped
  BY DEF RecordsInv, RecordsTyped
<1>2. thr[t] \in ThreadState /\ RowOK(t, thr[t]) /\ thr[t].pc \in Recording
  BY <1>1 DEF QueueOK, Recording
<1>3. /\ f \in Frame /\ f.by = t /\ f.n = Recorded(thr[t]) + 1 /\ f \in Range(thr[t].queue)
      /\ f.n \in Nat /\ Recorded(thr[t]) \in Nat
  BY <1>2, HeadFrame, RowFacts
<1>4. /\ r.pc = "sink" /\ Moves(t, r) /\ r \in ThreadState /\ r.stamp >= 1
      /\ r.made = thr[t].made /\ r.queue = thr[t].queue /\ r.pc \in Recording
  <2>1. out.clock + 1 \in Nat /\ out.clock + 1 >= 1
    BY <1>1, OutFacts
  <2> QED
    BY <1>2, <2>1 DEF Moves, ThreadState, Recording
<1> HIDE DEF f, r
<1>5. RowOK(t, r) /\ Recorded(r) = Recorded(thr[t])
  BY <1>1, <1>2, <1>4, StaysMoves
<1>6. /\ thr' \in [Threads -> ThreadState] /\ QueueOK' /\ thr'[t] = r
      /\ \A u \in Threads : u # t => thr'[u] = thr[u]
  BY <1>1, <1>4, <1>5, Moved
<1>7. /\ ToFile(r) = ToFile(thr[t]) /\ ToTrace(thr[t]) = Recorded(thr[t])
      /\ ToTrace(r) = Recorded(thr[t]) + 1
  BY <1>3, <1>4, <1>5 DEF ToFile, ToTrace
<1>8. \A u \in Threads : /\ ToFile(thr[u]) \in Nat /\ ToTrace(thr[u]) \in Nat
                         /\ thr[u].made \in Nat
                         /\ thr'[u].made = thr[u].made /\ thr'[u].queue = thr[u].queue
                         /\ ToFile(thr'[u]) = ToFile(thr[u])
                         /\ Recorded(thr'[u]) = Recorded(thr[u])
                         /\ ToTrace(thr'[u]) = IF u = t THEN ToTrace(thr[u]) + 1
                                               ELSE ToTrace(thr[u])
  BY <1>1, <1>4, <1>5, <1>6, <1>7, RowFacts DEF QueueOK
<1>9. fix.phase \notin Early
  BY NotEarly DEF RecordsInv, PhaseOK
<1>10. FileOK'
  <2>1. \A u \in Threads : ToFile(thr'[u]) >= ToFile(thr[u]) /\ ToFile(thr'[u]) \in Nat
    BY <1>8
  <2> QED
    BY <1>1, <1>8, <2>1, FileStays DEF RecordsInv
<1>11. PhaseOK'
  BY <1>9, PhaseStays DEF RecordsInv
<1>12. RecordsTyped'
  BY <1>6 DEF RecordsInv, RecordsTyped
<1>13. line \in [frame : Frame, number : Nat] /\ line.frame = f
  <2>1. out.frameNo + 1 \in Nat
    BY <1>1, OutFacts
  <2> QED
    BY <1>3, <2>1
<1>14. /\ out.trace \in Seq([frame : Frame, number : Nat])
       /\ \A x \in [frame : Frame, number : Nat] : x.frame \in Frame
  BY <1>1, OutFacts
<1>15. CASE fix.logger = "none" /\ out'.trace = out.trace
  <2>1. TraceOK'
    BY <1>15 DEF RecordsInv, TraceOK
  <2>2. HeldOK'
    <3>1. fix.phase = "up" => "debug" \notin env.opts
      BY <1>15 DEF RecordsInv, PhaseOK
    <3> QED
      BY <1>8, <1>15, <3>1 DEF RecordsInv, HeldOK
  <2>3. KnownOK'
    <3>1. Known' = Known
      BY <1>8, <1>15 DEF Known, Frames
    <3> QED
      BY <1>1, <1>8, <3>1, KnownStays, KnownTyped DEF RecordsInv
  <2> QED
    BY <1>6, <1>10, <1>11, <1>12, <2>1, <2>2, <2>3 DEF RecordsInv
<1>16. CASE /\ fix.logger = "open" /\ out'.frameNo = out.frameNo + 1
            /\ out'.trace = Append(out.trace, line)
  <2> HIDE DEF line
  <2>1. /\ Len(out.trace) \in Nat /\ Len(out'.trace) = Len(out.trace) + 1
        /\ DOMAIN out.trace = 1..Len(out.trace)
        /\ DOMAIN out'.trace = 1..(Len(out.trace) + 1)
        /\ \A i \in 1..Len(out.trace) : out'.trace[i] = out.trace[i]
        /\ out'.trace[Len(out.trace) + 1] = line
    BY <1>13, <1>14, <1>16, Appended
  <2>2. TraceOK'
    <3>1. out.frameNo = Len(out.trace)
      BY <1>16 DEF RecordsInv, TraceOK
    <3>2. ASSUME NEW i \in DOMAIN out'.trace PROVE out'.trace[i].number = i
      <4>1. CASE i \in 1..Len(out.trace)
        BY <2>1, <4>1 DEF RecordsInv, TraceOK
      <4>2. CASE i = Len(out.trace) + 1
        BY <2>1, <3>1, <4>2 DEF line
      <4> QED
        BY <2>1, <4>1, <4>2, PlacesAfter
    <3> QED
      BY <1>16, <2>1, <3>1, <3>2 DEF TraceOK
  <2>3. /\ Frames(out.trace) \in Seq(Frame)
        /\ Frames(out'.trace) = Append(Frames(out.trace), f)
    BY <1>13, <1>14, <1>16, FramesAppended
  <2>4. HeldOK'
    <3> SUFFICES ASSUME fix'.phase = "up", NEW u \in Threads
                 PROVE  /\ "capture" \in env'.opts => FirstOf(u, out'.file, ToFile(thr'[u]))
                        /\ "debug" \in env'.opts
                              => FirstOf(u, Frames(out'.trace), ToTrace(thr'[u]))
                        /\ "events" \in env'.opts
                              => FirstOf(u, Frames(out'.events), Recorded(thr'[u]))
      BY DEF HeldOK
    <3>1. /\ "debug" \in env.opts => FirstOf(u, Frames(out.trace), ToTrace(thr[u]))
          /\ "capture" \in env'.opts => FirstOf(u, out'.file, ToFile(thr'[u]))
          /\ "events" \in env'.opts => FirstOf(u, Frames(out'.events), Recorded(thr'[u]))
      BY <1>8 DEF RecordsInv, HeldOK
    <3>2. CASE u = t
      <4>1. f.by = u /\ f.n = ToTrace(thr[u]) + 1 /\ ToTrace(thr[u]) \in Nat
        BY <1>3, <1>7, <3>2
      <4>2. "debug" \in env.opts
               => FirstOf(u, Append(Frames(out.trace), f), ToTrace(thr[u]) + 1)
        BY <1>3, <2>3, <3>1, <4>1, NextAppended
      <4>3. ToTrace(thr'[u]) = ToTrace(thr[u]) + 1
        BY <1>8, <3>2
      <4> QED
        BY <2>3, <3>1, <4>2, <4>3
    <3>3. CASE u # t
      BY <1>3, <1>8, <2>3, <3>1, <3>3, OtherAppended
    <3> QED
      BY <3>1, <3>2, <3>3
  <2>5. KnownOK'
    <3>1. Known' \subseteq Known
      <4>1. Range(Frames(out'.trace)) = Range(Frames(out.trace)) \cup {f}
        BY <1>3, <2>3, RangeAppended
      <4>2. f \in Known
        BY <1>3 DEF Known
      <4>3. Range(Frames(out.trace)) \subseteq Known
        BY DEF Known
      <4>4. UNCHANGED <<Range(out.file), Range(Frames(out.events))>>
        BY DEF Frames
      <4>5. \A u \in Threads : Range(thr'[u].queue) = Range(thr[u].queue)
        BY <1>8
      <4> QED
        BY <4>1, <4>2, <4>3, <4>4, <4>5 DEF Known
    <3> QED
      BY <1>1, <1>8, <3>1, KnownStays, KnownTyped DEF RecordsInv
  <2> QED
    BY <1>6, <1>10, <1>11, <1>12, <2>2, <2>4, <2>5 DEF RecordsInv
<1> QED
  BY <1>15, <1>16 DEF line, f

\* What has been written, a line later.
LEMMA LineWritten ==
    ASSUME NEW o, NEW longer \in Lines, NEW n \in Nat, NEW c \in Nat,
           o \in [file : Seq(Frame), captured : Nat, trace : Lines, frameNo : Nat,
                  clock : Nat, events : Events]
    PROVE  \A p : p = [[o EXCEPT !.frameNo = n, !.trace = longer] EXCEPT !.clock = c] =>
              /\ p \in [file : Seq(Frame), captured : Nat, trace : Lines, frameNo : Nat,
                        clock : Nat, events : Events]
              /\ p.file = o.file /\ p.captured = o.captured /\ p.events = o.events
              /\ p.trace = longer /\ p.frameNo = n
<1> DEFINE Outs == [file : Seq(Frame), captured : Nat, trace : Lines, frameNo : Nat,
                    clock : Nat, events : Events]
           a == [o EXCEPT !.frameNo = n]
           b == [a EXCEPT !.trace = longer]
           q == [b EXCEPT !.clock = c]
<1>1. [[o EXCEPT !.frameNo = n, !.trace = longer] EXCEPT !.clock = c] = q
  BY Zenon
<1>2. /\ a \in Outs /\ a.frameNo = n
      /\ a.file = o.file /\ a.captured = o.captured /\ a.events = o.events
  OBVIOUS
<1> HIDE DEF a
<1>3. /\ b \in Outs /\ b.frameNo = n /\ b.trace = longer
      /\ b.file = o.file /\ b.captured = o.captured /\ b.events = o.events
  BY <1>2
<1> HIDE DEF b
<1>4. /\ q \in Outs /\ q.frameNo = n /\ q.trace = longer
      /\ q.file = o.file /\ q.captured = o.captured /\ q.events = o.events
  BY <1>3
<1> HIDE DEF q
<1> QED
  BY <1>1, <1>4, Zenon

\* The debug log's step of a thread.
LEMMA DebugKeeps ==
    ASSUME SessionInv, RecordsInv, NEW t \in Threads, RecordDebug(t)
    PROVE  RecordsInv'
<1> DEFINE line == [frame |-> Head(thr[t].queue), number |-> out.frameNo + 1]
           trace1 == IF fix.logger = "open" THEN Append(out.trace, line) ELSE out.trace
           out1 == IF fix.logger = "none" THEN out
                   ELSE [out EXCEPT !.frameNo = out.frameNo + 1, !.trace = trace1]
<1>1. /\ thr[t].pc = "debug" /\ UNCHANGED <<env, fix, plot, runs>>
      /\ \/ /\ fix.logger = "closed" /\ out' = out1
            /\ thr' = [thr EXCEPT ![t] = [thr[t] EXCEPT !.pc = "idle", !.queue = <<>>,
                                                        !.asking = FALSE]]
         \/ /\ fix.logger # "closed" /\ out' = [out1 EXCEPT !.clock = out1.clock + 1]
            /\ thr' = [thr EXCEPT ![t] = [thr[t] EXCEPT !.pc = "sink",
                                                        !.stamp = out.clock + 1]]
  BY DEF RecordDebug, NextFrame
<1>2. /\ OutTyped /\ thr \in [Threads -> ThreadState] /\ QueueOK
      /\ fix.logger \in {"none", "open", "closed"}
  BY DEF RecordsInv, RecordsTyped, SessionInv, FixtureOK
<1>3. /\ out.trace \in Lines /\ out.frameNo \in Nat /\ out.clock \in Nat
      /\ out \in [file : Seq(Frame), captured : Nat, trace : Lines, frameNo : Nat,
                  clock : Nat, events : Events]
  BY <1>2, OutFacts DEF OutTyped, Lines
<1>4. Append(out.trace, line) \in Lines
  <2>1. Head(thr[t].queue) \in Frame
    BY <1>1, <1>2, HeadFrame DEF QueueOK, Recording
  <2>2. line \in [frame : Frame, number : Nat]
    BY <1>3, <2>1
  <2> HIDE DEF line
  <2> QED
    BY <1>3, <2>2 DEF Lines
<1> HIDE DEF line
<1>5. CASE fix.logger = "closed"
  <2>1. out' = [out EXCEPT !.frameNo = out.frameNo + 1]
    <3>1. out' = [out EXCEPT !.frameNo = out.frameNo + 1, !.trace = out.trace]
      BY <1>1, <1>5
    <3> QED
      BY <1>3, <3>1
  <2> QED
    BY <1>1, <1>5, <2>1, RaisedKeeps
<1>6. CASE fix.logger = "none"
  <2>1. out' = [out EXCEPT !.clock = out.clock + 1]
    BY <1>1, <1>6
  <2>2. /\ out' \in [file : Seq(Frame), captured : Nat, trace : Lines, frameNo : Nat,
                     clock : Nat, events : Events]
        /\ out'.file = out.file /\ out'.captured = out.captured /\ out'.events = out.events
        /\ out'.trace = out.trace
    BY <1>3, <2>1
  <2>3. OutTyped'
    BY <2>2 DEF OutTyped
  <2> QED
    BY <1>1, <1>6, <2>2, <2>3, LineKeeps
<1>7. CASE fix.logger = "open"
  <2>1. /\ out1 = [out EXCEPT !.frameNo = out.frameNo + 1,
                              !.trace = Append(out.trace, line)]
        /\ out' = [out1 EXCEPT !.clock = out1.clock + 1]
    BY <1>1, <1>7
  <2>2. /\ out' \in [file : Seq(Frame), captured : Nat, trace : Lines, frameNo : Nat,
                     clock : Nat, events : Events]
        /\ out'.file = out.file /\ out'.captured = out.captured /\ out'.events = out.events
        /\ out'.trace = Append(out.trace, line) /\ out'.frameNo = out.frameNo + 1
    <3>1. out' = [[out EXCEPT !.frameNo = out.frameNo + 1, !.trace = Append(out.trace, line)]
                      EXCEPT !.clock = out.clock + 1]
      <4>1. out1.clock = out.clock
        BY <1>3, <2>1
      <4> QED
        BY <2>1, <4>1, Zenon
    <3>2. out.frameNo + 1 \in Nat /\ out.clock + 1 \in Nat
      BY <1>3
    <3> QED
      BY <1>3, <1>4, <3>1, <3>2, LineWritten, Zenon
  <2>3. OutTyped'
    BY <2>2 DEF OutTyped
  <2>4. out'.trace = Append(out.trace, [frame |-> Head(thr[t].queue),
                                        number |-> out.frameNo + 1])
    BY <2>2 DEF line
  <2> QED
    BY <1>1, <1>7, <2>2, <2>3, <2>4, LineKeeps
<1> QED
  BY <1>2, <1>5, <1>6, <1>7

\* A frame goes to the sinks, and its thread on to the next.
LEMMA SinkKeeps ==
    ASSUME SessionInv, RecordsInv, NEW t \in Threads, RecordSink(t)
    PROVE  RecordsInv'
<1> DEFINE f == Head(thr[t].queue)
           event == [frame |-> f, at |-> thr[t].stamp]
           r == [thr[t] EXCEPT !.queue = Tail(thr[t].queue), !.asking = FALSE,
                     !.pc = IF Tail(thr[t].queue) # <<>> THEN "pcap"
                            ELSE IF thr[t].asking THEN "srp1" ELSE "idle"]
<1>1. /\ thr \in [Threads -> ThreadState] /\ QueueOK /\ OutTyped
      /\ fix.writer \in {"none", "open", "closed"}
  BY DEF RecordsInv, RecordsTyped, SessionInv, FixtureOK
<1>2. /\ thr[t].pc = "sink" /\ UNCHANGED <<env, fix, plot, runs>> /\ Moves(t, r)
      /\ out' = IF fix.writer = "none" \/ fix.writer = "closed" THEN out
                ELSE [out EXCEPT !.events = Append(@, event)]
  BY DEF RecordSink, Drops, Moves
<1>3. thr[t] \in ThreadState /\ RowOK(t, thr[t]) /\ thr[t].pc \in Recording
  BY <1>1, <1>2 DEF QueueOK, Recording
<1>4. /\ f \in Frame /\ f.by = t /\ f.n = Recorded(thr[t]) + 1 /\ f \in Range(thr[t].queue)
      /\ f.n \in Nat /\ Recorded(thr[t]) \in Nat
  BY <1>3, HeadFrame, RowFacts
<1>5. /\ r \in ThreadState /\ RowOK(t, r) /\ r.pc \notin {"debug", "sink"}
      /\ r.made = thr[t].made /\ Recorded(r) = Recorded(thr[t]) + 1
      /\ Range(r.queue) \subseteq Range(thr[t].queue)
  <2> DEFINE q == r
  <2>1. q = r
    OBVIOUS
  <2> HIDE DEF q
  <2>2. /\ q \in ThreadState /\ RowOK(t, q) /\ q.pc \notin {"debug", "sink"}
        /\ q.made = thr[t].made /\ Recorded(q) = Recorded(thr[t]) + 1
        /\ Range(q.queue) \subseteq Range(thr[t].queue)
    BY <1>1, <1>3, <2>1, NextMoves
  <2> QED
    BY <2>1, <2>2
<1>6. event \in [frame : Frame, at : Nat] /\ event.frame = f
  BY <1>3, <1>4 DEF ThreadState
<1> HIDE DEF f, event, r
<1>7. /\ thr' \in [Threads -> ThreadState] /\ QueueOK' /\ thr'[t] = r
      /\ \A u \in Threads : u # t => thr'[u] = thr[u]
  BY <1>1, <1>2, <1>5, Moved
<1>8. /\ ToFile(r) = ToFile(thr[t]) /\ ToTrace(r) = ToTrace(thr[t])
  BY <1>2, <1>4, <1>5 DEF ToFile, ToTrace
<1>9. \A u \in Threads : /\ ToFile(thr[u]) \in Nat /\ Recorded(thr[u]) \in Nat
                         /\ thr[u].made \in Nat /\ thr'[u].made = thr[u].made
                         /\ Range(thr'[u].queue) \subseteq Range(thr[u].queue)
                         /\ ToFile(thr'[u]) = ToFile(thr[u])
                         /\ ToTrace(thr'[u]) = ToTrace(thr[u])
                         /\ Recorded(thr'[u]) = IF u = t THEN Recorded(thr[u]) + 1
                                                ELSE Recorded(thr[u])
  BY <1>1, <1>5, <1>7, <1>8, RowFacts DEF QueueOK
<1>10. fix.phase \notin Early
  BY <1>2, NotEarly DEF RecordsInv, PhaseOK
<1>11. /\ out'.file = out.file /\ out'.captured = out.captured /\ out'.trace = out.trace
       /\ out'.frameNo = out.frameNo
       /\ \/ fix.writer # "open" /\ out'.events = out.events
          \/ fix.writer = "open" /\ out'.events = Append(out.events, event)
  BY <1>1, <1>2 DEF OutTyped
<1>12. /\ out.events \in Seq([frame : Frame, at : Nat])
       /\ \A x \in [frame : Frame, at : Nat] : x.frame \in Frame
  BY <1>1, OutFacts
<1>13. OutTyped'
  <2>1. Append(out.events, event) \in Events
    BY <1>6, <1>12 DEF Events
  <2> QED
    BY <1>1, <1>2, <2>1 DEF OutTyped
<1>14. RecordsTyped'
  BY <1>2, <1>7, <1>13 DEF RecordsInv, RecordsTyped
<1>15. FileOK'
  <2>1. \A u \in Threads : ToFile(thr'[u]) >= ToFile(thr[u]) /\ ToFile(thr'[u]) \in Nat
    BY <1>9
  <2> QED
    BY <1>1, <1>2, <1>9, <1>11, <2>1, FileStays DEF RecordsInv
<1>16. PhaseOK' /\ TraceOK'
  BY <1>2, <1>10, <1>11, PhaseStays DEF RecordsInv, TraceOK
<1>17. /\ Frames(out.events) \in Seq(Frame)
       /\ Frames(Append(out.events, event)) = Append(Frames(out.events), f)
  BY <1>6, <1>12, FramesAppended
<1>18. HeldOK'
  <2> SUFFICES ASSUME fix'.phase = "up", NEW u \in Threads
               PROVE  /\ "capture" \in env'.opts => FirstOf(u, out'.file, ToFile(thr'[u]))
                      /\ "debug" \in env'.opts
                            => FirstOf(u, Frames(out'.trace), ToTrace(thr'[u]))
                      /\ "events" \in env'.opts
                            => FirstOf(u, Frames(out'.events), Recorded(thr'[u]))
    BY DEF HeldOK
  <2>1. /\ "events" \in env.opts => FirstOf(u, Frames(out.events), Recorded(thr[u]))
        /\ "capture" \in env'.opts => FirstOf(u, out'.file, ToFile(thr'[u]))
        /\ "debug" \in env'.opts => FirstOf(u, Frames(out'.trace), ToTrace(thr'[u]))
    BY <1>2, <1>9, <1>11 DEF RecordsInv, HeldOK
  <2>2. "events" \in env.opts => Frames(out'.events) = Append(Frames(out.events), f)
    <3>1. "events" \in env.opts => fix.writer = "open"
      BY <1>2 DEF RecordsInv, PhaseOK
    <3> QED
      BY <1>11, <1>17, <3>1
  <2>3. CASE u = t
    <3>1. f.by = u /\ f.n = Recorded(thr[u]) + 1 /\ Recorded(thr[u]) \in Nat
      BY <1>4, <2>3
    <3>2. "events" \in env.opts
             => FirstOf(u, Append(Frames(out.events), f), Recorded(thr[u]) + 1)
      BY <1>4, <1>17, <2>1, <3>1, NextAppended
    <3>3. Recorded(thr'[u]) = Recorded(thr[u]) + 1
      BY <1>9, <2>3
    <3> QED
      BY <1>2, <2>1, <2>2, <3>2, <3>3
  <2>4. CASE u # t
    <3>1. "events" \in env.opts
             => FirstOf(u, Append(Frames(out.events), f), Recorded(thr[u]))
      BY <1>4, <1>17, <2>1, <2>4, OtherAppended
    <3>2. Recorded(thr'[u]) = Recorded(thr[u])
      BY <1>9, <2>4
    <3> QED
      BY <1>2, <2>1, <2>2, <3>1, <3>2
  <2> QED
    BY <2>3, <2>4
<1>19. KnownOK'
  <2>1. Known' \subseteq Known
    <3>1. Range(Frames(out'.events)) \subseteq Range(Frames(out.events)) \cup {f}
      <4>1. Range(Append(Frames(out.events), f)) = Range(Frames(out.events)) \cup {f}
        BY <1>4, <1>17, RangeAppended
      <4> QED
        BY <1>11, <1>17, <4>1
    <3>2. f \in Known
      BY <1>4 DEF Known
    <3>3. Range(Frames(out.events)) \subseteq Known
      BY DEF Known
    <3>4. UNCHANGED <<Range(out.file), Range(Frames(out.trace))>>
      BY <1>11 DEF Frames
    <3> QED
      BY <1>9, <3>1, <3>2, <3>3, <3>4 DEF Known
  <2>2. \A u \in Threads : thr'[u].made >= thr[u].made /\ thr'[u].made \in Nat
    BY <1>9
  <2> QED
    BY <1>1, <1>2, <1>9, <2>1, <2>2, KnownStays, KnownTyped DEF RecordsInv
<1> QED
  BY <1>7, <1>14, <1>15, <1>16, <1>18, <1>19 DEF RecordsInv

-----------------------------------------------------------------------------
(***************************************************************************)
(* The steps of the fixture, and a new run.                                *)
(***************************************************************************)
\* A step of the fixture that leaves the interface as it is, or closes it.
LEMMA FixtureKeeps ==
    ASSUME RecordsInv, UNCHANGED <<env, thr, out, plot, runs>>, PhaseOK',
           fix'.late = fix.late, fix'.phase = "up" => fix.phase = "up",
           fix'.logger = "open" => fix.logger = "open"
    PROVE  RecordsInv'
<1>1. RecordsTyped' /\ QueueOK' /\ TraceOK'
  BY DEF RecordsInv, RecordsTyped, OutTyped, QueueOK, TraceOK
<1>2. FileOK'
  BY DEF RecordsInv, FileOK
<1>3. HeldOK'
  BY DEF RecordsInv, HeldOK
<1>4. KnownOK'
  <2>1. Known' = Known
    BY DEF Known, Frames
  <2> HIDE DEF Known
  <2> QED
    BY <2>1 DEF RecordsInv, KnownOK
<1> QED
  BY <1>1, <1>2, <1>3, <1>4 DEF RecordsInv

\* Nothing is written, and no thread has a frame.
LEMMA NothingKept ==
    out = NoOutput /\ thr = IdleThreads =>
       /\ OutTyped /\ thr \in [Threads -> ThreadState] /\ QueueOK /\ FileOK /\ TraceOK
       /\ HeldOK /\ KnownOK
<1> SUFFICES ASSUME out = NoOutput, thr = IdleThreads
             PROVE  /\ OutTyped /\ thr \in [Threads -> ThreadState] /\ QueueOK /\ FileOK
                    /\ TraceOK /\ HeldOK /\ KnownOK
  OBVIOUS
<1>1. /\ out.file = <<>> /\ out.trace = <<>> /\ out.events = <<>>
      /\ out.captured = 0 /\ out.frameNo = 0 /\ out.clock = 0
  BY DEF NoOutput
<1>2. \A t \in Threads : /\ thr[t].pc = "idle" /\ thr[t].queue = <<>> /\ thr[t].made = 0
                         /\ thr[t] = [pc |-> "idle", queue |-> <<>>, asking |-> FALSE,
                                      made |-> 0, stamp |-> 0]
  BY DEF IdleThreads
<1>3. Frames(<<>>) = <<>>
  BY DEF Frames
<1>4. OutTyped
  BY DEF OutTyped, NoOutput, Lines, Events
<1>5. thr \in [Threads -> ThreadState]
  <2>1. [pc |-> "idle", queue |-> <<>>, asking |-> FALSE, made |-> 0, stamp |-> 0]
           \in ThreadState
    BY SessionAssumption DEF ThreadState
  <2> QED
    BY <2>1 DEF IdleThreads
<1>6. QueueOK
  BY <1>2 DEF QueueOK, RowOK, Recording
<1>7. \A t \in Threads : ToFile(thr[t]) = 0 /\ ToTrace(thr[t]) = 0 /\ Recorded(thr[t]) = 0
  <2> SUFFICES ASSUME NEW t \in Threads
               PROVE  ToFile(thr[t]) = 0 /\ ToTrace(thr[t]) = 0 /\ Recorded(thr[t]) = 0
    OBVIOUS
  <2>1. Len(thr[t].queue) = 0 /\ thr[t].made = 0
    BY <1>2
  <2> QED
    BY <1>2, <2>1 DEF ToFile, ToTrace, Recorded
<1>8. FileOK
  BY <1>1, NoneOf DEF FileOK
<1>9. TraceOK
  BY <1>1 DEF TraceOK
<1>10. HeldOK
  BY <1>1, <1>3, <1>7, NoneOf DEF HeldOK
<1>11. KnownOK
  <2>1. Range(<<>>) = {}
    BY DEF Range
  <2>2. \A t \in Threads : Range(thr[t].queue) = {}
    BY <1>2, <2>1
  <2>3. UNION {Range(thr[t].queue) : t \in Threads} = {}
    BY <2>2
  <2>4. Known = {}
    BY <1>1, <1>3, <2>1, <2>3 DEF Known
  <2> HIDE DEF Known
  <2> QED
    BY <2>4 DEF KnownOK
<1> QED
  BY <1>4, <1>5, <1>6, <1>8, <1>9, <1>10, <1>11

\* The fixture opens or closes something, or a step of it raises.
LEMMA FixtureStep ==
    ASSUME SessionInv, RecordsInv,
           \/ SetupRaises \/ OpenWriter \/ StartGuard
           \/ CloseInterface \/ CloseWriter \/ StopGuard \/ Unconfigure
    PROVE  RecordsInv'
<1>1. FixtureOK /\ PhaseOK
  BY DEF SessionInv, RecordsInv
<1> USE DEF Session, FixtureOK, PhaseOK, EarlyOK
<1>2. CASE SetupRaises
  BY <1>1, <1>2, FixtureKeeps DEF SetupRaises
<1>3. CASE OpenWriter
  BY <1>1, <1>3, FixtureKeeps DEF OpenWriter
<1>4. CASE StartGuard
  BY <1>1, <1>4, FixtureKeeps DEF StartGuard
<1>5. CASE CloseInterface
  BY <1>1, <1>5, FixtureKeeps DEF CloseInterface
<1>6. CASE CloseWriter
  BY <1>1, <1>6, FixtureKeeps DEF CloseWriter
<1>7. CASE StopGuard
  BY <1>1, <1>7, FixtureKeeps DEF StopGuard
<1>8. CASE Unconfigure
  BY <1>1, <1>8, FixtureKeeps DEF Unconfigure
<1> QED
  BY <1>2, <1>3, <1>4, <1>5, <1>6, <1>7, <1>8

\* The interface is there, and no frame has been recorded.
LEMMA InterfaceOpens ==
    ASSUME SessionInv, RecordsInv, OpenInterface
    PROVE  RecordsInv'
<1>1. /\ fix.phase = "guarded" /\ fix' = [fix EXCEPT !.phase = "up"]
      /\ UNCHANGED <<env, thr, out, plot, runs>>
  BY DEF OpenInterface, Session
<1>2. FixtureOK /\ PhaseOK /\ RecordsTyped
  BY DEF SessionInv, RecordsInv
<1>3. out = NoOutput /\ thr = IdleThreads
  BY <1>1, <1>2 DEF PhaseOK, EarlyOK
<1>4. /\ OutTyped' /\ thr' \in [Threads -> ThreadState] /\ QueueOK' /\ FileOK' /\ TraceOK'
      /\ HeldOK' /\ KnownOK'
  <2>1. (out = NoOutput /\ thr = IdleThreads)'
    BY <1>1, <1>3 DEF NoOutput, IdleThreads
  <2>2. (/\ OutTyped /\ thr \in [Threads -> ThreadState] /\ QueueOK /\ FileOK /\ TraceOK
         /\ HeldOK /\ KnownOK)'
    BY <2>1, NothingKept, PTL
  <2> QED
    BY <2>2
<1>5. RecordsTyped'
  BY <1>1, <1>2, <1>4 DEF RecordsTyped
<1>6. PhaseOK'
  <2>1. out.file = <<>>
    BY <1>3 DEF NoOutput
  <2> QED
    BY <1>1, <1>2, <2>1 DEF PhaseOK, EarlyOK, FixtureOK
<1> QED
  BY <1>4, <1>5, <1>6 DEF RecordsInv

\* A new run has written nothing.
LEMMA RunRecords ==
    (/\ env \in Env /\ runs \in 1..MaxRuns /\ fix = NewFixture(env)
     /\ thr = IdleThreads /\ out = NoOutput) => RecordsInv
<1> SUFFICES ASSUME env \in Env, runs \in 1..MaxRuns, fix = NewFixture(env),
                    thr = IdleThreads, out = NoOutput
             PROVE  RecordsInv
  OBVIOUS
<1>1. PhaseOK
  BY DEF PhaseOK, EarlyOK, NewFixture
<1>2. RecordsTyped
  BY NothingKept DEF RecordsTyped
<1> QED
  BY <1>1, <1>2, NothingKept DEF RecordsInv

\* So has the first.
LEMMA InitRecordsInv == SessionInit => RecordsInv
<1> SUFFICES ASSUME SessionInit PROVE RecordsInv
  OBVIOUS
<1>1. 1 \in 1..MaxRuns
  BY SessionAssumption
<1> QED
  BY <1>1, RunRecords DEF SessionInit

\* A step of a thread.
LEMMA ThreadKeeps ==
    ASSUME SessionInv, RecordsInv, NEW t \in Threads,
           \/ Send(t) \/ SendReceive(t) \/ Sniff(t) \/ Srp1(t)
           \/ RecordPcap(t) \/ RecordDebug(t) \/ RecordSink(t)
    PROVE  RecordsInv'
<1>1. /\ <<"SENT">> \in Seq(Directions) /\ Len(<<"SENT">>) >= 1
      /\ <<"RECEIVED">> \in Seq(Directions) /\ Len(<<"RECEIVED">>) >= 1
      /\ TRUE \in BOOLEAN /\ FALSE \in BOOLEAN
  BY DEF Directions
<1>2. CASE Send(t)
  BY <1>1, <1>2, RecordsKeeps DEF Send
<1>3. CASE SendReceive(t)
  BY <1>1, <1>3, RecordsKeeps DEF SendReceive
<1>4. CASE Sniff(t)
  <2>1. PICK k \in 1..MaxSessionFrames :
           Calls(t) /\ Records(t, [i \in 1..k |-> "RECEIVED"], FALSE)
    BY <1>4 DEF Sniff
  <2> DEFINE dirs == [i \in 1..k |-> "RECEIVED"]
  <2>2. dirs \in Seq(Directions) /\ Len(dirs) >= 1
    <3>1. k \in Nat /\ k >= 1
      BY SessionAssumption
    <3> QED
      BY <3>1 DEF Directions
  <2> HIDE DEF dirs
  <2>3. Calls(t) /\ Records(t, dirs, FALSE)
    BY <2>1 DEF dirs
  <2> QED
    BY <1>1, <2>2, <2>3, RecordsKeeps
<1>5. CASE Srp1(t)
  <2>1. CASE Records(t, <<"RECEIVED">>, FALSE)
    BY <1>1, <1>5, <2>1, RecordsKeeps DEF Srp1
  <2>2. CASE /\ thr' = [thr EXCEPT ![t].pc = "idle"]
             /\ UNCHANGED <<env, fix, out, plot, runs>>
    BY <1>5, <2>2, SilenceKeeps DEF Srp1
  <2> QED
    BY <1>5, <2>1, <2>2 DEF Srp1
<1> QED
  BY <1>2, <1>3, <1>4, <1>5, PcapKeeps, DebugKeeps, SinkKeeps

\* Every step of the specification preserves the invariant.
LEMMA NextRecordsInv ==
    SessionInv /\ RecordsInv /\ [SessionNext]_sessionVars => RecordsInv'
<1> SUFFICES ASSUME SessionInv, RecordsInv, [SessionNext]_sessionVars PROVE RecordsInv'
  OBVIOUS
<1>1. CASE \/ SetupRaises \/ OpenWriter \/ StartGuard \/ OpenInterface
           \/ CloseInterface \/ CloseWriter \/ StopGuard \/ Unconfigure
  BY <1>1, FixtureStep, InterfaceOpens
<1>2. CASE \E t \in Threads :
              \/ Send(t) \/ SendReceive(t) \/ Sniff(t)
              \/ Srp1(t) \/ RecordPcap(t) \/ RecordDebug(t)
              \/ RecordSink(t)
  BY <1>2, ThreadKeeps
<1>3. CASE Add \/ Done \/ UNCHANGED sessionVars
  <2>1. UNCHANGED <<env, fix, thr, out, runs>>
    BY <1>3 DEF Add, Done, sessionVars
  <2>2. Known' = Known
    BY <2>1 DEF Known, Frames
  <2>3. RecordsTyped' /\ QueueOK' /\ TraceOK' /\ PhaseOK' /\ FileOK' /\ HeldOK'
    BY <2>1 DEF RecordsInv, RecordsTyped, OutTyped, QueueOK, TraceOK, PhaseOK, EarlyOK,
                FileOK, HeldOK
  <2> HIDE DEF Known
  <2>4. KnownOK'
    BY <2>1, <2>2 DEF RecordsInv, KnownOK
  <2> QED
    BY <2>3, <2>4 DEF RecordsInv
<1>4. CASE StartRun
  <2>1. /\ env' \in Env /\ fix' = NewFixture(env') /\ thr' = IdleThreads /\ out' = NoOutput
        /\ runs' = runs + 1 /\ runs < MaxRuns
    BY <1>4 DEF StartRun
  <2>2. runs' \in 1..MaxRuns
    BY <2>1, SessionAssumption DEF RecordsInv, RecordsTyped
  <2>3. (/\ env \in Env /\ runs \in 1..MaxRuns /\ fix = NewFixture(env)
         /\ thr = IdleThreads /\ out = NoOutput)'
    BY <2>1, <2>2 DEF NewFixture, IdleThreads, NoOutput
  <2> QED
    BY <2>3, RunRecords, PTL
<1> QED
  BY <1>1, <1>2, <1>3, <1>4 DEF SessionNext

-----------------------------------------------------------------------------
(***************************************************************************)
(* The live plot.                                                          *)
(***************************************************************************)
\* A step of a thread appends at most one event, stamped.
Grows == \/ out'.events = out.events
         \/ \E e \in [frame : Frame, at : Nat] :
               e.at >= 1 /\ out'.events = Append(out.events, e)

\* A line of the debug log is no event.
LEMMA DebugGrows ==
    ASSUME SessionInv, RecordsInv, NEW t \in Threads, RecordDebug(t)
    PROVE  out'.events = out.events
<1> DEFINE line == [frame |-> Head(thr[t].queue), number |-> out.frameNo + 1]
           trace1 == IF fix.logger = "open" THEN Append(out.trace, line) ELSE out.trace
           out1 == IF fix.logger = "none" THEN out
                   ELSE [out EXCEPT !.frameNo = out.frameNo + 1, !.trace = trace1]
<1>1. /\ thr[t].pc = "debug"
      /\ \/ out' = out1
         \/ out' = [out1 EXCEPT !.clock = out1.clock + 1]
  BY DEF RecordDebug, NextFrame
<1>2. /\ OutTyped /\ thr \in [Threads -> ThreadState] /\ QueueOK
  BY DEF RecordsInv, RecordsTyped
<1>3. out \in [file : Seq(Frame), captured : Nat, trace : Lines, frameNo : Nat,
               clock : Nat, events : Events]
  BY <1>2 DEF OutTyped
<1> HIDE DEF trace1
<1>4. DOMAIN out1 = DOMAIN out /\ out1.events = out.events /\ "events" \in DOMAIN out
  BY <1>3
<1> HIDE DEF out1
<1> QED
  BY <1>1, <1>4

\* Nor is anything else, but what goes to the sinks.
LEMMA ThreadGrows ==
    ASSUME SessionInv, RecordsInv, NEW t \in Threads,
           \/ Send(t) \/ SendReceive(t) \/ Sniff(t) \/ Srp1(t)
           \/ RecordPcap(t) \/ RecordDebug(t) \/ RecordSink(t)
    PROVE  Grows /\ UNCHANGED plot
<1>1. OutTyped /\ thr \in [Threads -> ThreadState] /\ QueueOK
  BY DEF RecordsInv, RecordsTyped
<1>2. CASE Send(t) \/ SendReceive(t) \/ Sniff(t) \/ Srp1(t)
  BY <1>2 DEF Send, SendReceive, Sniff, Srp1, Records, Grows
<1>3. CASE RecordPcap(t)
  <2> DEFINE file1 == Append(Opened, Head(thr[t].queue))
  <2>1. /\ UNCHANGED plot
        /\ \/ out' = [out EXCEPT !.file = file1, !.captured = out.captured + 1]
           \/ out' = out
    BY <1>3 DEF RecordPcap
  <2> HIDE DEF file1
  <2> QED
    BY <1>1, <2>1 DEF OutTyped, Grows
<1>4. CASE RecordDebug(t)
  BY <1>4, DebugGrows DEF RecordDebug, Grows
<1>5. CASE RecordSink(t)
  <2> DEFINE f == Head(thr[t].queue)
             event == [frame |-> f, at |-> thr[t].stamp]
  <2>1. /\ thr[t].pc = "sink" /\ UNCHANGED plot
        /\ \/ out' = out
           \/ out' = [out EXCEPT !.events = Append(out.events, event)]
    BY <1>5 DEF RecordSink
  <2>2. thr[t] \in ThreadState /\ RowOK(t, thr[t]) /\ thr[t].pc \in Recording
    BY <1>1, <2>1 DEF QueueOK, Recording
  <2>3. f \in Frame /\ thr[t].stamp \in Nat /\ thr[t].stamp >= 1
    BY <2>1, <2>2, HeadFrame, RowFacts DEF RowOK
  <2>4. event \in [frame : Frame, at : Nat] /\ event.at >= 1
    BY <2>3
  <2> HIDE DEF event
  <2>5. out'.events = out.events \/ out'.events = Append(out.events, event)
    BY <1>1, <2>1 DEF OutTyped
  <2> QED
    BY <2>1, <2>4, <2>5 DEF Grows
<1> QED
  BY <1>2, <1>3, <1>4, <1>5

\* How many of the first events are of frames sent.
LEMMA SentCount ==
    ASSUME OutTyped, NEW k \in Nat
    PROVE  /\ SentUpto(k) \in Nat /\ SentUpto(0) = 0
           /\ SentUpto(k + 1) = SentUpto(k)
                + IF out.events[k + 1].frame.direction = "SENT" THEN 1 ELSE 0
<1> DEFINE Upto(n) == {i \in 1..n : out.events[i].frame.direction = "SENT"}
<1>1. \A n \in Nat : IsFiniteSet(Upto(n)) /\ Cardinality(Upto(n)) \in Nat
  <2> SUFFICES ASSUME NEW n \in Nat
               PROVE  IsFiniteSet(Upto(n)) /\ Cardinality(Upto(n)) \in Nat
    OBVIOUS
  <2>1. IsFiniteSet(1..n)
    BY FS_Interval
  <2>2. Upto(n) \subseteq 1..n
    OBVIOUS
  <2>3. IsFiniteSet(Upto(n))
    BY <2>1, <2>2, FS_Subset
  <2> QED
    BY <2>3, FS_CardinalityType
<1>2. Upto(0) = {}
  OBVIOUS
<1>3. /\ k + 1 \notin Upto(k)
      /\ Upto(k + 1) = IF out.events[k + 1].frame.direction = "SENT"
                       THEN Upto(k) \cup {k + 1} ELSE Upto(k)
  <2>1. \A i : i \in 1..(k + 1) <=> i \in 1..k \/ i = k + 1
    OBVIOUS
  <2>2. k + 1 \notin 1..k
    OBVIOUS
  <2> QED
    BY <2>1, <2>2
<1>4. SentUpto(k) = Cardinality(Upto(k)) /\ SentUpto(k + 1) = Cardinality(Upto(k + 1))
      /\ SentUpto(0) = Cardinality(Upto(0))
  BY DEF SentUpto
<1> HIDE DEF Upto
<1>5. CASE out.events[k + 1].frame.direction = "SENT"
  <2>1. Cardinality(Upto(k) \cup {k + 1}) = Cardinality(Upto(k)) + 1
    BY <1>1, <1>3, FS_AddElement
  <2> QED
    BY <1>1, <1>2, <1>3, <1>4, <1>5, <2>1, FS_EmptySet
<1>6. CASE out.events[k + 1].frame.direction # "SENT"
  BY <1>1, <1>2, <1>3, <1>4, <1>6, FS_EmptySet
<1> QED
  BY <1>5, <1>6

\* The curves, one by one.
LEMMA CurveIs ==
    ASSUME NEW k
    PROVE  /\ Curve("elapsed", k) = out.events[k].at - out.events[1].at
           /\ Curve("sent", k) = SentUpto(k) /\ Curve("bytesSent", k) = SentUpto(k)
           /\ Curve("received", k) = k - SentUpto(k)
           /\ Curve("bytesReceived", k) = 2 * (k - SentUpto(k))
           /\ \A s \in Counters : Curve(s, k) = Total(s, k)
BY DEF Curve, Total, Counters

\* The places of a sequence and what is there.
LEMMA ElementOf ==
    ASSUME NEW S, NEW s \in Seq(S)
    PROVE  /\ Len(s) \in Nat /\ DOMAIN s = 1..Len(s)
           /\ \A i \in 1..Len(s) : s[i] \in S
OBVIOUS

\* An event has a frame and a stamp.
LEMMA EventFacts ==
    ASSUME OutTyped
    PROVE  /\ Len(out.events) \in Nat /\ DOMAIN out.events = 1..Len(out.events)
           /\ \A i \in 1..Len(out.events) : out.events[i].at \in Nat
<1>1. out.events \in Seq([frame : Frame, at : Nat])
  BY OutFacts
<1>2. /\ Len(out.events) \in Nat /\ DOMAIN out.events = 1..Len(out.events)
      /\ \A i \in 1..Len(out.events) : out.events[i] \in [frame : Frame, at : Nat]
  BY <1>1, ElementOf
<1> QED
  BY <1>2

\* A curve is a curve of numbers.
LEMMA CurveTyped ==
    ASSUME OutTyped, NEW k \in 1..Len(out.events), NEW s \in Series
    PROVE  Curve(s, k) \in Int
<1>1. SentUpto(k) \in Nat /\ k \in Nat /\ out.events[k].at \in Nat
      /\ out.events[1].at \in Nat
  <2>1. k \in Nat /\ 1 \in 1..Len(out.events)
    BY EventFacts
  <2> QED
    BY <2>1, EventFacts, SentCount
<1>2. s \in {"elapsed", "sent", "received", "bytesSent", "bytesReceived"}
  BY DEF Series, Counters
<1>3. /\ Curve("elapsed", k) \in Int /\ Curve("sent", k) \in Int
      /\ Curve("bytesSent", k) \in Int
  <2>1. out.events[k].at - out.events[1].at \in Int /\ SentUpto(k) \in Int
    BY <1>1
  <2> QED
    BY <2>1, CurveIs, Zenon
<1>4. Curve("received", k) \in Int /\ Curve("bytesReceived", k) \in Int
  <2>1. k - SentUpto(k) \in Int /\ 2 * (k - SentUpto(k)) \in Int
    BY <1>1
  <2> QED
    BY <2>1, CurveIs, Zenon
<1> QED
  BY <1>2, <1>3, <1>4

\* Events that come later leave the curves as they are.
LEMMA CurvesStay ==
    ASSUME OutTyped, NEW n \in 0..Len(out.events),
           \A i \in 1..n : out'.events[i] = out.events[i]
    PROVE  /\ \A k \in 0..n, s \in Counters : Total(s, k)' = Total(s, k)
           /\ \A k \in 1..n, s \in Series : Curve(s, k)' = Curve(s, k)
<1>1. ASSUME NEW k \in 0..n PROVE SentUpto(k)' = SentUpto(k)
  <2>1. \A i \in 1..k : out'.events[i] = out.events[i]
    BY EventFacts
  <2>2. {i \in 1..k : out'.events[i].frame.direction = "SENT"}
           = {i \in 1..k : out.events[i].frame.direction = "SENT"}
    BY <2>1
  <2> QED
    BY <2>2 DEF SentUpto
<1>2. ASSUME NEW k \in 0..n, NEW s \in Counters PROVE Total(s, k)' = Total(s, k)
  BY <1>1, <1>2 DEF Total
<1>3. ASSUME NEW k \in 1..n, NEW s \in Series PROVE Curve(s, k)' = Curve(s, k)
  <2>1. k \in 0..n /\ 1 \in 1..n
    BY EventFacts
  <2>2. /\ SentUpto(k)' = SentUpto(k) /\ out'.events[k] = out.events[k]
        /\ out'.events[1] = out.events[1]
    BY <1>1, <2>1
  <2> QED
    BY <2>2 DEF Curve
<1> QED
  BY <1>2, <1>3

\* The window that draws the last of k samples of a curve.
LastOf(C, k) ==
    LET dropped == IF k > MaxPoints THEN k - MaxPoints ELSE 0
    IN  [i \in 1..(k - dropped) |-> C[dropped + i]]

\* That window is a sequence of at most max_points numbers.
LEMMA LastTyped ==
    ASSUME NEW k \in Nat, NEW C, \A i \in 1..k : C[i] \in Int
    PROVE  LastOf(C, k) \in Seq(Int) /\ Len(LastOf(C, k)) <= MaxPoints
<1> DEFINE d == IF k > MaxPoints THEN k - MaxPoints ELSE 0
<1>1. k - d \in Nat /\ k - d <= MaxPoints /\ \A i \in 1..(k - d) : d + i \in 1..k
  BY SessionAssumption
<1>2. LastOf(C, k) = [i \in 1..(k - d) |-> C[d + i]]
  BY Zenon DEF LastOf
<1> HIDE DEF d
<1> QED
  BY <1>1, <1>2

\* A sample more, and the oldest goes when the window is full.
LEMMA PushLast ==
    ASSUME NEW k \in Nat, NEW C, \A i \in 1..(k + 1) : C[i] \in Int
    PROVE  Push(LastOf(C, k), C[k + 1]) = LastOf(C, k + 1)
<1> DEFINE q == LastOf(C, k)
<1>1. MaxPoints \in Nat /\ MaxPoints >= 1
  BY SessionAssumption
<1>2. CASE k < MaxPoints
  <2>1. q = [i \in 1..k |-> C[i]]
    BY <1>1, <1>2 DEF LastOf
  <2> HIDE DEF q
  <2>2. q \in Seq(Int) /\ Len(q) = k
    BY <2>1
  <2>3. LastOf(C, k + 1) = [i \in 1..(k + 1) |-> C[i]]
    BY <1>1, <1>2 DEF LastOf
  <2>4. Push(q, C[k + 1]) = Append(q, C[k + 1])
    BY <1>2, <2>2 DEF Push
  <2>5. Append(q, C[k + 1]) = [i \in 1..(k + 1) |-> C[i]]
    BY <2>1, <2>2
  <2> QED
    BY <1>1, <1>2, <2>2, <2>3, <2>4, <2>5 DEF q
<1>3. CASE k >= MaxPoints
  <2> DEFINE d == k - MaxPoints
  <2>1. d \in Nat /\ k = d + MaxPoints
    BY <1>1, <1>3
  <2> HIDE DEF d
  <2>2. q = [i \in 1..MaxPoints |-> C[d + i]]
    <3>1. (IF k > MaxPoints THEN k - MaxPoints ELSE 0) = d
      BY <1>1, <2>1
    <3>2. k - d = MaxPoints
      BY <1>1, <2>1
    <3>3. LastOf(C, k) = [i \in 1..(k - d) |-> C[d + i]]
      BY <3>1, Zenon DEF LastOf
    <3> QED
      BY <3>2, <3>3
  <2> HIDE DEF q
  <2>3. \A i \in 1..MaxPoints : d + i \in 1..(k + 1)
    BY <1>1, <2>1
  <2>4. q \in Seq(Int) /\ Len(q) = MaxPoints /\ \A i \in 1..MaxPoints : q[i] = C[d + i]
    BY <1>1, <2>2, <2>3
  <2>5. LastOf(C, k + 1) = [i \in 1..MaxPoints |-> C[d + 1 + i]]
    <3> DEFINE n == k + 1
               e == d + 1
    <3>1. (IF n > MaxPoints THEN n - MaxPoints ELSE 0) = e /\ n - e = MaxPoints
      BY <1>1, <2>1
    <3> HIDE DEF n, e
    <3>2. LastOf(C, n) = [i \in 1..(n - e) |-> C[e + i]]
      BY <3>1, Zenon DEF LastOf
    <3>3. LastOf(C, n) = [i \in 1..MaxPoints |-> C[e + i]]
      BY <3>1, <3>2
    <3> QED
      BY <3>3, Zenon DEF n, e
  <2>6. Push(q, C[k + 1]) = Append(Tail(q), C[k + 1])
    BY <1>1, <2>4 DEF Push
  <2>7. /\ Tail(q) \in Seq(Int) /\ Len(Tail(q)) = MaxPoints - 1
        /\ \A i \in 1..(MaxPoints - 1) : Tail(q)[i] = q[i + 1] /\ i + 1 \in 1..MaxPoints
    <3>1. q # <<>>
      BY <1>1, <2>4
    <3> QED
      BY <1>1, <2>4, <3>1
  <2>8. Append(Tail(q), C[k + 1]) = [i \in 1..MaxPoints |-> C[d + 1 + i]]
    <3> DEFINE p == Append(Tail(q), C[k + 1])
    <3>1. C[k + 1] \in Int
      BY <1>1
    <3>2. /\ p \in Seq(Int) /\ Len(p) = MaxPoints
          /\ \A i \in 1..(MaxPoints - 1) : p[i] = Tail(q)[i]
          /\ p[MaxPoints] = C[k + 1]
      <4>1. MaxPoints = Len(Tail(q)) + 1 /\ MaxPoints - 1 = Len(Tail(q))
        BY <1>1, <2>7
      <4> QED
        BY <2>7, <3>1, <4>1, Appended
    <3> HIDE DEF p
    <3>3. ASSUME NEW i \in 1..MaxPoints PROVE p[i] = C[d + 1 + i]
      <4>1. CASE i = MaxPoints
        <5>1. d + 1 + i = k + 1
          BY <1>1, <2>1, <4>1
        <5> QED
          BY <3>2, <4>1, <5>1
      <4>2. CASE i # MaxPoints
        <5>1. i \in 1..(MaxPoints - 1) /\ d + (i + 1) = d + 1 + i
          BY <1>1, <2>1, <4>2
        <5> QED
          BY <2>4, <2>7, <3>2, <5>1
      <4> QED
        BY <4>1, <4>2
    <3>4. p = [i \in 1..MaxPoints |-> p[i]]
      BY <1>1, <3>2
    <3>5. p = [i \in 1..MaxPoints |-> C[d + 1 + i]]
      BY <3>3, <3>4
    <3> QED
      BY <3>5 DEF p
  <2>9. q = LastOf(C, k)
    BY DEF q
  <2> QED
    BY <2>5, <2>6, <2>8, <2>9, Zenon
<1> QED
  BY <1>1, <1>2, <1>3

\* The plot keeps the last samples of every curve, in words of LastOf.
Sampled(s) == [n \in 1..Len(out.events) |-> Curve(s, n)]

\* The two say the same.
LEMMA PlotTail ==
    ASSUME OutTyped, plot.read \in Nat, plot.read <= Len(out.events), NEW s \in Series
    PROVE  /\ [i \in 1..(plot.read - (IF plot.read > MaxPoints
                                      THEN plot.read - MaxPoints ELSE 0)) |->
                 Curve(s, (IF plot.read > MaxPoints
                           THEN plot.read - MaxPoints ELSE 0) + i)]
                 = LastOf(Sampled(s), plot.read)
           /\ \A i \in 1..Len(out.events) : Sampled(s)[i] = Curve(s, i)
<1> DEFINE d == IF plot.read > MaxPoints THEN plot.read - MaxPoints ELSE 0
<1>1. \A i \in 1..Len(out.events) : Sampled(s)[i] = Curve(s, i)
  BY DEF Sampled
<1>2. MaxPoints \in Nat /\ Len(out.events) \in Nat
  BY EventFacts, SessionAssumption
<1>3. \A i \in 1..(plot.read - d) : d + i \in 1..Len(out.events)
  BY <1>2
<1>4. LastOf(Sampled(s), plot.read) = [i \in 1..(plot.read - d) |-> Sampled(s)[d + i]]
  BY Zenon DEF LastOf
<1> HIDE DEF d
<1>5. [i \in 1..(plot.read - d) |-> Sampled(s)[d + i]]
         = [i \in 1..(plot.read - d) |-> Curve(s, d + i)]
  BY <1>1, <1>3
<1> QED
  BY <1>1, <1>4, <1>5, Zenon DEF d

\* So PlotIsTail in one word.
LEMMA TailIs ==
    OutTyped /\ plot.read \in Nat /\ plot.read <= Len(out.events) =>
       (PlotIsTail <=> \A s \in Series : plot.window[s] = LastOf(Sampled(s), plot.read))
<1> SUFFICES ASSUME OutTyped, plot.read \in Nat, plot.read <= Len(out.events)
             PROVE  PlotIsTail <=>
                       \A s \in Series : plot.window[s] = LastOf(Sampled(s), plot.read)
  OBVIOUS
<1> QED
  BY PlotTail, Zenon DEF PlotIsTail

\* Curves that agree on the first k samples have the same last ones.
LEMMA LastOfSame ==
    ASSUME NEW k \in Nat, NEW C, NEW D, \A i \in 1..k : C[i] = D[i]
    PROVE  LastOf(C, k) = LastOf(D, k)
<1> DEFINE d == IF k > MaxPoints THEN k - MaxPoints ELSE 0
<1>1. \A i \in 1..(k - d) : d + i \in 1..k
  BY SessionAssumption
<1>2. /\ LastOf(C, k) = [i \in 1..(k - d) |-> C[d + i]]
      /\ LastOf(D, k) = [i \in 1..(k - d) |-> D[d + i]]
  BY Zenon DEF LastOf
<1> HIDE DEF d
<1>3. [i \in 1..(k - d) |-> C[d + i]] = [i \in 1..(k - d) |-> D[d + i]]
  BY <1>1
<1> QED
  BY <1>2, <1>3, Zenon

\* New events leave the samples already drawn as they are.
LEMMA SampledStays ==
    ASSUME OutTyped, OutTyped', NEW n \in Nat, n <= Len(out.events), n <= Len(out'.events),
           \A i \in 1..n : out'.events[i] = out.events[i]
    PROVE  \A s \in Series : LastOf(Sampled(s)', n) = LastOf(Sampled(s), n)
<1> SUFFICES ASSUME NEW s \in Series PROVE LastOf(Sampled(s)', n) = LastOf(Sampled(s), n)
  OBVIOUS
<1>1. Len(out.events) \in Nat /\ Len(out'.events) \in Nat
  BY DEF OutTyped, Events
<1>2. \A k \in 1..n : Curve(s, k)' = Curve(s, k)
  BY <1>1, CurvesStay
<1>3. \A k \in 1..n : Sampled(s)'[k] = Curve(s, k)' /\ Sampled(s)[k] = Curve(s, k)
  BY <1>1 DEF Sampled
<1>4. \A k \in 1..n : Sampled(s)'[k] = Sampled(s)[k]
  BY <1>2, <1>3, Zenon
<1> QED
  BY <1>4, LastOfSame, Zenon

\* An event that is written leaves the plot as it is.
LEMMA PlotStays ==
    ASSUME OutTyped, OutTyped', PlotOK, Grows, UNCHANGED plot
    PROVE  PlotOK'
<1>1. PICK n : n = plot.read
  OBVIOUS
<1>2. /\ n \in Nat /\ n <= Len(out.events) /\ plot'.read = n
      /\ Len(out.events) \in Nat /\ DOMAIN out.events = 1..Len(out.events)
  BY <1>1, EventFacts DEF PlotOK
<1>3. /\ Len(out'.events) \in Nat /\ Len(out.events) <= Len(out'.events)
      /\ DOMAIN out'.events = 1..Len(out'.events)
      /\ \A i \in 1..Len(out.events) : out'.events[i] = out.events[i]
      /\ \A i \in DOMAIN out'.events : out'.events[i].at >= 1
  <2>1. out.events \in Seq([frame : Frame, at : Nat])
    BY OutFacts
  <2>2. CASE out'.events = out.events
    <3>1. \A i \in DOMAIN out.events : out.events[i].at >= 1
      BY DEF PlotOK
    <3> QED
      BY <1>2, <2>2, <3>1
  <2>3. CASE \E e \in [frame : Frame, at : Nat] :
                e.at >= 1 /\ out'.events = Append(out.events, e)
    <3>1. PICK e \in [frame : Frame, at : Nat] :
             e.at >= 1 /\ out'.events = Append(out.events, e)
      BY <2>3
    <3>2. /\ Len(out'.events) = Len(out.events) + 1
          /\ DOMAIN out'.events = 1..(Len(out.events) + 1)
          /\ \A i \in 1..Len(out.events) : out'.events[i] = out.events[i]
          /\ out'.events[Len(out.events) + 1] = e
      <4> DEFINE S == [frame : Frame, at : Nat]
      <4>1. out.events \in Seq(S) /\ e \in S
        BY <2>1
      <4> HIDE DEF S
      <4> QED
        BY <3>1, <4>1, Appended
    <3>3. ASSUME NEW i \in DOMAIN out'.events PROVE out'.events[i].at >= 1
      <4>1. i \in 1..Len(out.events) \/ i = Len(out.events) + 1
        BY <1>2, <3>2
      <4>2. \A j \in 1..Len(out.events) : out.events[j].at >= 1
        BY <1>2 DEF PlotOK
      <4> QED
        BY <3>1, <3>2, <4>1, <4>2
    <3> QED
      BY <1>2, <3>2, <3>3
  <2> QED
    BY <2>2, <2>3 DEF Grows
<1>4. \A i \in 1..n : out'.events[i] = out.events[i]
  BY <1>2, <1>3
<1>5. \A s \in Counters : Total(s, n)' = Total(s, n)
  BY <1>2, <1>4, CurvesStay
<1>6. \A s \in Series : LastOf(Sampled(s)', n) = LastOf(Sampled(s), n)
  BY <1>2, <1>3, <1>4, SampledStays
<1>7. PlotIsTail'
  <2>1. \A s \in Series : plot.window[s] = LastOf(Sampled(s), plot.read)
    BY <1>1, <1>2, TailIs DEF PlotOK
  <2>2. (OutTyped /\ plot.read \in Nat /\ plot.read <= Len(out.events))'
    BY <1>2, <1>3
  <2>3. (\A s \in Series : plot.window[s] = LastOf(Sampled(s), plot.read))'
    BY <1>1, <1>6, <2>1
  <2> QED
    BY <2>2, <2>3, TailIs, PTL
<1>8. plot'.start = IF n = 0 THEN 0 ELSE out'.events[1].at
  <2>1. n # 0 => 1 \in 1..n
    BY <1>2
  <2> QED
    BY <1>1, <1>4, <2>1 DEF PlotOK
<1>9. \A s \in Counters : plot'.total[s] = Total(s, n)'
  BY <1>1, <1>5 DEF PlotOK
<1> QED
  BY <1>1, <1>2, <1>3, <1>7, <1>8, <1>9 DEF PlotOK

\* The counters after one more event.
LEMMA CountedIs ==
    ASSUME OutTyped, NEW n \in Nat, n < Len(out.events), NEW total,
           \A s \in Counters : total[s] = Total(s, n)
    PROVE  LET counted == Counted(total, out.events[n + 1].frame)
           IN  /\ counted \in [Counters -> Int]
               /\ \A s \in Counters : counted[s] = Total(s, n + 1)
<1> DEFINE f == out.events[n + 1].frame
           sent == f.direction = "SENT"
           c == Counted(total, f)
<1>1. /\ SentUpto(n) \in Nat /\ SentUpto(n + 1) \in Nat
      /\ SentUpto(n + 1) = SentUpto(n) + IF sent THEN 1 ELSE 0
  <2>1. n + 1 \in Nat
    OBVIOUS
  <2>2. SentUpto(n + 1) = SentUpto(n) + IF sent THEN 1 ELSE 0
    BY SentCount, Zenon
  <2> QED
    BY <2>1, <2>2, SentCount
<1>2. /\ c = [s \in Counters |-> c[s]]
      /\ c["sent"] = total["sent"] + IF sent THEN 1 ELSE 0
      /\ c["bytesSent"] = total["bytesSent"] + IF sent THEN SizeBytes(f) ELSE 0
      /\ c["received"] = total["received"] + IF sent THEN 0 ELSE 1
      /\ c["bytesReceived"] = total["bytesReceived"] + IF sent THEN 0 ELSE SizeBytes(f)
  BY DEF Counted, Counters
<1>3. SizeBytes(f) = IF sent THEN 1 ELSE 2
  BY DEF SizeBytes
<1>4. /\ total["sent"] = SentUpto(n) /\ total["bytesSent"] = SentUpto(n)
      /\ total["received"] = n - SentUpto(n)
      /\ total["bytesReceived"] = 2 * (n - SentUpto(n))
  BY DEF Total, Counters
<1>5. /\ Total("sent", n + 1) = SentUpto(n + 1) /\ Total("bytesSent", n + 1) = SentUpto(n + 1)
      /\ Total("received", n + 1) = (n + 1) - SentUpto(n + 1)
      /\ Total("bytesReceived", n + 1) = 2 * ((n + 1) - SentUpto(n + 1))
  BY DEF Total
<1> HIDE DEF c, f
<1>6. /\ c["sent"] = Total("sent", n + 1) /\ c["bytesSent"] = Total("bytesSent", n + 1)
      /\ c["received"] = Total("received", n + 1)
      /\ c["bytesReceived"] = Total("bytesReceived", n + 1)
      /\ c["sent"] \in Int /\ c["bytesSent"] \in Int /\ c["received"] \in Int
      /\ c["bytesReceived"] \in Int
  <2>1. CASE sent
    <3>1. /\ SentUpto(n) \in Nat /\ SentUpto(n + 1) = SentUpto(n) + 1 /\ SizeBytes(f) = 1
      BY <1>1, <1>3, <2>1
    <3>2. /\ c["sent"] = SentUpto(n) + 1 /\ c["bytesSent"] = SentUpto(n) + 1
          /\ c["received"] = n - SentUpto(n) + 0
          /\ c["bytesReceived"] = 2 * (n - SentUpto(n)) + 0
      BY <1>2, <1>4, <2>1, <3>1
    <3>3. /\ (n + 1) - (SentUpto(n) + 1) = n - SentUpto(n) + 0
          /\ 2 * ((n + 1) - (SentUpto(n) + 1)) = 2 * (n - SentUpto(n)) + 0
          /\ n - SentUpto(n) + 0 \in Int /\ 2 * (n - SentUpto(n)) + 0 \in Int
          /\ SentUpto(n) + 1 \in Int
      <4>1. \A m \in Nat :
               /\ (n + 1) - (m + 1) = n - m + 0 /\ 2 * ((n + 1) - (m + 1)) = 2 * (n - m) + 0
               /\ n - m + 0 \in Int /\ 2 * (n - m) + 0 \in Int /\ m + 1 \in Int
        OBVIOUS
      <4> QED
        BY <3>1, <4>1, Zenon
    <3> QED
      BY <1>5, <3>1, <3>2, <3>3
  <2>2. CASE ~sent
    <3>1. SentUpto(n) \in Nat /\ SentUpto(n + 1) = SentUpto(n) /\ SizeBytes(f) = 2
      BY <1>1, <1>3, <2>2
    <3>2. /\ c["sent"] = SentUpto(n) + 0 /\ c["bytesSent"] = SentUpto(n) + 0
          /\ c["received"] = n - SentUpto(n) + 1
          /\ c["bytesReceived"] = 2 * (n - SentUpto(n)) + 2
      BY <1>2, <1>4, <2>2, <3>1
    <3>3. \A m \in Nat :
             /\ (n + 1) - m = n - m + 1 /\ 2 * ((n + 1) - m) = 2 * (n - m) + 2
             /\ n - m + 1 \in Int /\ 2 * (n - m) + 2 \in Int /\ m \in Int /\ m + 0 = m
      OBVIOUS
    <3>4. /\ (n + 1) - SentUpto(n) = n - SentUpto(n) + 1
          /\ 2 * ((n + 1) - SentUpto(n)) = 2 * (n - SentUpto(n)) + 2
          /\ n - SentUpto(n) + 1 \in Int /\ 2 * (n - SentUpto(n)) + 2 \in Int
          /\ SentUpto(n) \in Int /\ SentUpto(n) + 0 = SentUpto(n)
      BY <3>1, <3>3, Zenon
    <3> QED
      BY <1>5, <3>1, <3>2, <3>4
  <2> QED
    BY <2>1, <2>2
<1>7. \A s \in Counters : c[s] = Total(s, n + 1) /\ c[s] \in Int
  BY <1>6 DEF Counters
<1>8. c \in [Counters -> Int]
  BY <1>2, <1>7
<1> QED
  BY <1>7, <1>8 DEF c, f

\* The runner reads an event and the window adds it.
LEMMA AddKeeps ==
    ASSUME OutTyped, PlotOK, Add
    PROVE  PlotOK'
<1>1. PICK n : n = plot.read
  OBVIOUS
<1> DEFINE event == out.events[n + 1]
           start == IF plot.start = 0 THEN event.at ELSE plot.start
           total == Counted(plot.total, event.frame)
           sample(s) == IF s = "elapsed" THEN event.at - start ELSE total[s]
<1>2. /\ n < Len(out.events) /\ UNCHANGED <<env, fix, thr, out, runs>>
      /\ plot' = [read |-> n + 1, start |-> start, total |-> total,
                  window |-> [s \in Series |-> Push(plot.window[s], sample(s))]]
  BY <1>1, Zenon DEF Add, Unread
<1>3. /\ n \in Nat /\ n + 1 \in 1..Len(out.events) /\ n + 1 <= Len(out.events)
      /\ Len(out.events) \in Nat /\ DOMAIN out.events = 1..Len(out.events)
      /\ 1 \in 1..Len(out.events)
  BY <1>1, <1>2, EventFacts DEF PlotOK
<1>4. start = out.events[1].at /\ start \in Nat /\ event.at \in Nat
  <2>1. /\ plot.start = IF n = 0 THEN 0 ELSE out.events[1].at
        /\ out.events[1].at >= 1
    BY <1>1, <1>3 DEF PlotOK
  <2>2. event.at \in Nat /\ out.events[1].at \in Nat
    BY <1>3, EventFacts
  <2>3. CASE n = 0
    BY <2>1, <2>2, <2>3
  <2>4. CASE n # 0
    BY <2>1, <2>2, <2>4
  <2> QED
    BY <2>3, <2>4
<1>5. total \in [Counters -> Int] /\ \A s \in Counters : total[s] = Total(s, n + 1)
  <2>1. \A s \in Counters : plot.total[s] = Total(s, n)
    BY <1>1 DEF PlotOK
  <2> QED
    BY <1>2, <1>3, <2>1, CountedIs
<1>6. \A s \in Series : sample(s) = Curve(s, n + 1)
  <2>1. sample("elapsed") = Curve("elapsed", n + 1)
    BY <1>4, CurveIs
  <2>2. \A s \in Counters : sample(s) = Curve(s, n + 1)
    BY <1>5, CurveIs DEF Counters
  <2> QED
    BY <2>1, <2>2 DEF Series
<1> HIDE DEF start, total, sample, event
<1>7. \A s \in Series : /\ plot.window[s] = LastOf(Sampled(s), n)
                        /\ Push(plot.window[s], sample(s)) = LastOf(Sampled(s), n + 1)
                        /\ LastOf(Sampled(s), n + 1) \in Seq(Int)
  <2> SUFFICES ASSUME NEW s \in Series
               PROVE  /\ plot.window[s] = LastOf(Sampled(s), n)
                      /\ Push(plot.window[s], sample(s)) = LastOf(Sampled(s), n + 1)
                      /\ LastOf(Sampled(s), n + 1) \in Seq(Int)
    OBVIOUS
  <2>1. plot.window[s] = LastOf(Sampled(s), n)
    BY <1>1, <1>2, <1>3, TailIs DEF PlotOK
  <2>2. \A i \in 1..(n + 1) : Sampled(s)[i] = Curve(s, i) /\ Sampled(s)[i] \in Int
    BY <1>3, CurveTyped DEF Sampled
  <2>3. n + 1 \in 1..(n + 1)
    BY <1>3
  <2>4. Push(plot.window[s], sample(s)) = LastOf(Sampled(s), n + 1)
    BY <1>3, <1>6, <2>1, <2>2, <2>3, PushLast
  <2>5. LastOf(Sampled(s), n + 1) \in Seq(Int)
    BY <1>3, <2>2, LastTyped
  <2> QED
    BY <2>1, <2>4, <2>5
<1>8. /\ plot'.read = n + 1 /\ plot'.start = start /\ plot'.total = total
      /\ \A s \in Series : plot'.window[s] = LastOf(Sampled(s), n + 1)
      /\ plot' \in [read : Nat, start : Nat, total : [Counters -> Int],
                    window : [Series -> Seq(Int)]]
  <2> DEFINE w == [s \in Series |-> Push(plot.window[s], sample(s))]
  <2>1. \A s \in Series : w[s] = LastOf(Sampled(s), n + 1) /\ w[s] \in Seq(Int)
    BY <1>7
  <2>2. w \in [Series -> Seq(Int)]
    BY <2>1
  <2>3. plot' = [read |-> n + 1, start |-> start, total |-> total, window |-> w]
    BY <1>2
  <2> HIDE DEF w
  <2> QED
    BY <1>3, <1>4, <1>5, <2>1, <2>2, <2>3
<1>9. PlotIsTail'
  <2>1. (OutTyped /\ plot.read \in Nat /\ plot.read <= Len(out.events))'
    BY <1>2, <1>3, <1>8 DEF OutTyped
  <2>2. \A s \in Series : Sampled(s)' = Sampled(s)
    BY <1>2 DEF Sampled, Curve, SentUpto
  <2>3. (\A s \in Series : plot.window[s] = LastOf(Sampled(s), plot.read))'
    BY <1>8, <2>2
  <2> QED
    BY <2>1, <2>3, TailIs, PTL
<1>10. \A s \in Counters : plot'.total[s] = Total(s, n + 1)'
  <2>1. \A s \in Counters : Total(s, n + 1)' = Total(s, n + 1)
    BY <1>2 DEF Total, SentUpto
  <2> QED
    BY <1>5, <1>8, <2>1
<1>11. \A i \in DOMAIN out'.events : out'.events[i].at >= 1
  BY <1>2 DEF PlotOK
<1>12. plot'.start = IF plot'.read = 0 THEN 0 ELSE out'.events[1].at
  BY <1>2, <1>3, <1>4, <1>8
<1>13. plot'.read <= Len(out'.events)
  BY <1>2, <1>3, <1>8
<1> QED
  BY <1>8, <1>9, <1>10, <1>11, <1>12, <1>13 DEF PlotOK

\* A window that draws nothing yet.
LEMMA NothingPlotted == out = NoOutput /\ plot = NoSamples => PlotOK
<1> SUFFICES ASSUME out = NoOutput, plot = NoSamples PROVE PlotOK
  OBVIOUS
<1>1. /\ out.events = <<>> /\ plot.read = 0 /\ plot.start = 0
      /\ plot.total = [s \in Counters |-> 0] /\ plot.window = [s \in Series |-> <<>>]
  BY DEF NoOutput, NoSamples
<1>2. SentUpto(0) = 0
  <2>1. {i \in 1..0 : out.events[i].frame.direction = "SENT"} = {}
    OBVIOUS
  <2> QED
    BY <2>1, FS_EmptySet DEF SentUpto
<1>3. \A s \in Counters : plot.total[s] = Total(s, plot.read)
  BY <1>1, <1>2 DEF Total, Counters
<1>4. PlotIsTail
  <2>1. (IF plot.read > MaxPoints THEN plot.read - MaxPoints ELSE 0) = 0
    BY <1>1, SessionAssumption
  <2>2. \A d : [i \in 1..(0 - 0) |-> d[i]] = <<>>
    OBVIOUS
  <2>3. \A s \in Series : [i \in 1..(plot.read - 0) |-> Curve(s, 0 + i)] = <<>>
    BY <1>1
  <2> QED
    BY <1>1, <2>1, <2>3 DEF PlotIsTail
<1>5. plot \in [read : Nat, start : Nat, total : [Counters -> Int],
                window : [Series -> Seq(Int)]]
  BY DEF NoSamples
<1> QED
  BY <1>1, <1>3, <1>4, <1>5 DEF PlotOK

\* The window starts that way.
LEMMA InitPlotOK == SessionInit => PlotOK
BY NothingPlotted DEF SessionInit

\* Every step of the specification keeps the plot.
LEMMA NextPlotOK ==
    SessionInv /\ RecordsInv /\ RecordsInv' /\ PlotOK /\ [SessionNext]_sessionVars => PlotOK'
<1> SUFFICES ASSUME SessionInv, RecordsInv, RecordsInv', PlotOK, [SessionNext]_sessionVars
             PROVE  PlotOK'
  OBVIOUS
<1>1. OutTyped /\ OutTyped'
  BY DEF RecordsInv, RecordsTyped
<1>2. CASE \/ SetupRaises \/ OpenWriter \/ StartGuard \/ OpenInterface
           \/ CloseInterface \/ CloseWriter \/ StopGuard \/ Unconfigure
           \/ Done \/ UNCHANGED sessionVars
  <2>1. UNCHANGED <<out, plot>>
    BY <1>2 DEF SetupRaises, OpenWriter, StartGuard, OpenInterface, CloseInterface,
                CloseWriter, StopGuard, Unconfigure, Session, Done, sessionVars
  <2> QED
    BY <1>1, <2>1, PlotStays DEF Grows
<1>3. CASE \E t \in Threads :
              \/ Send(t) \/ SendReceive(t) \/ Sniff(t)
              \/ Srp1(t) \/ RecordPcap(t) \/ RecordDebug(t)
              \/ RecordSink(t)
  BY <1>1, <1>3, ThreadGrows, PlotStays
<1>4. CASE Add
  BY <1>1, <1>4, AddKeeps
<1>5. CASE StartRun
  <2>1. (out = NoOutput /\ plot = NoSamples)'
    BY <1>5 DEF StartRun, Cleared, NoOutput, NoSamples
  <2> QED
    BY <2>1, NothingPlotted, PTL
<1> QED
  BY <1>2, <1>3, <1>4, <1>5 DEF SessionNext

\* Every variable has its type.
LEMMA SessionTyped == SessionInv /\ RecordsInv /\ PlotOK => SessionTypeOK
<1> SUFFICES ASSUME SessionInv, RecordsInv, PlotOK PROVE SessionTypeOK
  OBVIOUS
<1>1. /\ env \in Env /\ runs \in 1..MaxRuns /\ OutTyped /\ thr \in [Threads -> ThreadState]
      /\ QueueOK /\ FixtureOK
  BY DEF RecordsInv, RecordsTyped, SessionInv
<1>2. /\ fix.phase \in {"configured", "written", "guarded", "up", "ifaceClosed",
                        "writerClosed", "closed", "over"}
      /\ {fix.guard, fix.writer, fix.logger} \subseteq {"none", "open", "closed"}
      /\ fix.pcap \in {"none", "open"} /\ fix.broken \in BOOLEAN /\ fix.late \in BOOLEAN
  BY <1>1 DEF FixtureOK
<1>3. ASSUME NEW t \in Threads
      PROVE  /\ thr[t].pc \in {"idle", "pcap", "debug", "sink", "srp1"}
             /\ thr[t].queue \in Seq(Frame)
             /\ thr[t].made \in 0..MaxSessionFrames
             /\ thr[t].pc \in {"pcap", "debug", "sink"} <=> thr[t].queue # <<>>
  <2>1. thr[t] \in ThreadState /\ RowOK(t, thr[t])
    BY <1>1 DEF QueueOK
  <2> QED
    BY <2>1, RowFacts DEF RowOK, Recording
<1>4. /\ out.file \in Seq(Frame) /\ Frames(out.trace) \in Seq(Frame)
      /\ Frames(out.events) \in Seq(Frame) /\ Len(out.events) \in Nat
  BY <1>1, OutFacts, EventFacts
<1>5. plot.read \in 0..Len(out.events)
  BY <1>4 DEF PlotOK
<1>6. ASSUME NEW s \in Series PROVE Len(plot.window[s]) <= MaxPoints
  <2>1. plot.window[s] = LastOf(Sampled(s), plot.read)
    BY <1>1, TailIs DEF PlotOK
  <2>2. \A i \in 1..plot.read : Sampled(s)[i] \in Int
    <3>1. \A i \in 1..plot.read : i \in 1..Len(out.events)
      BY <1>4, <1>5
    <3>2. \A i \in 1..Len(out.events) : Sampled(s)[i] = Curve(s, i)
      BY DEF Sampled
    <3> QED
      BY <1>1, <3>1, <3>2, CurveTyped, Zenon
  <2> QED
    BY <1>4, <1>5, <2>1, <2>2, LastTyped
<1> QED
  BY <1>1, <1>2, <1>3, <1>4, <1>5, <1>6 DEF SessionTypeOK

\* A record whose frames of each thread come once and in order holds no frame twice.
LEMMA OrderedOnce ==
    ASSUME NEW s \in Seq(Frame), \A t \in Threads : Ordered(t, s)
    PROVE  IsInjective(s)
<1>1. /\ DOMAIN s = 1..Len(s) /\ Len(s) \in Nat
      /\ \A i \in DOMAIN s : s[i].by \in Threads /\ s[i].n \in Nat
  <2>1. \A f \in Frame : f.by \in Threads /\ f.n \in Nat
    BY SessionAssumption DEF Frame
  <2>2. \A i \in DOMAIN s : s[i] \in Frame
    OBVIOUS
  <2> QED
    BY <2>1, <2>2
<1>2. ASSUME NEW i \in DOMAIN s, NEW j \in DOMAIN s, i < j PROVE s[i] # s[j]
  <2>1. s[i].by = s[j].by => s[i].n < s[j].n
    BY <1>1, <1>2 DEF Ordered, Of
  <2> QED
    BY <1>1, <2>1
<1>3. ASSUME NEW i \in DOMAIN s, NEW j \in DOMAIN s, s[i] = s[j] PROVE i = j
  <2>1. i < j \/ j < i \/ i = j
    BY <1>1
  <2> QED
    BY <1>2, <1>3, <2>1
<1> QED
  BY <1>3 DEF IsInjective

\* Once every call has returned, every record that is kept has all the frames of every
\* thread, so they have the same.
LEMMA SameFrames ==
    ASSUME RecordsInv, AllIdle, fix.phase = "up"
    PROVE  /\ \A a \in Kept, t \in Threads : FirstOf(t, a, thr[t].made)
           /\ \A a, b \in Kept : Range(a) = Range(b)
<1>1. OutTyped /\ thr \in [Threads -> ThreadState] /\ QueueOK
  BY DEF RecordsInv, RecordsTyped
<1>2. ASSUME NEW t \in Threads
      PROVE  /\ ToFile(thr[t]) = thr[t].made /\ ToTrace(thr[t]) = thr[t].made
             /\ Recorded(thr[t]) = thr[t].made
  <2>1. thr[t].pc = "idle" /\ thr[t] \in ThreadState /\ RowOK(t, thr[t])
    BY <1>1 DEF AllIdle, QueueOK
  <2>2. thr[t].queue = <<>> /\ thr[t].made \in Nat
    BY <2>1, RowFacts DEF RowOK, Recording
  <2>3. Recorded(thr[t]) = thr[t].made
    BY <2>2 DEF Recorded
  <2> QED
    BY <2>1, <2>2, <2>3 DEF ToFile, ToTrace
<1>3. ASSUME NEW a \in Kept
      PROVE  /\ a \in Seq(Frame) /\ Range(a) \subseteq Known
             /\ \A t \in Threads : FirstOf(t, a, thr[t].made)
  <2>1. \/ "capture" \in env.opts /\ a = out.file
        \/ "debug" \in env.opts /\ a = Frames(out.trace)
        \/ "events" \in env.opts /\ a = Frames(out.events)
    BY <1>3 DEF Kept
  <2>2. /\ out.file \in Seq(Frame) /\ Frames(out.trace) \in Seq(Frame)
        /\ Frames(out.events) \in Seq(Frame)
    BY <1>1, OutFacts
  <2>3. /\ Range(out.file) \subseteq Known /\ Range(Frames(out.trace)) \subseteq Known
        /\ Range(Frames(out.events)) \subseteq Known
    BY DEF Known
  <2>4. a \in Seq(Frame) /\ Range(a) \subseteq Known
    BY <2>1, <2>2, <2>3, Zenon
  <2>5. ASSUME NEW t \in Threads PROVE FirstOf(t, a, thr[t].made)
    BY <1>2, <2>1, Zenon DEF RecordsInv, HeldOK
  <2> QED
    BY <2>4, <2>5
<1>4. ASSUME NEW a \in Kept, NEW b \in Kept PROVE Range(a) \subseteq Range(b)
  <2> SUFFICES ASSUME NEW i \in DOMAIN a PROVE a[i] \in Range(b)
    BY DEF Range
  <2>1. a[i] \in Range(a) /\ a[i] \in Known
    BY <1>3 DEF Range
  <2>2. a[i].by \in Threads
    BY <1>1, <2>1, KnownTyped
  <2> DEFINE t == a[i].by
  <2>3. i \in Of(t, a) /\ FirstOf(t, a, thr[t].made) /\ FirstOf(t, b, thr[t].made)
    BY <1>3, <2>2 DEF Of
  <2>4. PICK j \in Of(t, b) : b[j].n = a[i].n
    BY <2>3 DEF FirstOf
  <2>5. j \in DOMAIN b /\ b[j].by = a[i].by
    BY <2>4 DEF Of
  <2>6. b[j] \in Range(b) /\ b[j] \in Known
    BY <1>3, <2>5 DEF Range
  <2>7. b[j] = a[i]
    BY <2>1, <2>4, <2>5, <2>6, Zenon DEF RecordsInv, KnownOK
  <2> QED
    BY <2>6, <2>7
<1> QED
  BY <1>3, <1>4

\* The invariants together say that the records agree.
LEMMA AgreeIs == SessionInv /\ RecordsInv /\ PlotOK => RecordsAgree
<1> SUFFICES ASSUME SessionInv, RecordsInv, PlotOK PROVE RecordsAgree
  OBVIOUS
<1>1. SessionTypeOK
  BY SessionTyped
<1>2. AllIdle /\ fix.phase = "up" =>
         /\ \A a \in Kept, t \in Threads : FirstOf(t, a, thr[t].made)
         /\ \A a, b \in Kept : Range(a) = Range(b)
  BY SameFrames
<1>3. OutTyped /\ FileOK /\ TraceOK /\ fix.late \in BOOLEAN
  BY DEF RecordsInv, RecordsTyped, SessionInv, FixtureOK
<1>4. IsInjective(out.file)
  BY <1>3, OutFacts, OrderedOnce DEF FileOK
<1>5. IF fix.late THEN out.captured >= Len(out.file) ELSE out.captured = Len(out.file)
  BY <1>3 DEF FileOK
<1>6. \A i \in DOMAIN out.trace : out.trace[i].number = i
  BY <1>3 DEF TraceOK
<1> QED
  BY <1>1, <1>2, <1>4, <1>5, <1>6, Zenon DEF RecordsAgree

\* Whatever the order of the threads in NetworkInterface._record, the capture, the debug
\* log and the live-events file of a session have the same frames, each once; the count of
\* the capture is true until a frame comes late, and the log's numbers have no gap.
THEOREM RecordsAlwaysAgree == SessionSpec => []RecordsAgree
BY InitSessionInv, NextSessionInv, InitRecordsInv, NextRecordsInv, InitPlotOK, NextPlotOK,
   AgreeIs, PTL DEF SessionSpec

\* What the plot draws is the end of this run's curves (MetricsBuffer.add and clear).
THEOREM PlotAlwaysTail == SessionSpec => []PlotIsTail
<1>1. PlotOK => PlotIsTail
  BY DEF PlotOK
<1> QED
  BY <1>1, InitSessionInv, NextSessionInv, InitRecordsInv, NextRecordsInv, InitPlotOK,
     NextPlotOK, PTL DEF SessionSpec
=============================================================================
