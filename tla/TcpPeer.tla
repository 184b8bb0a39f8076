------------------------------- MODULE TcpPeer -------------------------------
(***************************************************************************)
(* The suite as a peer of the DUT's transport layer, in either role:       *)
(* as a server (src/packet_engine/responder.py), waiting for the DUT to    *)
(* speak first and answering once; as a client, with hand-made segments    *)
(* numbered by a TCPSequenceTracker (src/packet_engine/sequence.py), from  *)
(* the handshake of the established_tcp_connection fixture to its RST.     *)
(*                                                                         *)
(* The DUT is external: a conformant endpoint that protests against a      *)
(* segment it cannot accept (RFC 9293 3.10.7).  Sequence numbers have      *)
(* their modulus, 2^32 in the code, as a constant, so that every wrap is   *)
(* reached.  A packet that arrives while no sniff is open is not seen.     *)
(***************************************************************************)
EXTENDS Naturals, Sequences, FiniteSets

CONSTANTS Jobs,       \* the uses of the peer, of AllJobs
          Modulus,    \* 2^32
          Noise,      \* packets of other hosts, and of the DUT's other connections
          MaxNoise,   \* bound on them
          MaxData,    \* bound on the data segments of each side
          MaxLen,     \* and on their length
          Lossy       \* whether the network loses packets

AllJobs == {"tcp-serve", "udp-serve", "icmp-serve", "connect"}

Numbers == 0..(Modulus - 1)

ASSUME PeerAssumption ==
    /\ Jobs \subseteq AllJobs /\ Modulus \in Nat \ {0}
    /\ MaxNoise \in Nat /\ MaxData \in Nat /\ MaxLen \in Nat /\ Lossy \in BOOLEAN
    /\ MaxData * MaxLen < Modulus    \* no window as large as the sequence space
    /\ Noise \subseteq [src : STRING \ {"dut"}, dst : STRING, proto : STRING,
                       flags : SUBSET STRING, seq : Numbers, ack : Numbers, len : Nat]

VARIABLES job,        \* the call in progress
          pc,         \* where it is
          seq, ack,   \* the tracker
          seen,       \* the packet a sniff returned, or NoPacket
          toDut, toUs,\* packets in flight
          dut,        \* the DUT's endpoint
          protested,  \* the DUT rejected a segment of ours
          lost,       \* a packet was lost
          missed,     \* the DUT's packet came between two sniffs
          noise, data \* counters for the bounds

vars == <<job, pc, seq, ack, seen, toDut, toUs, dut, protested, lost, missed, noise, data>>
netVars == <<toDut, toUs, dut, protested, lost, missed, noise, data>>

\* A packet: who sent it to whom (host and port), flags or ICMP type, numbers,
\* payload length.
Packet(s, d, pr, f, sq, ak, n) ==
    [src |-> s, dst |-> d, proto |-> pr, flags |-> f, seq |-> sq, ack |-> ak, len |-> n]
NoPacket == Packet("nobody", "nobody", "none", {}, 0, 0, 0)

\* seq32: the 32-bit sequence space.
Seq32(n) == n % Modulus

Init ==
    /\ job \in Jobs
    /\ pc = IF job = "connect" THEN "syn" ELSE "sniff"
    /\ seq \in Numbers /\ ack = 0 /\ seen = NoPacket
    /\ toDut = <<>> /\ toUs = <<>>
    /\ dut = [state |-> "closed", snd |-> 0, una |-> 0, rcv |-> 0]
    /\ protested = FALSE /\ lost = FALSE /\ missed = FALSE
    /\ noise = 0 /\ data = [us |-> 0, dut |-> 0]

-----------------------------------------------------------------------------
(***************************************************************************)
(* The server role.                                                        *)
(***************************************************************************)
Proto == CASE job \in {"tcp-serve", "connect"} -> "tcp"
           [] job = "udp-serve"  -> "udp"
           [] job = "icmp-serve" -> "icmp"

\* _addressed_to_us, and the listen port, which all packets here carry.
ToUs(p) == p.proto = Proto /\ p.dst = "us"

\* What the sniff of _serve_once waits for.
Request(p) ==
    /\ ToUs(p)
    /\ job = "tcp-serve" => "SYN" \in p.flags /\ "ACK" \notin p.flags
    /\ job = "icmp-serve" => "request" \in p.flags

\* What the second sniff of serve_tcp_handshake waits for.
FinalAck_Copied(p) == ToUs(p) /\ "SYN" \in p.flags /\ "ACK" \notin p.flags
FinalAck(p) == ToUs(p) /\ "ACK" \in p.flags /\ "SYN" \notin p.flags

\* build_syn_ack_reply, build_udp_echo_reply, build_icmp_echo_reply.
Reply(p, isn) ==
    CASE job = "tcp-serve"  -> Packet("us", p.src, "tcp", {"SYN", "ACK"}, isn, Seq32(p.seq + 1), 0)
      [] job = "udp-serve"  -> Packet("us", p.src, "udp", {}, 0, 0, p.len)
      [] job = "icmp-serve" -> Packet("us", p.src, "icmp", {"reply"}, p.seq, 0, p.len)

Sniffs(p) == \/ pc = "sniff" /\ Request(p)
             \/ pc = "sniff again" /\ FinalAck(p)

\* A packet arrives: the open sniff returns it, or nobody takes it.
Arrives ==
    /\ toUs # <<>>
    /\ pc \notin {"connecting", "open"}
    /\ LET p == Head(toUs) IN
          IF Sniffs(p)
          THEN /\ seen' = p /\ UNCHANGED missed
               /\ pc' = IF pc = "sniff" THEN "reply" ELSE "served"
          ELSE /\ missed' = (missed \/ (pc \in {"reply", "gap"} /\ p.src = "dut"))
               /\ UNCHANGED <<seen, pc>>
    /\ toUs' = Tail(toUs)
    /\ UNCHANGED <<job, seq, ack, toDut, dut, protested, lost, noise, data>>

\* _serve_once sends the reply; serve_tcp_handshake then sniffs again.
SendReply ==
    /\ pc = "reply"
    /\ \E isn \in Numbers : toDut' = Append(toDut, Reply(seen, isn))
    /\ pc' = IF job = "tcp-serve" THEN "gap" ELSE "served"
    /\ UNCHANGED <<job, seq, ack, seen, toUs, dut, protested, lost, missed, noise, data>>

SniffAgain ==
    /\ pc = "gap"
    /\ pc' = "sniff again" /\ seen' = NoPacket
    /\ UNCHANGED <<job, seq, ack, netVars>>

\* The timeout passes: None.  The DUT and the network are quick compared to it.
TimesOut ==
    /\ pc \in {"sniff", "sniff again"}
    /\ toUs = <<>> /\ toDut = <<>>
    /\ pc' = "nothing" /\ seen' = NoPacket
    /\ UNCHANGED <<job, seq, ack, netVars>>

-----------------------------------------------------------------------------
(***************************************************************************)
(* The client role.                                                        *)
(***************************************************************************)
\* What a segment takes of the sequence space: its payload, and one for SYN
\* or FIN.
Takes_NoSyn(flags, n) == n
Takes(flags, n) == n + IF flags \cap {"SYN", "FIN"} # {} THEN 1 ELSE 0

\* TCPConnection.build and TCPSequenceTracker.on_send.
Build(flags, n) ==
    /\ toDut' = Append(toDut, Packet("us", "dut", "tcp", flags, seq, ack, n))
    /\ seq' = Seq32(seq + Takes(flags, n))

\* TCPSequenceTracker.on_receive.
OnReceive(p) == ack' = Seq32(p.seq + p.len + IF p.flags \cap {"SYN", "FIN"} # {} THEN 1 ELSE 0)

\* established_tcp_connection: send_receive of the SYN ...
SendSyn ==
    /\ pc = "syn"
    /\ Build({"SYN"}, 0)
    /\ pc' = "connecting"
    /\ UNCHANGED <<job, ack, seen, toUs, dut, protested, lost, missed, noise, data>>

\* ... whose reply, the first packet that answers it, has to be a SYN-ACK
\* (is_syn_ack); then the ACK.
SynAckOrFail ==
    /\ pc = "connecting"
    /\ \/ /\ toUs # <<>> /\ Head(toUs).src = "dut"
          /\ seen' = Head(toUs) /\ toUs' = Tail(toUs)
          /\ IF {"SYN", "ACK"} \subseteq Head(toUs).flags
             THEN OnReceive(Head(toUs)) /\ pc' = "ack"
             ELSE pc' = "nothing" /\ UNCHANGED ack
       \/ /\ toUs = <<>> /\ toDut = <<>>
          /\ pc' = "nothing" /\ UNCHANGED <<ack, seen, toUs>>
    /\ UNCHANGED <<job, seq, toDut, dut, protested, lost, missed, noise, data>>

\* What is no answer to the SYN does not end the wait.
IgnoresOther ==
    /\ pc = "connecting" /\ toUs # <<>> /\ Head(toUs).src # "dut"
    /\ toUs' = Tail(toUs)
    /\ UNCHANGED <<job, pc, seq, ack, seen, toDut, dut, protested, lost, missed, noise, data>>

SendAck ==
    /\ pc = "ack"
    /\ Build({"ACK"}, 0)
    /\ pc' = "open"
    /\ UNCHANGED <<job, ack, seen, toUs, dut, protested, lost, missed, noise, data>>

\* The test's own segments, data or FIN ...
SendSegment ==
    /\ pc = "open" /\ data.us < MaxData
    /\ \E n \in 0..MaxLen, fin \in {{}, {"FIN"}} : Build({"ACK"} \cup fin, n)
    /\ data' = [data EXCEPT !.us = IF "FIN" \in toDut'[Len(toDut')].flags THEN MaxData ELSE @ + 1]
    /\ UNCHANGED <<job, pc, ack, seen, toUs, dut, protested, lost, missed, noise>>

\* ... and what it reads of the DUT's.
ReadSegment ==
    /\ pc = "open" /\ toUs # <<>>
    /\ toUs' = Tail(toUs) /\ seen' = Head(toUs)
    /\ IF Head(toUs).src = "dut" THEN OnReceive(Head(toUs)) ELSE UNCHANGED ack
    /\ UNCHANGED <<job, pc, seq, toDut, dut, protested, lost, missed, noise, data>>

\* Teardown: a RST at the tracker's place.
Teardown ==
    /\ pc = "open"
    /\ Build({"RST"}, 0)
    /\ pc' = "closed"
    /\ UNCHANGED <<job, ack, seen, toUs, dut, protested, lost, missed, noise, data>>

-----------------------------------------------------------------------------
(***************************************************************************)
(* The DUT and the network.                                                *)
(***************************************************************************)
Wrap(n) == n % Modulus
Says(flags, sq, ak, n) == toUs' = Append(toUs, Packet("dut", "us", Proto, flags, sq, ak, n))

DutSpeaks ==
    /\ job # "connect" /\ dut.state = "closed"
    /\ \E iss \in Numbers :
          /\ Says(IF job = "icmp-serve" THEN {"request"} ELSE IF job = "tcp-serve" THEN {"SYN"}
                  ELSE {}, iss, 0, 0)
          /\ dut' = [dut EXCEPT !.state = "syn-sent", !.snd = Wrap(iss + 1), !.una = iss]
    /\ UNCHANGED <<job, pc, seq, ack, seen, toDut, protested, lost, missed, noise, data>>

\* An acknowledgement of something sent and not more than that.
AckFits(p) == Wrap(p.ack + Modulus - dut.una) <= Wrap(dut.snd + Modulus - dut.una)

Accepts(p) ==
    CASE dut.state = "closed"   -> p.flags = {"SYN"}
      [] dut.state = "syn-sent" -> p.flags = {"SYN", "ACK"} /\ p.ack = dut.snd
      [] dut.state \in {"syn-received", "established"}
            -> p.seq = dut.rcv /\ ("ACK" \in p.flags => AckFits(p))
      [] OTHER -> TRUE

DutTakes ==
    /\ toDut # <<>>
    /\ toDut' = Tail(toDut)
    /\ LET p == Head(toDut) IN
          IF p.dst # "dut" \/ p.proto # "tcp"
          THEN UNCHANGED <<dut, protested, toUs>>
          ELSE IF ~ Accepts(p)
          THEN protested' = TRUE /\ UNCHANGED <<dut, toUs>>
          ELSE /\ UNCHANGED protested
               /\ CASE dut.state = "closed" ->
                         \E iss \in Numbers :
                            /\ dut' = [state |-> "syn-received", snd |-> Wrap(iss + 1),
                                       una |-> iss, rcv |-> Wrap(p.seq + 1)]
                            /\ Says({"SYN", "ACK"}, iss, Wrap(p.seq + 1), 0)
                    [] dut.state = "syn-sent" ->
                         /\ dut' = [dut EXCEPT !.state = "established", !.una = p.ack,
                                               !.rcv = Wrap(p.seq + 1)]
                         /\ Says({"ACK"}, dut.snd, Wrap(p.seq + 1), 0)
                    [] dut.state \in {"syn-received", "established"} ->
                         /\ dut' = [dut EXCEPT
                               !.state = IF "RST" \in p.flags THEN "reset" ELSE "established",
                               !.una = IF "ACK" \in p.flags THEN p.ack ELSE @,
                               !.rcv = Wrap(@ + p.len + Cardinality(p.flags \cap {"SYN", "FIN"}))]
                         /\ UNCHANGED toUs
                    [] OTHER -> UNCHANGED <<dut, toUs>>
    /\ UNCHANGED <<job, pc, seq, ack, seen, lost, missed, noise, data>>

DutSends ==
    /\ job = "connect" /\ dut.state = "established" /\ data.dut < MaxData
    /\ \E n \in 1..MaxLen :
          /\ Says({"ACK"}, dut.snd, dut.rcv, n)
          /\ dut' = [dut EXCEPT !.snd = Wrap(@ + n)]
    /\ data' = [data EXCEPT !.dut = @ + 1]
    /\ UNCHANGED <<job, pc, seq, ack, seen, toDut, protested, lost, missed, noise>>

OthersSend ==
    /\ noise < MaxNoise
    /\ \E p \in Noise : toUs' = Append(toUs, p)
    /\ noise' = noise + 1
    /\ UNCHANGED <<job, pc, seq, ack, seen, toDut, dut, protested, lost, missed, data>>

Loses ==
    /\ Lossy /\ lost' = TRUE
    /\ \/ toUs # <<>> /\ toUs' = Tail(toUs) /\ UNCHANGED toDut
       \/ toDut # <<>> /\ toDut' = Tail(toDut) /\ UNCHANGED toUs
    /\ UNCHANGED <<job, pc, seq, ack, seen, dut, protested, missed, noise, data>>

-----------------------------------------------------------------------------
Serve   == Arrives \/ SendReply \/ SniffAgain \/ TimesOut
Connect == SendSyn \/ SynAckOrFail \/ IgnoresOther \/ SendAck \/ SendSegment \/ ReadSegment
           \/ Teardown
Outside == DutSpeaks \/ DutTakes \/ DutSends \/ OthersSend \/ Loses

Over == pc \in {"served", "nothing", "closed"} /\ UNCHANGED vars

Next == Serve \/ Connect \/ Outside \/ Over
Spec == Init /\ [][Next]_vars

-----------------------------------------------------------------------------
(***************************************************************************)
(* Properties.                                                             *)
(***************************************************************************)
\* The type of the state; every number the suite puts into a segment or keeps
\* for the next one fits the field.
TypeOK ==
    /\ job \in Jobs
    /\ pc \in {"sniff", "reply", "gap", "sniff again", "served", "nothing", "syn",
               "connecting", "ack", "open", "closed"}
    /\ seq \in Numbers /\ ack \in Numbers
    /\ \A i \in 1..Len(toDut) : toDut[i].seq \in Numbers /\ toDut[i].ack \in Numbers
    /\ {protested, lost, missed} \subseteq BOOLEAN
    /\ noise \in 0..MaxNoise /\ data \in [{"us", "dut"} -> 0..MaxData]

\* The tracker stays in step with the peer through SYN, data, FIN and every
\* wrap of either side's numbers, and so does the SYN-ACK of the responder:
\* unless the network loses something, the DUT never has a reason to reject a
\* segment of the suite, the RST of the teardown included, which must abort the
\* connection.
InStep == TypeOK /\ (~ lost => ~ protested)

\* serve_tcp_handshake returns None to a DUT that has completed the handshake
\* only if its ACK was lost, or came in the gap between the suite's SYN-ACK
\* and its second sniff.
HandshakeSeen ==
    /\ job = "tcp-serve" /\ pc = "nothing" /\ dut.state = "established"
    => lost \/ missed

\* responder.py: "A non-None return means the DUT completed a three-way
\* handshake it initiated".
ServedMeansEstablished ==
    job = "tcp-serve" /\ pc = "served" => dut.state = "established"
=============================================================================
