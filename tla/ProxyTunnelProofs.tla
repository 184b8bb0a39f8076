-------------------------- MODULE ProxyTunnelProofs --------------------------
(***************************************************************************)
(* Proofs about ProxyTunnel, for every set of configurations, whatever a   *)
(* DUT answers and however it cuts, delays or drops it.                    *)
(***************************************************************************)
EXTENDS ProxyTunnel, SequenceTheorems, TLAPS

-----------------------------------------------------------------------------
(***************************************************************************)
(* The inductive invariant.                                                *)
(***************************************************************************)
Idle  == {"start", "failed", "closed"}
InUse == {"open", "exact", "eof"}

\* The client holds a socket exactly while it is connecting or connected.
SocketOK ==
    /\ stage \in Idle \cup HandshakeStages \cup InUse
    /\ sock \in BOOLEAN
    /\ sock = TRUE <=> stage \notin Idle

\* A request that is not answered yet: nothing has come, and nothing can.
Asking ==
    /\ \/ stage = "head" /\ asked = "connect" /\ want = 1
       \/ stage = "method" /\ asked = "greeting" /\ want = 2
       \/ stage = "userpass" /\ asked = "userpass" /\ want = 2
       \/ stage = "reply" /\ asked = "request" /\ want = 4
    /\ buf = <<>> /\ wire = <<>> /\ owed = <<>> /\ relayed = <<>>
    /\ verdict \in {None, "more"}

\* A read under way that started behind the first off bytes of reply b: the
\* buffer continues there, what is in transit or not yet sent is the rest of the
\* reply and the relayed stream, and no read reaches beyond a reply that grants.
\* A reset loses what was in transit.
Reading(b, off) ==
    /\ Len(buf) <= want /\ off + Len(buf) + Len(owed) <= Len(b)
    /\ \A i \in 1..Len(buf) : buf[i] = b[off + i]
    /\ peer # "rst" => wire \o owed = SubSeq(b, off + Len(buf) + 1, Len(b)) \o relayed
    /\ relayed # <<>> => owed = <<>>
    /\ IF verdict = "grant" THEN off + want <= Len(b) ELSE relayed = <<>>

\* Which reply it is, where the read started and what is known of the reply by then.
ReadingHead ==
    /\ stage = "head"
    /\ \E r \in Replies["connect"] : verdict = r.means /\ Reading(r.bytes, 0)

Negotiating(r) ==
    /\ want = 2 /\ Reading(r.bytes, 0)
    /\ verdict = IF r.means = "grant" THEN "more" ELSE r.means

ReadingMethod   == stage = "method" /\ \E r \in Replies["greeting"] : Negotiating(r)
ReadingUserPass == stage = "userpass" /\ \E r \in Replies["userpass"] : Negotiating(r)

HeaderRead(b) ==
    /\ Len(b) >= 4 /\ b[1] = Socks5Version /\ code = b[2]
    /\ b[4] \in {AtypIPv4, AtypDomain, AtypIPv6}

ReplyStage(b, off) ==
    \/ stage = "reply" /\ off = 0 /\ want = 4
    \/ /\ stage = "address" /\ off = 4 /\ HeaderRead(b)
       /\ b[4] # AtypDomain /\ want = PortAt(b) - 4
    \/ /\ stage = "length" /\ off = 4 /\ HeaderRead(b)
       /\ b[4] = AtypDomain /\ want = 1
    \/ /\ stage = "domain" /\ off = 5 /\ HeaderRead(b)
       /\ b[4] = AtypDomain /\ Len(b) >= 5 /\ want = b[5]
    \/ stage = "port" /\ off = PortAt(b) /\ HeaderRead(b) /\ HasHeader(b) /\ want = 2

ReadingReply ==
    \E r \in Replies["request"], off \in Nat :
       verdict = r.means /\ Reading(r.bytes, off) /\ ReplyStage(r.bytes, off)

\* An inline DUT has nothing to grant, and relays from the start.
Inline ==
    /\ stage = "transparent"
    /\ want = 0 /\ buf = <<>> /\ owed = <<>> /\ verdict = "grant"
    /\ peer # "rst" => wire = relayed

HandshakeOK ==
    stage \in HandshakeStages =>
       /\ raised = None /\ got = <<>>
       /\ \/ Asking
          \/ asked = None /\ (Inline \/ ReadingHead \/ ReadingMethod \/ ReadingUserPass
                              \/ ReadingReply)

\* Before connect() nothing has been said.
StartOK ==
    stage = "start" =>
       /\ raised = None /\ asked = None /\ verdict = None /\ peer = "open"
       /\ buf = <<>> /\ wire = <<>> /\ owed = <<>> /\ relayed = <<>> /\ got = <<>>

\* A tunnel in use was granted, and what is not read of its stream is on the wire.
InUseOK ==
    stage \in InUse =>
       /\ verdict = "grant" /\ owed = <<>> /\ asked = None
       /\ peer # "rst" => got \o buf \o wire = relayed
       /\ stage = "open" => buf = <<>>

\* What is left of the DUT's side when the client is done.
IdleOK ==
    /\ stage = "closed" => verdict = "grant" /\ owed = <<>>
    /\ verdict = "refuse" /\ stage = "failed"
          => raised \notin {"ProtocolViolation", "ConfigurationError"}
    /\ raised = "ProxyTunnelError" => details # Nothing
    /\ peer = "rst" => wire = <<>>
    /\ answer = << <<>> >> => peer = "fin"

\* The invariant every step of the client and of the DUT preserves.
Exchange  == TypeOK /\ StartOK /\ HandshakeOK /\ InUseOK /\ IdleOK
TunnelInv == SocketOK /\ Exchange

\* What a step does to the abstract client: nothing, or one of its three steps.
Stays ==
    /\ \/ stage \in Idle /\ stage' \in Idle
       \/ stage \in HandshakeStages /\ stage' \in HandshakeStages
       \/ stage \in InUse /\ stage' \in InUse
    /\ sock' = sock
Dials       == stage \in Idle /\ stage' \in HandshakeStages /\ sock' = TRUE
Establishes == stage \in HandshakeStages /\ stage' \in InUse /\ sock' = sock
Closes      == stage \notin Idle /\ stage' \in Idle /\ sock' = FALSE
ClientStep  == Stays \/ Dials \/ Establishes \/ Closes

-----------------------------------------------------------------------------
(***************************************************************************)
(* Sequences cut into pieces.                                              *)
(***************************************************************************)

\* What follows what, written as one sequence.
LEMMA Associative ==
    \A u \in Seq(Bytes), v \in Seq(Bytes), w \in Seq(Bytes) :
        (u \o v) \o w = u \o (v \o w)
<1> TAKE u \in Seq(Bytes), v \in Seq(Bytes), w \in Seq(Bytes)
<1> QED
  BY ConcatAssociative

\* A sequence, cut behind its k-th element.
LEMMA Cut ==
    ASSUME NEW s \in Seq(Bytes), NEW k \in 1..Len(s)
    PROVE  /\ SubSeq(s, 1, k) \in Seq(Bytes) /\ Len(SubSeq(s, 1, k)) = k
           /\ SubSeq(s, k + 1, Len(s)) \in Seq(Bytes)
           /\ Len(SubSeq(s, k + 1, Len(s))) = Len(s) - k
           /\ SubSeq(s, 1, k) \o SubSeq(s, k + 1, Len(s)) = s
           /\ \A i \in 1..k : SubSeq(s, 1, k)[i] = s[i]
<1>1. Len(s) \in Nat /\ \A i \in 1..Len(s) : s[i] \in Bytes
  BY LenProperties, ElementOfSeq
<1>2. /\ SubSeq(s, 1, k) \in Seq(Bytes) /\ Len(SubSeq(s, 1, k)) = k
      /\ \A i \in 1..k : SubSeq(s, 1, k)[i] = s[i]
  BY <1>1
<1>3. /\ SubSeq(s, k + 1, Len(s)) \in Seq(Bytes)
      /\ Len(SubSeq(s, k + 1, Len(s))) = Len(s) - k
  BY <1>1
<1>4. SubSeq(s, 1, k) \o SubSeq(s, k + 1, Len(s)) = SubSeq(s, 1, Len(s))
  BY <1>1, ConcatAdjacentSubSeq
<1> QED
  BY <1>2, <1>3, <1>4, SubSeqFull

\* Moving the front of one sequence to the end of another keeps the whole.
LEMMA Moved ==
    ASSUME NEW s \in Seq(Bytes), NEW t \in Seq(Bytes), NEW k \in 1..Len(t)
    PROVE  /\ s \o SubSeq(t, 1, k) \in Seq(Bytes)
           /\ Len(s \o SubSeq(t, 1, k)) = Len(s) + k
           /\ (s \o SubSeq(t, 1, k)) \o SubSeq(t, k + 1, Len(t)) = s \o t
<1>1. /\ SubSeq(t, 1, k) \in Seq(Bytes) /\ Len(SubSeq(t, 1, k)) = k
      /\ SubSeq(t, k + 1, Len(t)) \in Seq(Bytes)
      /\ SubSeq(t, 1, k) \o SubSeq(t, k + 1, Len(t)) = t
  BY Cut
<1>2. /\ s \o SubSeq(t, 1, k) \in Seq(Bytes)
      /\ Len(s \o SubSeq(t, 1, k)) = Len(s) + k
  BY <1>1, ConcatProperties
<1>3. (s \o SubSeq(t, 1, k)) \o SubSeq(t, k + 1, Len(t))
         = s \o (SubSeq(t, 1, k) \o SubSeq(t, k + 1, Len(t)))
  BY <1>1, Associative, Zenon
<1> QED
  BY <1>1, <1>2, <1>3, Zenon

\* A byte behind the second of two sequences is behind both.
LEMMA AppendBehind ==
    \A u \in Seq(Bytes), v \in Seq(Bytes), x \in Bytes :
        Append(u \o v, x) = u \o Append(v, x)
<1> TAKE u \in Seq(Bytes), v \in Seq(Bytes), x \in Bytes
<1>1. u \o v \in Seq(Bytes) /\ <<x>> \in Seq(Bytes)
  BY ConcatProperties
<1>2. \A w \in Seq(Bytes) : Append(w, x) = w \o <<x>>
  <2> TAKE w \in Seq(Bytes)
  <2> QED
    BY AppendIsConcat
<1>3. (u \o v) \o <<x>> = u \o (v \o <<x>>)
  BY <1>1, Associative, Zenon
<1> QED
  BY <1>1, <1>2, <1>3, Zenon

\* The bytes w, followed by o, are the rest of b behind its m-th byte and then z; and
\* k of them can be taken without going beyond b.
CanTake(w, o, b, z, m, k) ==
    /\ w \in Seq(Bytes) /\ o \in Seq(Bytes) /\ b \in Seq(Bytes) /\ z \in Seq(Bytes)
    /\ m \in 0..Len(b) /\ w \o o = SubSeq(b, m + 1, Len(b)) \o z
    /\ k \in 1..Len(w) /\ m + k <= Len(b)

\* Then they are the next k of b, and leave its rest behind them.
TakesNext(w, o, b, z, m, k) ==
    /\ \A i \in 1..k : w[i] = b[m + i]
    /\ SubSeq(w, k + 1, Len(w)) \o o = SubSeq(b, m + k + 1, Len(b)) \o z

\* What is taken off a stream is its front, and what is left the rest.
LEMMA Taken ==
    ASSUME NEW w, NEW o, NEW b, NEW z, NEW m, NEW k, CanTake(w, o, b, z, m, k)
    PROVE  TakesNext(w, o, b, z, m, k)
<1> USE DEF CanTake
<1> DEFINE rest == SubSeq(b, m + 1, Len(b))
           later == SubSeq(b, m + k + 1, Len(b))
           w2 == SubSeq(w, k + 1, Len(w))
<1>0. Len(w) \in Nat /\ Len(o) \in Nat /\ Len(b) \in Nat /\ Len(z) \in Nat /\ m \in Nat
      /\ k \in Nat
  OBVIOUS
<1>1. /\ rest \in Seq(Bytes) /\ Len(rest) = Len(b) - m
      /\ \A i \in 1..Len(b) - m : rest[i] = b[m + i]
  BY <1>0
<1>2. /\ later \in Seq(Bytes) /\ Len(later) = Len(b) - m - k
      /\ \A i \in 1..Len(b) - m - k : later[i] = b[m + k + i]
  BY <1>0
<1>3. /\ w2 \in Seq(Bytes) /\ Len(w2) = Len(w) - k
      /\ \A i \in 1..Len(w) - k : w2[i] = w[k + i]
  <2>1. w2 \in Seq(Bytes) /\ Len(w2) = Len(w) - k
    BY Cut
  <2>2. ASSUME NEW i \in 1..Len(w) - k PROVE w2[i] = w[k + i]
    BY <1>0
  <2> QED
    BY <2>1, <2>2
<1> HIDE DEF rest, later, w2
<1>4. /\ w \o o \in Seq(Bytes) /\ Len(w \o o) = Len(w) + Len(o)
      /\ \A i \in 1..Len(w) + Len(o) :
            (w \o o)[i] = IF i <= Len(w) THEN w[i] ELSE o[i - Len(w)]
  BY ConcatProperties
<1>5. /\ rest \o z \in Seq(Bytes) /\ Len(rest \o z) = Len(rest) + Len(z)
      /\ \A i \in 1..Len(rest) + Len(z) :
            (rest \o z)[i] = IF i <= Len(rest) THEN rest[i] ELSE z[i - Len(rest)]
  BY <1>1, ConcatProperties
<1>6. w \o o = rest \o z
  BY DEF rest
<1>7. \A i \in 1..k : w[i] = b[m + i]
  <2> TAKE i \in 1..k
  <2>1. (w \o o)[i] = w[i]
    BY <1>0, <1>4
  <2>2. (rest \o z)[i] = rest[i]
    BY <1>0, <1>1, <1>5
  <2> QED
    BY <1>0, <1>1, <1>6, <2>1, <2>2
<1>8. w2 \o o = later \o z
  <2>1. /\ w2 \o o \in Seq(Bytes) /\ Len(w2 \o o) = Len(w2) + Len(o)
        /\ \A i \in 1..Len(w2) + Len(o) :
              (w2 \o o)[i] = IF i <= Len(w2) THEN w2[i] ELSE o[i - Len(w2)]
    BY <1>3, ConcatProperties
  <2>2. /\ later \o z \in Seq(Bytes) /\ Len(later \o z) = Len(later) + Len(z)
        /\ \A i \in 1..Len(later) + Len(z) :
              (later \o z)[i] = IF i <= Len(later) THEN later[i] ELSE z[i - Len(later)]
    BY <1>2, ConcatProperties
  <2>3. Len(w2 \o o) = Len(later \o z)
    <3>1. Len(w) + Len(o) = Len(rest) + Len(z)
      BY <1>4, <1>5, <1>6, Zenon
    <3>2. Len(w2) + Len(o) = Len(later) + Len(z)
      BY <1>0, <1>1, <1>2, <1>3, <3>1
    <3> QED
      BY <2>1, <2>2, <3>2
  <2>4. ASSUME NEW i \in 1..Len(w2 \o o)
        PROVE  (w2 \o o)[i] = (later \o z)[i]
    <3>0. i \in 1..Len(w2) + Len(o) /\ i \in 1..Len(later) + Len(z)
      BY <2>1, <2>2, <2>3
    <3>1. (w2 \o o)[i] = (w \o o)[k + i]
      <4>1. k + i \in 1..Len(w) + Len(o)
        BY <1>0, <1>3, <3>0
      <4>2. CASE i <= Len(w2)
        <5>1. (w2 \o o)[i] = w2[i] /\ i \in 1..Len(w) - k /\ k + i <= Len(w)
          BY <1>0, <1>3, <2>1, <3>0, <4>2
        <5> QED
          BY <1>3, <1>4, <4>1, <5>1
      <4>3. CASE ~ (i <= Len(w2))
        <5>1. (w2 \o o)[i] = o[i - Len(w2)]
          BY <2>1, <3>0, <4>3
        <5>2. ~ (k + i <= Len(w)) /\ (k + i) - Len(w) = i - Len(w2)
          BY <1>0, <1>3, <3>0, <4>3
        <5>3. (w \o o)[k + i] = o[(k + i) - Len(w)]
          BY <1>4, <4>1, <5>2
        <5> QED
          BY <5>1, <5>2, <5>3
      <4> QED
        BY <4>2, <4>3
    <3>2. (later \o z)[i] = (rest \o z)[k + i]
      <4>1. k + i \in 1..Len(rest) + Len(z)
        BY <1>0, <1>1, <1>2, <3>0
      <4>2. CASE i <= Len(later)
        <5>1. (later \o z)[i] = later[i]
          BY <2>2, <3>0, <4>2
        <5>2. i \in 1..Len(b) - m - k /\ k + i \in 1..Len(b) - m /\ k + i <= Len(rest)
          BY <1>0, <1>1, <1>2, <3>0, <4>2
        <5>3. (rest \o z)[k + i] = rest[k + i]
          BY <1>5, <4>1, <5>2
        <5>4. rest[k + i] = b[m + (k + i)] /\ later[i] = b[m + k + i]
          BY <1>1, <1>2, <5>2
        <5>5. m + (k + i) = m + k + i
          BY <1>0, <5>2
        <5> QED
          BY <5>1, <5>3, <5>4, <5>5
      <4>3. CASE ~ (i <= Len(later))
        <5>1. (later \o z)[i] = z[i - Len(later)]
          BY <2>2, <3>0, <4>3
        <5>2. ~ (k + i <= Len(rest)) /\ (k + i) - Len(rest) = i - Len(later)
          BY <1>0, <1>1, <1>2, <3>0, <4>3
        <5>3. (rest \o z)[k + i] = z[(k + i) - Len(rest)]
          BY <1>5, <4>1, <5>2
        <5> QED
          BY <5>1, <5>2, <5>3
      <4> QED
        BY <4>2, <4>3
    <3> QED
      BY <1>6, <3>1, <3>2
  <2> QED
    BY <2>1, <2>2, <2>3, <2>4, SeqEqual
<1> QED
  BY <1>7, <1>8 DEF w2, later, TakesNext

-----------------------------------------------------------------------------
(***************************************************************************)
(* The read under way.                                                     *)
(***************************************************************************)

\* The sequences of the state are sequences of bytes.
LEMMA Types ==
    ASSUME TypeOK
    PROVE  /\ buf \in Seq(Bytes) /\ wire \in Seq(Bytes) /\ owed \in Seq(Bytes)
           /\ relayed \in Seq(Bytes) /\ got \in Seq(Bytes)
           /\ Len(buf) \in Nat /\ Len(wire) \in Nat /\ Len(owed) \in Nat
           /\ Len(relayed) \in Nat /\ want \in Nat
BY DEF TypeOK

\* What is in transit, in numbers.
LEMMA InTransit ==
    ASSUME TypeOK, NEW b \in Seq(Bytes), NEW off \in Nat, Reading(b, off), peer # "rst"
    PROVE  /\ off + Len(buf) \in 0..Len(b)
           /\ Len(wire) + Len(owed) = Len(b) - (off + Len(buf)) + Len(relayed)
<1>1. /\ wire \in Seq(Bytes) /\ owed \in Seq(Bytes) /\ relayed \in Seq(Bytes)
      /\ Len(buf) \in Nat /\ Len(owed) \in Nat /\ Len(b) \in Nat
  BY Types
<1>2. off + Len(buf) \in 0..Len(b)
  BY <1>1 DEF Reading
<1> DEFINE m == off + Len(buf)
           rest == SubSeq(b, m + 1, Len(b))
<1> HIDE DEF m
<1>3. m \in 0..Len(b)
  BY <1>2 DEF m
<1>4. rest \in Seq(Bytes) /\ Len(rest) = Len(b) - m
  BY <1>3
<1>5. wire \o owed = rest \o relayed
  BY DEF Reading, m
<1> HIDE DEF rest
<1>6. /\ Len(wire \o owed) = Len(wire) + Len(owed)
      /\ Len(rest \o relayed) = Len(rest) + Len(relayed)
  BY <1>1, <1>4, ConcatProperties
<1> QED
  BY <1>2, <1>4, <1>5, <1>6 DEF m

\* A recv() goes on where the last one ended, and never beyond the reply.
LEMMA RecvReading ==
    ASSUME TypeOK, peer = "rst" => wire = <<>>,
           NEW b \in Seq(Bytes), NEW off \in Nat, Reading(b, off),
           NEW k \in 1..(want - Len(buf)), k <= Len(wire),
           buf' = buf \o SubSeq(wire, 1, k), wire' = SubSeq(wire, k + 1, Len(wire)),
           UNCHANGED <<want, owed, verdict, peer, relayed>>
    PROVE  Reading(b, off)'
<1> DEFINE m == off + Len(buf)
<1>1. /\ buf \in Seq(Bytes) /\ wire \in Seq(Bytes) /\ owed \in Seq(Bytes)
      /\ relayed \in Seq(Bytes)
      /\ Len(buf) \in Nat /\ Len(wire) \in Nat /\ Len(owed) \in Nat
      /\ Len(relayed) \in Nat /\ want \in Nat /\ Len(b) \in Nat
      /\ k \in Nat /\ k >= 1 /\ Len(buf) + k <= want /\ k \in 1..Len(wire)
  BY Types
<1>2. peer # "rst"
  <2>1. wire # <<>>
    BY <1>1
  <2> QED
    BY <2>1
<1>3. m \in 0..Len(b) /\ Len(wire) + Len(owed) = Len(b) - m + Len(relayed)
  BY <1>2, InTransit
<1>4. m + k + Len(owed) <= Len(b)
  <2>1. CASE relayed = <<>>
    <3>1. Len(relayed) = 0
      BY <2>1
    <3> QED
      BY <1>1, <1>3, <3>1
  <2>2. CASE relayed # <<>>
    <3>1. owed = <<>> /\ off + want <= Len(b)
      BY <2>2 DEF Reading
    <3>2. Len(owed) = 0
      BY <3>1
    <3> QED
      BY <1>1, <3>1, <3>2
  <2> QED
    BY <2>1, <2>2
<1>5. wire \o owed = SubSeq(b, m + 1, Len(b)) \o relayed
  BY <1>2 DEF Reading
<1>6. m + k <= Len(b)
  BY <1>1, <1>3, <1>4
<1>7. /\ \A i \in 1..k : wire[i] = b[m + i]
      /\ SubSeq(wire, k + 1, Len(wire)) \o owed = SubSeq(b, m + k + 1, Len(b)) \o relayed
  <2>1. CanTake(wire, owed, b, relayed, m, k)
    BY <1>1, <1>3, <1>5, <1>6, Zenon DEF CanTake
  <2>2. TakesNext(wire, owed, b, relayed, m, k)
    BY <2>1, Taken
  <2> QED
    BY <2>2 DEF TakesNext
<1>8. /\ SubSeq(wire, 1, k) \in Seq(Bytes) /\ Len(SubSeq(wire, 1, k)) = k
      /\ \A i \in 1..k : SubSeq(wire, 1, k)[i] = wire[i]
  BY <1>1, Cut
<1>9. Len(buf') = Len(buf) + k /\ off + Len(buf') = m + k
  BY <1>1, <1>8
<1>10. ASSUME NEW i \in 1..Len(buf')
       PROVE  buf'[i] = b[off + i]
  <2>1. buf'[i] = IF i <= Len(buf) THEN buf[i] ELSE SubSeq(wire, 1, k)[i - Len(buf)]
    BY <1>1, <1>8, <1>9
  <2>2. CASE i <= Len(buf)
    BY <1>1, <2>1, <2>2 DEF Reading
  <2>3. CASE ~ (i <= Len(buf))
    <3>1. i - Len(buf) \in 1..k /\ m + (i - Len(buf)) = off + i
      BY <1>1, <1>9, <2>3
    <3> QED
      BY <1>7, <1>8, <2>1, <2>3, <3>1
  <2> QED
    BY <2>2, <2>3
<1>11. Len(buf') <= want' /\ off + Len(buf') + Len(owed') <= Len(b)
  BY <1>1, <1>4, <1>9
<1>12. wire' \o owed' = SubSeq(b, off + Len(buf') + 1, Len(b)) \o relayed'
  BY <1>7, <1>9
<1>13. /\ relayed' # <<>> => owed' = <<>>
       /\ IF verdict' = "grant" THEN off + want' <= Len(b) ELSE relayed' = <<>>
  BY DEF Reading
<1> QED
  BY <1>10, <1>11, <1>12, <1>13 DEF Reading

\* The next read starts where this one ended.
LEMMA ContinueReading ==
    ASSUME TypeOK, NEW b \in Seq(Bytes), NEW off \in Nat, Reading(b, off),
           NEW next \in Nat, next = off + Len(buf),
           NEW n \in Nat, verdict = "grant" => next + n <= Len(b),
           NEW s, Read(s, n), UNCHANGED dutVars
    PROVE  Reading(b, next)'
<1>1. Len(buf) \in Nat /\ Len(owed) \in Nat /\ Len(b) \in Nat
  BY Types
<1>2. buf' = <<>> /\ Len(buf') = 0 /\ want' = n /\ Len(buf') <= want'
  BY DEF Read
<1>3. UNCHANGED <<wire, owed, verdict, peer, relayed>>
  BY DEF dutVars
<1>4. next + Len(buf') + Len(owed') <= Len(b)
  BY <1>1, <1>2, <1>3 DEF Reading
<1>5. next + Len(buf') + 1 = off + Len(buf) + 1
  BY <1>1, <1>2
<1>6. peer' # "rst" => wire' \o owed' = SubSeq(b, next + Len(buf') + 1, Len(b)) \o relayed'
  BY <1>3, <1>5 DEF Reading
<1>7. \A i \in 1..Len(buf') : buf'[i] = b[next + i]
  BY <1>2
<1>8. IF verdict' = "grant" THEN next + want' <= Len(b) ELSE relayed' = <<>>
  BY <1>2, <1>3 DEF Reading
<1>9. relayed' # <<>> => owed' = <<>>
  BY <1>3 DEF Reading
<1> QED
  BY <1>2, <1>4, <1>6, <1>7, <1>8, <1>9, Zenon DEF Reading

\* The DUT's reply starts to come.
LEMMA AnswerReading ==
    ASSUME NEW b \in Seq(Bytes), buf' = <<>>, wire' = <<>>, relayed' = <<>>, owed' = b,
           want' \in Nat, verdict' = "grant" => want' <= Len(b)
    PROVE  Reading(b, 0)'
<1>1. Len(b) \in Nat /\ Len(buf') = 0 /\ Len(buf') <= want'
  OBVIOUS
<1>2. SubSeq(b, 1, Len(b)) = b
  BY SubSeqFull
<1>3. 0 + Len(buf') + 1 = 1 /\ 0 + Len(buf') + Len(owed') <= Len(b)
  BY <1>1
<1>4. wire' \o owed' = SubSeq(b, 0 + Len(buf') + 1, Len(b)) \o relayed'
  BY <1>2, <1>3, ConcatEmptySeq
<1>5. verdict' = "grant" => 0 + want' <= Len(b)
  OBVIOUS
<1> QED
  BY <1>1, <1>3, <1>4, <1>5 DEF Reading

\* The DUT sends more of its reply.
LEMMA SendReading ==
    ASSUME TypeOK, NEW b \in Seq(Bytes), NEW off \in Nat, Reading(b, off),
           NEW k \in 1..Len(owed),
           wire' = wire \o SubSeq(owed, 1, k), owed' = SubSeq(owed, k + 1, Len(owed)),
           UNCHANGED <<buf, want, verdict, peer, relayed>>
    PROVE  Reading(b, off)'
<1>1. /\ wire \in Seq(Bytes) /\ owed \in Seq(Bytes)
      /\ Len(buf) \in Nat /\ Len(owed) \in Nat /\ Len(b) \in Nat
  BY Types
<1>2. wire' \o owed' = wire \o owed
  BY <1>1, Moved
<1>3. Len(owed') = Len(owed) - k
  BY <1>1, Cut
<1>4. Len(buf') <= want' /\ off + Len(buf') + Len(owed') <= Len(b)
  <2>1. Len(buf) <= want /\ off + Len(buf) + Len(owed) <= Len(b)
    BY DEF Reading
  <2>2. Len(buf') = Len(buf) /\ want' = want
    OBVIOUS
  <2>3. k \in Nat /\ off + Len(buf) + (Len(owed) - k) <= Len(b)
    BY <1>1, <2>1
  <2> QED
    BY <1>3, <2>1, <2>2, <2>3
<1>5. relayed' = <<>>
  <2>1. owed # <<>>
    BY <1>1
  <2> QED
    BY <2>1 DEF Reading
<1> QED
  BY <1>2, <1>4, <1>5 DEF Reading

\* The DUT relays a byte, behind all it has sent.
LEMMA RelayReading ==
    ASSUME TypeOK, NEW b \in Seq(Bytes), NEW off \in Nat, Reading(b, off),
           verdict = "grant", owed = <<>>, NEW x \in Bytes,
           wire' = Append(wire, x), relayed' = Append(relayed, x),
           UNCHANGED <<buf, want, owed, verdict, peer>>
    PROVE  Reading(b, off)'
<1>1. /\ wire \in Seq(Bytes) /\ relayed \in Seq(Bytes)
      /\ Len(buf) \in Nat /\ Len(b) \in Nat
  BY Types
<1> DEFINE rest == SubSeq(b, off + Len(buf) + 1, Len(b))
<1>2. rest \in Seq(Bytes)
  BY <1>1
<1>3. peer' # "rst" => wire' \o owed' = rest \o relayed'
  <2> HAVE peer' # "rst"
  <2>1. wire \o owed = rest \o relayed
    BY DEF Reading
  <2> HIDE DEF rest
  <2>2. wire = rest \o relayed
    BY <1>1, <2>1, ConcatEmptySeq
  <2>3. wire' \o owed' = wire'
    BY <1>1, AppendProperties, ConcatEmptySeq
  <2>4. rest \in Seq(Bytes)
    BY <1>2 DEF rest
  <2>5. Append(rest \o relayed, x) = rest \o Append(relayed, x)
    BY <1>1, <2>4, AppendBehind, Zenon
  <2> QED
    BY <2>2, <2>3, <2>5
<1>4. /\ Len(buf') <= want' /\ off + Len(buf') + Len(owed') <= Len(b)
      /\ \A i \in 1..Len(buf') : buf'[i] = b[off + i]
      /\ off + want' <= Len(b)
  BY DEF Reading
<1> QED
  BY <1>3, <1>4 DEF Reading

\* The DUT closes its side; a reset loses what was in transit.
LEMMA CloseReading ==
    ASSUME NEW b \in Seq(Bytes), NEW off \in Nat, Reading(b, off), peer # "rst",
           peer' = "rst" \/ wire' = wire,
           UNCHANGED <<buf, want, owed, verdict, relayed>>
    PROVE  Reading(b, off)'
BY DEF Reading

\* All that was read is all there is of the reply: the rest is the relayed stream.
LEMMA ReadWhole ==
    ASSUME TypeOK, NEW b \in Seq(Bytes), NEW off \in Nat, Reading(b, off),
           off + Len(buf) = Len(b)
    PROVE  owed = <<>> /\ (peer # "rst" => wire = relayed)
<1>1. /\ wire \in Seq(Bytes) /\ owed \in Seq(Bytes) /\ relayed \in Seq(Bytes)
      /\ Len(buf) \in Nat /\ Len(owed) \in Nat /\ Len(b) \in Nat
  BY Types
<1>2. owed = <<>>
  <2>1. off + Len(buf) + Len(owed) <= Len(b)
    BY DEF Reading
  <2>2. Len(owed) = 0
    BY <1>1, <2>1
  <2> QED
    BY <1>1, <2>2, EmptySeq
<1>3. ASSUME peer # "rst" PROVE wire = relayed
  <2>1. wire \o owed = SubSeq(b, Len(b) + 1, Len(b)) \o relayed
    BY <1>3 DEF Reading
  <2>2. SubSeq(b, Len(b) + 1, Len(b)) = <<>>
    BY <1>1, SubSeqEmpty
  <2> QED
    BY <1>1, <1>2, <2>1, <2>2, ConcatEmptySeq
<1> QED
  BY <1>2, <1>3

-----------------------------------------------------------------------------
(***************************************************************************)
(* What the DUT's replies are.                                             *)
(***************************************************************************)
\* A reply is made of bytes and means something.
IsReply(r) == r.bytes \in Seq(Bytes) /\ r.means \in {"grant", "refuse", "bad"}

\* An HTTP response head.
LEMMA ConnectReplies ==
    ASSUME NEW r \in Replies["connect"]
    PROVE  /\ IsReply(r) /\ r.means = HeadMeans(r.bytes)
           /\ \A k \in 4..Len(r.bytes)-1 : ~ EndsHead(r.bytes, k)
           /\ r.means # "bad" => WholeHead(r.bytes)
           /\ r.means = "grant" => Len(r.bytes) >= 4
<1>1. ConnectReply(r)
  BY DutAssumption
<1>2. r.bytes \in Seq(Bytes) /\ r.means = HeadMeans(r.bytes)
  BY <1>1 DEF ConnectReply
<1>3. Len(r.bytes) \in Nat
  BY <1>2
<1>4. WholeHead(r.bytes) => Len(r.bytes) >= 4
  BY <1>3 DEF WholeHead
<1> QED
  BY <1>1, <1>2, <1>4 DEF ConnectReply, HeadMeans, IsReply

\* Octets are bytes of the stream.
LEMMA OctetSeq ==
    ASSUME NEW b \in Seq(Octets)
    PROVE  b \in Seq(Bytes) /\ \A i \in 1..Len(b) : b[i] \in Octets
<1>1. \A i \in 1..Len(b) : b[i] \in Octets
  BY ElementOfSeq
<1> QED
  BY <1>1, SeqMonotonic DEF Octets, Bytes

\* Bytes are numbers.
LEMMA BytesAreNumbers == Bytes \subseteq Nat
BY DEF Bytes

\* The method selected.
LEMMA GreetingReplies ==
    ASSUME NEW r \in Replies["greeting"]
    PROVE  /\ IsReply(r) /\ r.means = GreetingMeans(r.bytes) /\ Len(r.bytes) <= 2
           /\ \A i \in 1..Len(r.bytes) : r.bytes[i] \in Octets
<1>1. GreetingReply(r)
  BY DutAssumption
<1> QED
  BY <1>1, OctetSeq DEF GreetingReply, GreetingMeans, IsReply

\* The status of the credentials.
LEMMA UserPassReplies ==
    ASSUME NEW r \in Replies["userpass"]
    PROVE  /\ IsReply(r) /\ r.means = UserPassMeans(r.bytes) /\ Len(r.bytes) <= 2
           /\ \A i \in 1..Len(r.bytes) : r.bytes[i] \in Octets
<1>1. UserPassReply(r)
  BY DutAssumption
<1> QED
  BY <1>1, OctetSeq DEF UserPassReply, UserPassMeans, IsReply

\* Where the port of a reply lies.
LEMMA PortPlace ==
    ASSUME NEW b \in Seq(Octets), HasHeader(b)
    PROVE  /\ PortAt(b) \in Nat
           /\ b[4] = AtypDomain => b[5] \in Nat /\ PortAt(b) = 5 + b[5]
<1>1. \A i \in 1..Len(b) : b[i] \in Octets
  BY OctetSeq
<1>2. Len(b) \in Nat
  OBVIOUS
<1>3. ASSUME b[4] = AtypDomain PROVE b[5] \in Nat
  <2>1. Len(b) >= 5
    BY <1>3 DEF HasHeader
  <2>2. b[5] \in Octets
    BY <1>1, <1>2, <2>1
  <2>3. Octets \subseteq Nat
    BY DEF Octets
  <2> QED
    BY <2>2, <2>3, Zenon
<1> QED
  BY <1>3 DEF PortAt, HasHeader, AtypIPv4, AtypIPv6, AtypDomain

\* The reply to the SOCKS5 request.
LEMMA RequestReplies ==
    ASSUME NEW r \in Replies["request"]
    PROVE  /\ IsReply(r) /\ r.bytes \in Seq(Octets)
           /\ \A i \in 1..Len(r.bytes) : r.bytes[i] \in Octets
           /\ HasHeader(r.bytes) => Len(r.bytes) <= PortAt(r.bytes) + 2
           /\ r.means # "bad" <=> WholeReply(r.bytes)
           /\ WholeReply(r.bytes) => r.means = IF r.bytes[2] = 0 THEN "grant" ELSE "refuse"
           /\ r.means = "grant" => Len(r.bytes) >= 4
<1>1. RequestReply(r)
  BY DutAssumption
<1>2. WholeReply(r.bytes) => Len(r.bytes) >= 4
  BY DEF WholeReply, HasHeader
<1> QED
  BY <1>1, <1>2, OctetSeq DEF RequestReply, RequestMeans, IsReply

\* The status lines of a success.
LEMMA SuccessStatus ==
    \A x \in Nat : x >= 1000 /\ TunnelEstablished(x - 1000)
                    => x \in StatusLine(200)..StatusLine(299)
BY DEF TunnelEstablished, StatusLine

\* The client stops at the first empty line.
LEMMA HeadCompleteIs ==
    ASSUME NEW b \in Seq(Bytes)
    PROVE  HeadComplete(b) <=> Len(b) >= 4 /\ EndsHead(b, Len(b))
<1> DEFINE n == Len(b)
           t == HeaderTerminator
<1>1. n \in Nat /\ Len(t) = 4 /\ t[1] = CR /\ t[2] = LF /\ t[3] = CR /\ t[4] = LF
  BY DEF HeaderTerminator
<1>2. SUFFICES ASSUME n >= 4 PROVE IsSuffix(t, b) <=> EndsHead(b, n)
  BY DEF HeadComplete
<1>3. /\ Len(Reverse(t)) = 4 /\ Reverse(t) \in Seq(Bytes)
      /\ Reverse(t)[1] = LF /\ Reverse(t)[2] = CR /\ Reverse(t)[3] = LF /\ Reverse(t)[4] = CR
  <2>1. CR \in Bytes /\ LF \in Bytes
    BY DEF CR, LF, Bytes
  <2>2. Reverse(t) = [i \in 1..4 |-> t[(4 - i) + 1]]
    BY <1>1 DEF Reverse
  <2> HIDE DEF t
  <2>3. \A i \in 1..4 : Reverse(t)[i] \in Bytes
    BY <1>1, <2>1, <2>2
  <2>4. Reverse(t) \in Seq(Bytes) /\ Len(Reverse(t)) = 4
    BY <2>2, <2>3
  <2> QED
    BY <1>1, <2>2, <2>4
<1>4. /\ Reverse(b) \in Seq(Bytes) /\ Len(Reverse(b)) = n
      /\ \A i \in 1..n : Reverse(b)[i] = b[(n - i) + 1]
  BY <1>1 DEF Reverse
<1> DEFINE front == SubSeq(Reverse(b), 1, 4)
           whole == SubSeq(Reverse(t), 1, 4)
<1>5. /\ front \in Seq(Bytes) /\ Len(front) = 4
      /\ front[1] = b[n] /\ front[2] = b[n-1] /\ front[3] = b[n-2] /\ front[4] = b[n-3]
  <2>1. /\ front \in Seq(Bytes) /\ Len(front) = 4
        /\ \A i \in 1..4 : front[i] = Reverse(b)[i]
    BY <1>1, <1>2, <1>4
  <2>2. \A i \in 1..4 : front[i] = b[(n - i) + 1]
    BY <1>1, <1>2, <1>4, <2>1
  <2> QED
    BY <1>1, <2>1, <2>2
<1>6. whole = Reverse(t)
  BY <1>3, SubSeqFull
<1>7. IsSuffix(t, b) <=> whole = front
  BY <1>1, <1>2, <1>3, <1>4 DEF IsSuffix, IsPrefix
<1>8. EndsHead(b, n) <=> \A i \in 1..4 : front[i] = Reverse(t)[i]
  BY <1>3, <1>5 DEF EndsHead
<1> HIDE DEF front, whole
<1>9. Reverse(t) = front <=> \A i \in 1..4 : front[i] = Reverse(t)[i]
  <2>1. ASSUME \A i \in 1..4 : front[i] = Reverse(t)[i] PROVE front = Reverse(t)
    BY <1>3, <1>5, <2>1, SeqEqual
  <2> QED
    BY <2>1
<1> QED
  BY <1>2, <1>6, <1>7, <1>8, <1>9

-----------------------------------------------------------------------------
(***************************************************************************)
(* The steps.                                                              *)
(***************************************************************************)

\* The ways out of a stage of the handshake.
LEMMA HandshakeExits ==
    ASSUME stage \in HandshakeStages
    PROVE  /\ \A kind, told : Abort(kind, told) => Closes
           /\ \A told : Established(told) => Establishes
           /\ \A n : \A s \in HandshakeStages : Continue(s, n) => Stays
           /\ \A kind, n : \A s \in HandshakeStages : Request(kind, s, n) => Stays
<1>1. stage \notin Idle
  BY DEF HandshakeStages, Idle
<1> QED
  BY <1>1 DEF Abort, AbortedSocket, Established, Continue, Request, Read, Closes, Establishes,
              Stays, Idle, InUse

\* A judgement of what was read goes on, fails or establishes the tunnel.
LEMMA DecideStep ==
    ASSUME Decide
    PROVE  ClientStep
<1> USE DEF ClientStep
<1>1. CASE DecideTransparent
  BY <1>1, HandshakeExits DEF DecideTransparent, HandshakeStages
<1>2. CASE DecideHead
  <2>1. stage \in HandshakeStages
    BY <1>2 DEF DecideHead, HandshakeStages
  <2>2. \/ \E kind, told : Abort(kind, told)
        \/ \E told : Established(told)
        \/ UNCHANGED <<stage, sock>>
    BY <1>2 DEF DecideHead
  <2> QED
    BY <2>1, <2>2, HandshakeExits DEF Stays
<1>3. CASE DecideMethod \/ DecideUserPass
  <2>1. stage \in HandshakeStages
    BY <1>3 DEF DecideMethod, DecideUserPass, HandshakeStages
  <2>2. \/ \E kind, told : Abort(kind, told)
        \/ \E kind, n : \E s \in HandshakeStages : Request(kind, s, n)
    <3>1. "reply" \in HandshakeStages /\ "userpass" \in HandshakeStages
      BY DEF HandshakeStages
    <3>2. \/ \E kind, told : Abort(kind, told)
          \/ AskRequest
          \/ AskUserPass
      BY <1>3, Zenon DEF DecideMethod, DecideUserPass
    <3>3. \/ \E kind, told : Abort(kind, told)
          \/ Request("request", "reply", 4)
          \/ Request("userpass", "userpass", 2)
      BY <3>2, Zenon DEF AskRequest, AskUserPass
    <3> QED
      BY <3>1, <3>3, Zenon
  <2> QED
    BY <2>1, <2>2, HandshakeExits
<1>4. CASE DecideReply \/ DecideAddress
  <2>1. stage \in HandshakeStages
    BY <1>4 DEF DecideReply, DecideAddress, HandshakeStages
  <2>2. \/ \E kind, told : Abort(kind, told)
        \/ \E n : \E s \in HandshakeStages : Continue(s, n)
    BY <1>4 DEF DecideReply, DecideAddress, HandshakeStages
  <2> QED
    BY <2>1, <2>2, HandshakeExits
<1>5. CASE DecidePort
  <2>1. stage \in HandshakeStages
    BY <1>5 DEF DecidePort, HandshakeStages
  <2>2. \/ \E kind, told : Abort(kind, told)
        \/ \E told : Established(told)
    BY <1>5 DEF DecidePort
  <2> QED
    BY <2>1, <2>2, HandshakeExits
<1> QED
  BY <1>1, <1>2, <1>3, <1>4, <1>5 DEF Decide

\* Every step is a step of the abstract client, or none.
LEMMA NextStep ==
    ASSUME SocketOK, [Next]_vars
    PROVE  ClientStep
<1> USE DEF ClientStep
<1>1. CASE Dial
  BY <1>1 DEF Dial, FirstMessage, AskConnect, AskGreeting, Read, Dials, Stays, Idle,
              HandshakeStages
<1>2. CASE Recv \/ EofRecv \/ HalfClose \/ Dut \/ Over \/ UNCHANGED vars
  <2>1. UNCHANGED <<stage, sock>>
    BY <1>2 DEF Recv, EofRecv, HalfClose, Dut, DutAnswers, DutSends, DutRelays, DutCloses,
                Over, vars, clientVars
  <2> QED
    BY <2>1 DEF Stays, SocketOK
<1>3. CASE Decide
  BY <1>3, DecideStep
<1>4. CASE HandshakeFails \/ HandshakeInterrupted
  <2>1. stage \in HandshakeStages /\ \E kind, told : Abort(kind, told)
    BY <1>4 DEF HandshakeFails, HandshakeInterrupted, Handshaking
  <2> QED
    BY <2>1, HandshakeExits
<1>5. CASE Roundtrip \/ RoundtripEnds \/ ReadUntilEof \/ EofEnds
  BY <1>5 DEF Roundtrip, RoundtripEnds, ReadUntilEof, EofEnds, EofTimeout, Ends, Read,
              Stays, InUse
<1>6. CASE Close
  BY <1>6 DEF Close, Closes, Idle
<1> QED
  BY <1>1, <1>2, <1>3, <1>4, <1>5, <1>6 DEF Next, Client

\* The socket alone needs nothing of what a DUT replies.
LEMMA NextSocketOK == SocketOK /\ [Next]_vars => SocketOK'
<1> SUFFICES ASSUME SocketOK, [Next]_vars PROVE SocketOK'
  OBVIOUS
<1>1. /\ \A s \in HandshakeStages : s \notin Idle
      /\ \A s \in InUse : s \notin Idle
  BY DEF HandshakeStages, InUse, Idle
<1>2. ClientStep
  BY NextStep
<1> QED
  BY <1>1, <1>2, Zenon DEF ClientStep, Stays, Dials, Establishes, Closes, SocketOK

-----------------------------------------------------------------------------
(***************************************************************************)
(* How a stage of the handshake ends.                                      *)
(***************************************************************************)
Failures == {"ConfigurationError", "OSError", "TimeoutError", "PeerClosedEarly",
             "ProtocolViolation", "ProxyTunnelError", "KeyboardInterrupt"}

\* connect() raises: what it says of a refusal is true.
LEMMA AbortInv ==
    ASSUME TunnelInv, stage \in HandshakeStages,
           NEW kind \in Failures, NEW told, Abort(kind, told),
           kind = "ProxyTunnelError" => told # Nothing,
           kind \in {"ProtocolViolation", "ConfigurationError"} => verdict # "refuse"
    PROVE  Exchange'
<1>1. TypeOK /\ IdleOK
  BY DEF TunnelInv, Exchange
<1>2. TypeOK'
  <2>1. /\ stage' = "failed" /\ raised' = kind /\ sock' = FALSE /\ want' = 0 /\ buf' = <<>>
        /\ asked' = None /\ owed' = <<>> /\ wire' = <<>>
        /\ UNCHANGED <<cfg, method, code, got, half, verdict, peer, relayed>>
    BY DEF Abort, AbortedSocket
  <2>2. <<>> \in Seq(Bytes) /\ 0 \in Nat /\ FALSE \in BOOLEAN
    OBVIOUS
  <2> QED
    BY <1>1, <2>1, <2>2 DEF TypeOK, Failures
<1>3. stage' = "failed" /\ raised' = kind /\ details' = told /\ wire' = <<>>
  BY DEF Abort
<1>4. UNCHANGED <<verdict, peer, answer>>
  BY DEF Abort
<1>5. StartOK' /\ HandshakeOK' /\ InUseOK'
  BY <1>3 DEF StartOK, HandshakeOK, InUseOK, HandshakeStages, InUse
<1>6. IdleOK'
  BY <1>1, <1>3, <1>4 DEF IdleOK
<1> QED
  BY <1>2, <1>5, <1>6 DEF Exchange

\* connect() returns: all of the reply was read, and nothing behind it.
LEMMA EstablishedInv ==
    ASSUME TunnelInv, stage \in HandshakeStages, NEW told, Established(told),
           asked = None, verdict = "grant", owed = <<>>, peer # "rst" => wire = relayed
    PROVE  Exchange'
<1>1. TypeOK /\ IdleOK /\ raised = None /\ got = <<>>
  BY DEF TunnelInv, Exchange, HandshakeOK
<1>2. TypeOK'
  BY <1>1 DEF Established, dutVars, TypeOK
<1>3. /\ stage' = "open" /\ buf' = <<>>
      /\ UNCHANGED <<raised, got, answer, wire, owed, asked, verdict, peer, relayed>>
  BY DEF Established, dutVars
<1>4. StartOK' /\ HandshakeOK'
  BY <1>3 DEF StartOK, HandshakeOK, HandshakeStages
<1>5. InUseOK'
  <2>1. wire \in Seq(Bytes)
    BY <1>1, Types
  <2>2. <<>> \o <<>> = <<>>
    OBVIOUS
  <2>3. <<>> \o wire = wire
    BY <2>1, ConcatEmptySeq
  <2>4. peer' # "rst" => got' \o buf' \o wire' = relayed'
    BY <1>1, <1>3, <2>2, <2>3
  <2> QED
    BY <1>3, <2>4 DEF InUseOK
<1>6. IdleOK'
  BY <1>1, <1>3 DEF IdleOK, None
<1> QED
  BY <1>2, <1>4, <1>5, <1>6 DEF Exchange

\* What is asked at a stage, and how many bytes are read first.
Asks(kind, s, n) ==
    \/ kind = "connect" /\ s = "head" /\ n = 1
    \/ kind = "greeting" /\ s = "method" /\ n = 2
    \/ kind = "userpass" /\ s = "userpass" /\ n = 2
    \/ kind = "request" /\ s = "reply" /\ n = 4

\* The next request is sent: nothing of the last reply is left.
LEMMA RequestInv ==
    ASSUME TunnelInv, stage \in HandshakeStages,
           NEW kind, NEW s, NEW n, Asks(kind, s, n), Request(kind, s, n),
           verdict \in {None, "more"}, wire = <<>>, owed = <<>>, relayed = <<>>,
           stage = "method" => buf[2] \in Octets
    PROVE  Exchange'
<1>1. TypeOK /\ IdleOK /\ raised = None /\ got = <<>>
  BY DEF TunnelInv, Exchange, HandshakeOK
<1>2. /\ stage' = s /\ want' = n /\ buf' = <<>> /\ asked' = kind
      /\ UNCHANGED <<raised, got, answer, wire, owed, verdict, peer, relayed>>
  BY DEF Request, Read
<1>3. TypeOK'
  <2>1. n \in Nat /\ s \in HandshakeStages
        /\ kind \in {"connect", "greeting", "userpass", "request"}
    BY DEF Asks, HandshakeStages
  <2>2. method' \in 0..NoByte
    BY <1>1 DEF Request, TypeOK, Octets, NoByte
  <2>3. UNCHANGED <<cfg, code, sock, half>>
    BY DEF Request
  <2> QED
    BY <1>1, <1>2, <2>1, <2>2, <2>3 DEF TypeOK
<1>4. StartOK' /\ InUseOK'
  BY <1>2 DEF StartOK, InUseOK, InUse, Asks
<1>5. HandshakeOK'
  <2>1. Asking'
    BY <1>2 DEF Asking, Asks
  <2> QED
    BY <1>1, <1>2, <2>1 DEF HandshakeOK
<1>6. IdleOK'
  BY <1>1, <1>2 DEF IdleOK, Asks, None
<1> QED
  BY <1>3, <1>4, <1>5, <1>6 DEF Exchange

\* The next part of the SOCKS5 reply is read from where the last one ended.
LEMMA ContinueInv ==
    ASSUME TunnelInv, stage \in HandshakeStages, asked = None,
           NEW r \in Replies["request"], NEW off \in Nat,
           verdict = r.means, Reading(r.bytes, off),
           NEW next \in Nat, next = off + Len(buf),
           NEW s \in HandshakeStages, NEW n \in Nat, Continue(s, n),
           verdict = "grant" => next + n <= Len(r.bytes),
           code' \in 0..NoByte, ReplyStage(r.bytes, next)'
    PROVE  Exchange'
<1>1. TypeOK /\ IdleOK /\ raised = None /\ got = <<>>
  BY DEF TunnelInv, Exchange, HandshakeOK
<1>2. /\ stage' = s /\ want' = n /\ buf' = <<>> /\ Read(s, n)
      /\ UNCHANGED <<cfg, method, sock, details, raised, got, answer, half, dutVars>>
  BY DEF Continue, Read
<1>3. UNCHANGED <<raised, got, answer, wire, owed, asked, verdict, peer, relayed>>
  BY <1>2 DEF dutVars
<1>4. TypeOK'
  BY <1>1, <1>2, <1>3 DEF TypeOK
<1>5. stage' \notin {"start", "failed", "closed"} /\ stage' \notin InUse
  BY <1>2 DEF HandshakeStages, InUse
<1>6. StartOK' /\ InUseOK'
  BY <1>5 DEF StartOK, InUseOK
<1>7. HandshakeOK'
  <2>1. r.bytes \in Seq(Bytes)
    BY RequestReplies DEF IsReply
  <2>2. Reading(r.bytes, next)'
    BY <1>1, <1>2, <2>1, ContinueReading
  <2>3. ReadingReply'
    BY <1>3, <2>2 DEF ReadingReply
  <2> QED
    BY <1>1, <1>3, <2>3 DEF HandshakeOK
<1>8. IdleOK'
  BY <1>1, <1>3, <1>5 DEF IdleOK, None
<1> QED
  BY <1>4, <1>6, <1>7, <1>8 DEF Exchange

-----------------------------------------------------------------------------
(***************************************************************************)
(* What the client makes of what it read.                                  *)
(***************************************************************************)
\* A read that is complete is a read of a reply.
LEMMA ReplyRead ==
    ASSUME TunnelInv, stage \in HandshakeStages, ~ Waiting
    PROVE  /\ TypeOK /\ IdleOK /\ asked = None
           /\ Inline \/ ReadingHead \/ ReadingMethod \/ ReadingUserPass \/ ReadingReply
<1>1. ~ Asking
  <2> SUFFICES ASSUME Asking PROVE FALSE
    OBVIOUS
  <2>1. want \in {1, 2, 4} /\ Len(buf) = 0
    BY DEF Asking
  <2> QED
    BY <2>1 DEF Waiting
<1> QED
  BY <1>1 DEF TunnelInv, Exchange, HandshakeOK

\* The bytes read are the reply's.
LEMMA BytesRead ==
    ASSUME TypeOK, NEW b \in Seq(Bytes), Reading(b, 0)
    PROVE  /\ Len(buf) \in Nat /\ Len(b) \in Nat /\ want \in Nat
           /\ Len(buf) <= Len(b) /\ Len(buf) <= want
           /\ \A i \in 1..Len(buf) : buf[i] = b[i]
<1>1. Len(buf) \in Nat /\ Len(owed) \in Nat /\ Len(b) \in Nat /\ want \in Nat
  BY Types
<1>2. 0 + Len(buf) + Len(owed) <= Len(b) /\ Len(buf) <= want
  BY DEF Reading
<1>3. \A i \in 1..Len(buf) : buf[i] = b[0 + i]
  BY DEF Reading
<1> QED
  BY <1>1, <1>2, <1>3

\* An HTTP head of the DUT's ends where the client takes it to end, and means what the
\* client makes of it.
LEMMA DecideHeadInv ==
    ASSUME TunnelInv, DecideHead
    PROVE  Exchange'
<1>1. stage = "head" /\ ~ Waiting /\ stage \in HandshakeStages
  BY DEF DecideHead, HandshakeStages
<1>2. TypeOK /\ IdleOK /\ asked = None /\ ReadingHead
  BY <1>1, ReplyRead DEF Inline, ReadingMethod, ReadingUserPass, ReadingReply, ReplyStage
<1>3. PICK r \in Replies["connect"] : verdict = r.means /\ Reading(r.bytes, 0)
  BY <1>2 DEF ReadingHead
<1> DEFINE b == r.bytes
<1>4. /\ b \in Seq(Bytes) /\ verdict = HeadMeans(b)
      /\ \A k \in 4..Len(b)-1 : ~ EndsHead(b, k)
      /\ verdict # "bad" => WholeHead(b)
  BY <1>3, ConnectReplies DEF IsReply
<1>5. /\ Len(buf) \in Nat /\ Len(b) \in Nat /\ want \in Nat
      /\ Len(buf) <= Len(b) /\ Len(buf) = want
      /\ \A i \in 1..Len(buf) : buf[i] = b[i]
  BY <1>1, <1>2, <1>3, <1>4, BytesRead DEF Waiting
<1> HIDE DEF b
<1>6. HeadComplete(buf) <=> Len(buf) >= 4 /\ EndsHead(b, Len(buf))
  <2>1. buf \in Seq(Bytes)
    BY <1>2, Types
  <2>2. HeadComplete(buf) <=> Len(buf) >= 4 /\ EndsHead(buf, Len(buf))
    BY <2>1, HeadCompleteIs
  <2>3. Len(buf) >= 4 => (EndsHead(buf, Len(buf)) <=> EndsHead(b, Len(buf)))
    BY <1>5 DEF EndsHead
  <2> QED
    BY <2>2, <2>3
<1>7. WholeHead(b) => Len(b) \in 4..MaxHead /\ EndsHead(b, Len(b)) /\ b[1] >= 1000
  BY DEF WholeHead, StatusLine
<1>8. CASE Len(buf) > MaxHead /\ Abort("ProtocolViolation", Nothing)
  <2>1. verdict # "refuse"
    BY <1>4, <1>5, <1>7, <1>8, TunnelAssumption
  <2> QED
    BY <1>1, <1>8, <2>1, AbortInv DEF Failures
<1>9. CASE /\ ~ HeadComplete(buf) /\ want' = want + 1
           /\ UNCHANGED <<cfg, stage, buf, method, code, sock, details, raised, got, answer,
                          half, dutVars>>
  <2>1. UNCHANGED <<buf, stage, raised, got, answer, wire, owed, asked, verdict, peer,
                    relayed>>
    BY <1>9 DEF dutVars
  <2>2. verdict = "grant" => want + 1 <= Len(b)
    BY <1>4, <1>5, <1>6, <1>7, <1>9
  <2>3. Reading(b, 0)'
    <3>1. Reading(b, 0)
      BY <1>3 DEF b
    <3>2. Len(buf') <= want' /\ (verdict' = "grant" => 0 + want' <= Len(b))
      BY <1>5, <1>9, <2>1, <2>2
    <3> QED
      BY <2>1, <3>1, <3>2 DEF Reading
  <2>4. ReadingHead'
    BY <1>1, <1>3, <2>1, <2>3 DEF ReadingHead, b
  <2>5. TypeOK'
    BY <1>2, <1>9, <2>1 DEF TypeOK
  <2>6. raised = None /\ got = <<>>
    BY <1>1 DEF TunnelInv, Exchange, HandshakeOK
  <2>7. StartOK' /\ InUseOK' /\ HandshakeOK'
    BY <1>1, <1>2, <2>1, <2>4, <2>6 DEF StartOK, InUseOK, InUse, HandshakeOK
  <2>8. IdleOK'
    BY <1>1, <1>2, <2>1, <2>6 DEF IdleOK, None
  <2> QED
    BY <2>5, <2>7, <2>8 DEF Exchange
<1> DEFINE status == Status(buf)
<1>10. CASE ~ HasStatus(buf) /\ HeadComplete(buf) /\ Abort("ProtocolViolation", Nothing)
  <2>1. buf[1] = b[1]
    BY <1>5, <1>6, <1>10
  <2>2. verdict # "refuse"
    <3>1. b[1] \in Nat /\ ~ (b[1] >= 1000)
      <4>1. b[1] \in Bytes
        BY <1>4, <1>5, <1>6, <1>10, ElementOfSeq
      <4>2. b[1] \in Nat
        BY <4>1, BytesAreNumbers, Zenon
      <4> QED
        BY <1>10, <2>1, <4>2 DEF HasStatus
    <3> QED
      BY <1>4, <1>7, <3>1
  <2> QED
    BY <1>1, <1>10, <2>2, AbortInv DEF Failures
<1>11. CASE Abort("ProxyTunnelError", <<"response", status>>)
  <2>1. <<"response", status>> # Nothing
    BY DEF Nothing
  <2> HIDE DEF status
  <2> QED
    BY <1>1, <1>11, <2>1, AbortInv DEF Failures
<1>12. CASE /\ ~ (Len(buf) > MaxHead) /\ HeadComplete(buf) /\ TunnelEstablished(status)
            /\ HasStatus(buf) /\ Established(<<"response", status>>)
  <2>1. Len(buf) = Len(b)
    BY <1>4, <1>5, <1>6, <1>12
  <2>2. b[1] \in Nat /\ buf[1] = b[1]
    <3>1. b[1] \in Bytes /\ buf[1] = b[1]
      BY <1>4, <1>5, <1>6, <1>12, ElementOfSeq
    <3> QED
      BY <3>1, BytesAreNumbers, Zenon
  <2>3. b[1] \in StatusLine(200)..StatusLine(299)
    <3>1. b[1] >= 1000 /\ TunnelEstablished(b[1] - 1000)
      <4>1. buf[1] >= 1000 /\ TunnelEstablished(buf[1] - 1000)
        BY <1>12 DEF HasStatus, Status
      <4>2. buf[1] = b[1]
        BY <2>2
      <4> QED
        BY <4>1, <4>2
    <3>2. b[1] \in Nat
      BY <2>2
    <3> QED
      BY <3>1, <3>2, SuccessStatus
  <2>4. WholeHead(b)
    <3>1. Len(b) \in 4..MaxHead /\ EndsHead(b, Len(b))
      BY <1>5, <1>6, <1>12, <2>1, TunnelAssumption
    <3>2. b[1] >= StatusLine(0)
      BY <2>3 DEF StatusLine
    <3> QED
      BY <3>1, <3>2 DEF WholeHead
  <2>5. verdict = "grant"
    BY <1>4, <2>3, <2>4 DEF HeadMeans
  <2>6. owed = <<>> /\ (peer # "rst" => wire = relayed)
    <3>1. Reading(b, 0) /\ 0 + Len(buf) = Len(b)
      BY <1>3, <1>5, <2>1 DEF b
    <3> QED
      BY <1>2, <1>4, <3>1, ReadWhole
  <2> HIDE DEF status
  <2> QED
    BY <1>1, <1>2, <1>12, <2>5, <2>6, EstablishedInv
<1> QED
  BY <1>8, <1>9, <1>10, <1>11, <1>12, Zenon DEF DecideHead

\* An inline DUT grants without a word.
LEMMA DecideTransparentInv ==
    ASSUME TunnelInv, DecideTransparent
    PROVE  Exchange'
<1>1. stage = "transparent" /\ stage \in HandshakeStages /\ Established(Nothing)
  BY DEF DecideTransparent, HandshakeStages
<1>2. asked = None /\ Inline
  BY <1>1 DEF TunnelInv, Exchange, HandshakeOK, Asking, ReadingHead, ReadingMethod,
              ReadingUserPass, ReadingReply, ReplyStage
<1> QED
  BY <1>1, <1>2, EstablishedInv DEF Inline

\* A reply of two bytes, both of them read: nothing is left of it, and nothing is
\* relayed yet.
LEMMA NegotiationRead ==
    ASSUME TunnelInv, NEW r, IsReply(r), Len(r.bytes) <= 2, Negotiating(r), ~ Waiting
    PROVE  /\ Len(r.bytes) = 2 /\ buf[1] = r.bytes[1] /\ buf[2] = r.bytes[2]
           /\ wire = <<>> /\ owed = <<>> /\ relayed = <<>>
<1> DEFINE b == r.bytes
<1>1. TypeOK /\ IdleOK
  BY DEF TunnelInv, Exchange
<1>2. b \in Seq(Bytes) /\ Reading(b, 0) /\ want = 2 /\ verdict # "grant"
  BY DEF IsReply, Negotiating
<1>3. /\ Len(buf) \in Nat /\ Len(b) \in Nat /\ want \in Nat
      /\ Len(buf) <= Len(b) /\ Len(buf) <= want
      /\ \A i \in 1..Len(buf) : buf[i] = b[i]
  BY <1>1, <1>2, BytesRead
<1>4. Len(b) <= 2 /\ ~ (want > Len(buf))
  BY DEF Waiting
<1> HIDE DEF b
<1>5. 0 + Len(buf) = Len(b) /\ Len(buf) = 2 /\ Len(b) = 2
  <2>1. Len(buf) \in Nat /\ Len(b) \in Nat /\ Len(buf) <= Len(b) /\ Len(buf) <= want
    BY <1>3
  <2>2. want = 2
    BY <1>2
  <2> QED
    BY <1>4, <2>1, <2>2
<1>6. buf[1] = b[1] /\ buf[2] = b[2]
  BY <1>3, <1>5
<1>7. relayed = <<>>
  BY <1>2 DEF Reading
<1>8. owed = <<>> /\ (peer # "rst" => wire = relayed)
  BY <1>1, <1>2, <1>5, ReadWhole
<1>9. wire = <<>>
  BY <1>1, <1>7, <1>8 DEF IdleOK
<1> QED
  BY <1>5, <1>6, <1>7, <1>8, <1>9 DEF b

\* The method the DUT selects: a refusal is told as one.
LEMMA DecideMethodInv ==
    ASSUME TunnelInv, DecideMethod
    PROVE  Exchange'
<1>1. stage = "method" /\ ~ Waiting /\ stage \in HandshakeStages
  BY DEF DecideMethod, HandshakeStages
<1>2. asked = None /\ ReadingMethod
  BY <1>1, ReplyRead DEF Inline, ReadingHead, ReadingUserPass, ReadingReply, ReplyStage
<1>3. PICK r \in Replies["greeting"] : Negotiating(r)
  BY <1>2 DEF ReadingMethod
<1>4. /\ r.means = GreetingMeans(r.bytes) /\ Len(r.bytes) = 2
      /\ buf[1] = r.bytes[1] /\ buf[2] = r.bytes[2] /\ buf[2] \in Octets
      /\ wire = <<>> /\ owed = <<>> /\ relayed = <<>>
  BY <1>1, <1>3, GreetingReplies, NegotiationRead
<1>5. verdict = IF r.means = "grant" THEN "more" ELSE r.means
  BY <1>3 DEF Negotiating
<1>6. CASE buf[1] # Socks5Version /\ Abort("ProtocolViolation", Nothing)
  <2>1. verdict # "refuse"
    BY <1>4, <1>5, <1>6 DEF GreetingMeans
  <2> QED
    BY <1>1, <1>6, <2>1, AbortInv DEF Failures
<1>7. CASE buf[1] = Socks5Version /\ buf[2] = AuthNone /\ AskRequest
  <2>1. verdict = "more"
    BY <1>4, <1>5, <1>7 DEF GreetingMeans
  <2>2. CASE Request("request", "reply", 4)
    <3>1. Asks("request", "reply", 4)
      BY DEF Asks
    <3> QED
      BY <1>1, <1>4, <2>1, <2>2, <3>1, RequestInv
  <2>3. CASE Abort("ConfigurationError", Nothing)
    BY <1>1, <2>1, <2>3, AbortInv DEF Failures
  <2> QED
    BY <1>7, <2>2, <2>3, Zenon DEF AskRequest
<1>8. CASE buf[1] = Socks5Version /\ buf[2] = AuthUserPass /\ AskUserPass
  <2>1. verdict = "more"
    BY <1>4, <1>5, <1>8 DEF GreetingMeans
  <2>2. CASE Request("userpass", "userpass", 2)
    <3>1. Asks("userpass", "userpass", 2)
      BY DEF Asks
    <3> QED
      BY <1>1, <1>4, <2>1, <2>2, <3>1, RequestInv
  <2>3. CASE Abort("ConfigurationError", Nothing)
    BY <1>1, <2>1, <2>3, AbortInv DEF Failures
  <2> QED
    BY <1>8, <2>2, <2>3, Zenon DEF AskUserPass
<1> DEFINE told == AuthFailure("method-selection", buf[2])
<1>9. CASE Abort("ProxyTunnelError", told)
  <2>1. told # Nothing
    BY DEF AuthFailure, Nothing
  <2> HIDE DEF told
  <2> QED
    BY <1>1, <1>9, <2>1, AbortInv DEF Failures
<1> QED
  BY <1>6, <1>7, <1>8, <1>9, Zenon DEF DecideMethod

\* What the DUT says of the credentials.
LEMMA DecideUserPassInv ==
    ASSUME TunnelInv, DecideUserPass
    PROVE  Exchange'
<1>1. stage = "userpass" /\ ~ Waiting /\ stage \in HandshakeStages
  BY DEF DecideUserPass, HandshakeStages
<1>2. asked = None /\ ReadingUserPass
  BY <1>1, ReplyRead DEF Inline, ReadingHead, ReadingMethod, ReadingReply, ReplyStage
<1>3. PICK r \in Replies["userpass"] : Negotiating(r)
  BY <1>2 DEF ReadingUserPass
<1>4. /\ r.means = UserPassMeans(r.bytes) /\ Len(r.bytes) = 2 /\ buf[2] = r.bytes[2]
      /\ wire = <<>> /\ owed = <<>> /\ relayed = <<>>
  BY <1>1, <1>3, UserPassReplies, NegotiationRead
<1>5. verdict = IF r.means = "grant" THEN "more" ELSE r.means
  BY <1>3 DEF Negotiating
<1> DEFINE told == AuthFailure("userpass", method)
<1>6. CASE buf[2] # 0 /\ Abort("ProxyTunnelError", told)
  <2>1. told # Nothing
    BY DEF AuthFailure, Nothing
  <2> HIDE DEF told
  <2> QED
    BY <1>1, <1>6, <2>1, AbortInv DEF Failures
<1>7. CASE buf[2] = 0 /\ AskRequest
  <2>1. verdict = "more"
    BY <1>4, <1>5, <1>7 DEF UserPassMeans
  <2>2. CASE Request("request", "reply", 4)
    <3>1. Asks("request", "reply", 4)
      BY DEF Asks
    <3> QED
      BY <1>1, <1>4, <2>1, <2>2, <3>1, RequestInv
  <2>3. CASE Abort("ConfigurationError", Nothing)
    BY <1>1, <2>1, <2>3, AbortInv DEF Failures
  <2> QED
    BY <1>7, <2>2, <2>3, Zenon DEF AskRequest
<1> QED
  BY <1>6, <1>7, Zenon DEF DecideUserPass

\* The header of the SOCKS5 reply.
LEMMA DecideReplyInv ==
    ASSUME TunnelInv, DecideReply
    PROVE  Exchange'
<1>1. stage = "reply" /\ ~ Waiting /\ stage \in HandshakeStages
  BY DEF DecideReply, HandshakeStages
<1>2. TypeOK /\ asked = None /\ ReadingReply
  BY <1>1, ReplyRead DEF Inline, ReadingHead, ReadingMethod, ReadingUserPass
<1>3. PICK r \in Replies["request"], off \in Nat :
         verdict = r.means /\ Reading(r.bytes, off) /\ ReplyStage(r.bytes, off)
  BY <1>2 DEF ReadingReply
<1>4. off = 0 /\ want = 4
  BY <1>1, <1>3 DEF ReplyStage
<1> DEFINE b == r.bytes
<1>5. /\ b \in Seq(Bytes) /\ b \in Seq(Octets) /\ \A i \in 1..Len(b) : b[i] \in Octets
      /\ verdict # "bad" <=> WholeReply(b)
  BY <1>3, RequestReplies DEF IsReply
<1>6. Reading(b, 0)
  BY <1>3, <1>4
<1>7. /\ Len(buf) \in Nat /\ Len(b) \in Nat /\ Len(buf) = 4 /\ Len(b) >= 4
      /\ buf[1] = b[1] /\ buf[2] = b[2] /\ buf[4] = b[4] /\ b[2] \in Octets
  <2>1. /\ Len(buf) \in Nat /\ Len(b) \in Nat /\ want \in Nat
        /\ Len(buf) <= Len(b) /\ Len(buf) <= want
        /\ \A i \in 1..Len(buf) : buf[i] = b[i]
    BY <1>2, <1>5, <1>6, BytesRead
  <2> HIDE DEF b
  <2>2. ~ (want > Len(buf)) /\ want = 4
    BY <1>1, <1>4 DEF Waiting
  <2>3. Len(buf) \in Nat /\ Len(b) \in Nat /\ Len(buf) <= Len(b) /\ Len(buf) <= want
    BY <2>1
  <2>4. Len(buf) = 4 /\ Len(b) >= 4
    <3>1. \A l \in Nat, n \in Nat : l <= n /\ l <= 4 /\ ~ (4 > l) => l = 4 /\ n >= 4
      OBVIOUS
    <3>2. Len(buf) <= 4 /\ ~ (4 > Len(buf))
      BY <2>2, <2>3, Zenon
    <3> QED
      BY <2>3, <3>1, <3>2, Zenon
  <2> QED
    BY <1>5, <2>1, <2>4
<1> DEFINE addressed == b[4] \in {AtypIPv4, AtypDomain, AtypIPv6}
<1>8. CASE (buf[1] # Socks5Version \/ ~ addressed) /\ Abort("ProtocolViolation", Nothing)
  <2>1. verdict # "refuse"
    BY <1>5, <1>7, <1>8 DEF WholeReply, HasHeader
  <2> QED
    BY <1>1, <1>8, <2>1, AbortInv DEF Failures
<1>9. ASSUME buf[1] = Socks5Version, addressed, code' = buf[2],
             NEW s \in {"address", "length"}, NEW n \in Nat, Continue(s, n),
             \/ s = "address" /\ b[4] # AtypDomain /\ n = PortAt(b) - 4
             \/ s = "length" /\ b[4] = AtypDomain /\ n = 1
      PROVE  Exchange'
  <2>1. s \in HandshakeStages
    BY <1>9 DEF HandshakeStages
  <2>2. code' \in 0..NoByte
    BY <1>7, <1>9 DEF Octets, NoByte
  <2>3. ReplyStage(b, 4)'
    <3>1. stage' = s /\ want' = n /\ code' = b[2] /\ b[1] = Socks5Version
      BY <1>7, <1>9 DEF Continue, Read
    <3>2. HeaderRead(b)'
      BY <1>7, <1>9, <3>1 DEF HeaderRead
    <3> HIDE DEF b, addressed
    <3> QED
      BY <1>9, <3>1, <3>2 DEF ReplyStage
  <2>4. verdict = "grant" => 4 + n <= Len(b)
    <3> HAVE verdict = "grant"
    <3>1. HasHeader(b) /\ Len(b) = PortAt(b) + 2
      BY <1>5 DEF WholeReply
    <3>2. PortAt(b) \in Nat /\ (b[4] = AtypDomain => b[5] \in Nat /\ PortAt(b) = 5 + b[5])
      BY <1>5, <3>1, PortPlace
    <3> HIDE DEF b, addressed
    <3> QED
      BY <1>7, <1>9, <3>1, <3>2
  <2>5. 4 = 0 + Len(buf) /\ 4 \in Nat /\ 0 \in Nat
    BY <1>7
  <2>6. r \in Replies["request"] /\ verdict = r.means
    BY <1>3
  <2> QED
    BY <1>1, <1>2, <1>6, <1>9, <2>1, <2>2, <2>3, <2>4, <2>5, <2>6, ContinueInv
<1>10. CASE /\ buf[1] = Socks5Version /\ addressed /\ code' = buf[2]
            /\ CASE buf[4] = AtypIPv4   -> Continue("address", 4)
                 [] buf[4] = AtypIPv6   -> Continue("address", 16)
                 [] buf[4] = AtypDomain -> Continue("length", 1)
  <2>1. CASE b[4] = AtypIPv4
    <3>1. Continue("address", 4) /\ PortAt(b) = 8 /\ b[4] # AtypDomain
      BY <1>7, <1>10, <2>1 DEF PortAt, AtypIPv4, AtypIPv6, AtypDomain
    <3> QED
      BY <1>9, <1>10, <3>1
  <2>2. CASE b[4] = AtypIPv6
    <3>1. Continue("address", 16) /\ PortAt(b) = 20 /\ b[4] # AtypDomain
      BY <1>7, <1>10, <2>2 DEF PortAt, AtypIPv4, AtypIPv6, AtypDomain
    <3> QED
      BY <1>9, <1>10, <3>1
  <2>3. CASE b[4] = AtypDomain
    <3>1. Continue("length", 1)
      BY <1>7, <1>10, <2>3 DEF AtypIPv4, AtypIPv6, AtypDomain
    <3> QED
      BY <1>9, <1>10, <2>3, <3>1
  <2> QED
    BY <1>10, <2>1, <2>2, <2>3
<1>11. buf[4] \in {AtypIPv4, AtypDomain, AtypIPv6} <=> addressed
  BY <1>7
<1> QED
  BY <1>8, <1>10, <1>11 DEF DecideReply

\* A part of the SOCKS5 reply, all of it read.
LEMMA PartRead ==
    ASSUME TypeOK, NEW b \in Seq(Bytes), NEW off \in Nat, Reading(b, off), ~ Waiting
    PROVE  /\ Len(buf) = want /\ want \in Nat /\ off + want <= Len(b) /\ Len(b) \in Nat
           /\ \A i \in 1..want : buf[i] = b[off + i]
<1>1. Len(buf) \in Nat /\ Len(owed) \in Nat /\ Len(b) \in Nat /\ want \in Nat
  BY Types
<1>2. Len(buf) <= want /\ off + Len(buf) + Len(owed) <= Len(b)
  BY DEF Reading
<1>3. Len(buf) = want
  BY <1>1, <1>2 DEF Waiting
<1>4. off + want <= Len(b)
  BY <1>1, <1>2, <1>3
<1>5. \A i \in 1..Len(buf) : buf[i] = b[off + i]
  BY DEF Reading
<1> QED
  BY <1>1, <1>3, <1>4, <1>5

\* The bound address, whatever its length.
LEMMA DecideAddressInv ==
    ASSUME TunnelInv, DecideAddress
    PROVE  Exchange'
<1>1. /\ stage \in {"length", "address", "domain"} /\ ~ Waiting
      /\ stage \in HandshakeStages /\ code' = code
  BY DEF DecideAddress, HandshakeStages
<1>2. TypeOK /\ asked = None /\ ReadingReply
  BY <1>1, ReplyRead DEF Inline, ReadingHead, ReadingMethod, ReadingUserPass
<1>3. PICK r \in Replies["request"], off \in Nat :
         verdict = r.means /\ Reading(r.bytes, off) /\ ReplyStage(r.bytes, off)
  BY <1>2 DEF ReadingReply
<1> DEFINE b == r.bytes
<1>4. /\ b \in Seq(Bytes) /\ b \in Seq(Octets) /\ \A i \in 1..Len(b) : b[i] \in Octets
      /\ verdict # "bad" <=> WholeReply(b)
  BY <1>3, RequestReplies DEF IsReply
<1>5. Reading(b, off) /\ ReplyStage(b, off)
  BY <1>3
<1>6. /\ Len(buf) = want /\ want \in Nat /\ off + want <= Len(b) /\ Len(b) \in Nat
      /\ \A i \in 1..want : buf[i] = b[off + i]
  BY <1>1, <1>2, <1>4, <1>5, PartRead
<1>7. code' \in 0..NoByte
  BY <1>1, <1>2 DEF TypeOK
<1>8. HeaderRead(b)
  BY <1>1, <1>5 DEF ReplyStage
<1>9. r \in Replies["request"] /\ verdict = r.means
  BY <1>3
<1>10. verdict = "grant" => WholeReply(b)
  BY <1>4
<1> HIDE DEF b
<1>11. CASE stage = "length" /\ Continue("domain", DomainLength(buf))
  <2>1. off = 4 /\ want = 1 /\ b[4] = AtypDomain
    BY <1>5, <1>11 DEF ReplyStage
  <2>2. Len(b) >= 5
    BY <1>6, <2>1
  <2>3. HasHeader(b)
    BY <1>8, <2>2 DEF HeaderRead, HasHeader
  <2>4. b[5] \in Nat /\ PortAt(b) = 5 + b[5]
    BY <1>4, <2>1, <2>3, PortPlace
  <2>5. DomainLength(buf) = b[5]
    BY <1>6, <2>1 DEF DomainLength
  <2>6. "domain" \in HandshakeStages /\ 5 \in Nat /\ 5 = off + Len(buf)
    BY <1>6, <2>1 DEF HandshakeStages
  <2>7. verdict = "grant" => 5 + b[5] <= Len(b)
    BY <1>6, <1>10, <2>4 DEF WholeReply
  <2>8. Continue("domain", b[5])
    BY <1>11, <2>5
  <2>9. ReplyStage(b, 5)'
    <3>1. stage' = "domain" /\ want' = b[5]
      BY <2>8 DEF Continue, Read
    <3>2. HeaderRead(b)'
      BY <1>1, <1>8 DEF HeaderRead
    <3> QED
      BY <2>1, <2>2, <3>1, <3>2 DEF ReplyStage
  <2> QED
    BY <1>1, <1>2, <1>5, <1>7, <1>9, <2>4, <2>6, <2>7, <2>8, <2>9, ContinueInv DEF b
<1>12. CASE stage \in {"address", "domain"} /\ Continue("port", 2)
  <2>1. HasHeader(b) /\ PortAt(b) \in Nat /\ off + want = PortAt(b)
    <3>1. CASE stage = "address"
      <4>1. off = 4 /\ b[4] # AtypDomain /\ want = PortAt(b) - 4
        BY <1>5, <3>1 DEF ReplyStage
      <4>2. HasHeader(b)
        BY <1>8, <4>1 DEF HeaderRead, HasHeader
      <4>3. PortAt(b) \in Nat
        BY <1>4, <4>2, PortPlace
      <4> QED
        BY <4>1, <4>2, <4>3
    <3>2. CASE stage = "domain"
      <4>1. off = 5 /\ b[4] = AtypDomain /\ Len(b) >= 5 /\ want = b[5]
        BY <1>5, <3>2 DEF ReplyStage
      <4>2. HasHeader(b)
        BY <1>8, <4>1 DEF HeaderRead, HasHeader
      <4>3. PortAt(b) \in Nat /\ PortAt(b) = 5 + b[5]
        BY <1>4, <4>1, <4>2, PortPlace
      <4> QED
        BY <4>1, <4>2, <4>3
    <3> QED
      BY <1>12, <3>1, <3>2
  <2>2. "port" \in HandshakeStages /\ 2 \in Nat /\ PortAt(b) = off + Len(buf)
    BY <1>6, <2>1 DEF HandshakeStages
  <2>3. verdict = "grant" => PortAt(b) + 2 <= Len(b)
    BY <1>6, <1>10, <2>1 DEF WholeReply
  <2>4. ReplyStage(b, PortAt(b))'
    <3>1. stage' = "port" /\ want' = 2
      BY <1>12 DEF Continue, Read
    <3>2. HeaderRead(b)'
      BY <1>1, <1>8 DEF HeaderRead
    <3> QED
      BY <2>1, <3>1, <3>2 DEF ReplyStage
  <2> QED
    BY <1>1, <1>2, <1>5, <1>7, <1>9, <1>12, <2>1, <2>2, <2>3, <2>4, ContinueInv DEF b
<1> QED
  BY <1>11, <1>12 DEF DecideAddress

\* The client has read the whole reply, not a byte more, and judges it as the DUT does.
LEMMA DecidePortInv ==
    ASSUME TunnelInv, DecidePort
    PROVE  Exchange'
<1>1. stage = "port" /\ ~ Waiting /\ stage \in HandshakeStages
  BY DEF DecidePort, HandshakeStages
<1>2. TypeOK /\ asked = None /\ ReadingReply
  BY <1>1, ReplyRead DEF Inline, ReadingHead, ReadingMethod, ReadingUserPass
<1>3. PICK r \in Replies["request"], off \in Nat :
         verdict = r.means /\ Reading(r.bytes, off) /\ ReplyStage(r.bytes, off)
  BY <1>2 DEF ReadingReply
<1> DEFINE b == r.bytes
<1>4. /\ b \in Seq(Bytes) /\ b \in Seq(Octets)
      /\ HasHeader(b) => Len(b) <= PortAt(b) + 2
      /\ WholeReply(b) => verdict = IF b[2] = 0 THEN "grant" ELSE "refuse"
  BY <1>3, RequestReplies DEF IsReply
<1>5. Reading(b, off) /\ ReplyStage(b, off)
  BY <1>3
<1> HIDE DEF b
<1>6. /\ Len(buf) = want /\ off + want <= Len(b) /\ Len(b) \in Nat
  BY <1>1, <1>2, <1>4, <1>5, PartRead
<1>7. off = PortAt(b) /\ code = b[2] /\ HasHeader(b) /\ want = 2
  BY <1>1, <1>5 DEF ReplyStage, HeaderRead
<1>8. WholeReply(b) /\ off + Len(buf) = Len(b)
  <2>1. PortAt(b) \in Nat
    BY <1>4, <1>7, PortPlace
  <2> QED
    BY <1>4, <1>6, <1>7, <2>1 DEF WholeReply
<1> DEFINE told == <<"result", method, code>>
<1>9. CASE Succeeded(code) /\ Established(told)
  <2>1. verdict = "grant"
    BY <1>4, <1>7, <1>8, <1>9 DEF Succeeded
  <2>2. owed = <<>> /\ (peer # "rst" => wire = relayed)
    BY <1>2, <1>4, <1>5, <1>8, ReadWhole
  <2> HIDE DEF told
  <2> QED
    BY <1>1, <1>2, <1>9, <2>1, <2>2, EstablishedInv
<1>10. CASE Abort("ProxyTunnelError", told)
  <2>1. told # Nothing
    BY DEF Nothing
  <2> HIDE DEF told
  <2> QED
    BY <1>1, <1>10, <2>1, AbortInv DEF Failures
<1> QED
  BY <1>9, <1>10, Zenon DEF DecidePort

-----------------------------------------------------------------------------
(***************************************************************************)
(* The connection, and the tunnel in use.                                  *)
(***************************************************************************)
\* connect() has a socket, and what it says first is said on it.
LEMMA DialInv ==
    ASSUME TunnelInv, Dial
    PROVE  Exchange'
<1>1. /\ TypeOK /\ IdleOK /\ stage = "start"
      /\ raised = None /\ asked = None /\ verdict = None /\ peer = "open"
      /\ buf = <<>> /\ wire = <<>> /\ owed = <<>> /\ relayed = <<>> /\ got = <<>>
  BY DEF TunnelInv, Exchange, StartOK, Dial
<1>2. CASE /\ FirstMessage /\ sock' = TRUE
           /\ UNCHANGED <<cfg, method, code, details, raised, got, answer, half, wire, owed,
                          peer, relayed>>
  <2>1. /\ buf' = <<>>
        /\ UNCHANGED <<raised, got, answer, wire, owed, peer, relayed>>
        /\ \/ /\ stage' = "transparent" /\ want' = 0 /\ verdict' = "grant" /\ asked' = None
           \/ /\ stage' = "head" /\ want' = 1 /\ verdict' = None /\ asked' = "connect"
           \/ /\ stage' = "method" /\ want' = 2 /\ verdict' = None /\ asked' = "greeting"
    BY <1>1, <1>2 DEF FirstMessage, AskConnect, AskGreeting, Read
  <2>2. TypeOK'
    <3>1. <<>> \in Seq(Bytes) /\ TRUE \in BOOLEAN
      OBVIOUS
    <3> QED
      BY <1>1, <1>2, <2>1, <3>1 DEF TypeOK, HandshakeStages
  <2>3. HandshakeOK'
    <3>1. Inline' \/ Asking'
      BY <1>1, <2>1 DEF Inline, Asking
    <3>2. Asking' \/ (asked' = None /\ Inline')
      BY <2>1, <3>1 DEF Inline
    <3> QED
      BY <1>1, <2>1, <3>2 DEF HandshakeOK
  <2>4. StartOK' /\ InUseOK'
    BY <2>1 DEF StartOK, InUseOK, InUse
  <2>5. IdleOK'
    BY <1>1, <2>1 DEF IdleOK, None
  <2> QED
    BY <2>2, <2>3, <2>4, <2>5 DEF Exchange
<1>3. CASE /\ stage' = "failed" /\ raised' = "OSError"
           /\ UNCHANGED <<cfg, want, buf, method, code, sock, details, got, answer, half,
                          dutVars>>
  <2>1. UNCHANGED <<answer, wire, owed, asked, verdict, peer, relayed>>
    BY <1>3 DEF dutVars
  <2>2. TypeOK'
    BY <1>1, <1>3, <2>1 DEF TypeOK
  <2>3. StartOK' /\ HandshakeOK' /\ InUseOK'
    BY <1>3 DEF StartOK, HandshakeOK, HandshakeStages, InUseOK, InUse
  <2>4. IdleOK'
    BY <1>1, <1>3, <2>1 DEF IdleOK
  <2> QED
    BY <2>2, <2>3, <2>4 DEF Exchange
<1> QED
  BY <1>2, <1>3, Zenon DEF Dial

\* A piece read from the wire leaves the stream as it is.
LEMMA StreamMoved ==
    ASSUME TypeOK, NEW k \in 1..Len(wire)
    PROVE  /\ buf \o SubSeq(wire, 1, k) \in Seq(Bytes)
           /\ SubSeq(wire, k + 1, Len(wire)) \in Seq(Bytes)
           /\ (got \o (buf \o SubSeq(wire, 1, k))) \o SubSeq(wire, k + 1, Len(wire))
                 = (got \o buf) \o wire
<1>1. buf \in Seq(Bytes) /\ wire \in Seq(Bytes) /\ got \in Seq(Bytes)
  BY Types
<1> DEFINE more == buf \o SubSeq(wire, 1, k)
           rest == SubSeq(wire, k + 1, Len(wire))
<1>2. more \in Seq(Bytes) /\ rest \in Seq(Bytes) /\ more \o rest = buf \o wire
  <2>1. more \in Seq(Bytes) /\ more \o rest = buf \o wire
    BY <1>1, Moved
  <2>2. rest \in Seq(Bytes)
    BY <1>1, Cut
  <2> QED
    BY <2>1, <2>2
<1> HIDE DEF more, rest
<1>3. (got \o more) \o rest = got \o (more \o rest)
  BY <1>1, <1>2, Associative, Zenon
<1>4. (got \o buf) \o wire = got \o (buf \o wire)
  BY <1>1, Associative, Zenon
<1>5. (got \o more) \o rest = (got \o buf) \o wire
  BY <1>2, <1>3, <1>4, Zenon
<1> QED
  BY <1>2, <1>5 DEF more, rest

\* A recv() of the tunnel in use.
LEMMA InUseRecv ==
    ASSUME TunnelInv, stage \in {"exact", "eof"}, NEW k \in 1..Len(wire),
           buf' = buf \o SubSeq(wire, 1, k), wire' = SubSeq(wire, k + 1, Len(wire)),
           UNCHANGED <<cfg, stage, want, method, code, sock, details, raised, got,
                       answer, half, owed, asked, verdict, peer, relayed>>
    PROVE  Exchange'
<1>1. TypeOK /\ IdleOK /\ InUseOK
  BY DEF TunnelInv, Exchange
<1>2. buf' \in Seq(Bytes) /\ wire' \in Seq(Bytes)
  BY <1>1, StreamMoved
<1>3. got' \o buf' \o wire' = got \o buf \o wire
  BY <1>1, StreamMoved
<1>4. TypeOK'
  BY <1>1, <1>2 DEF TypeOK
<1>5. InUseOK'
  BY <1>1, <1>3 DEF InUseOK, InUse
<1>6. StartOK' /\ HandshakeOK'
  BY DEF StartOK, HandshakeOK, HandshakeStages
<1>7. IdleOK'
  <2>1. peer # "rst"
    <3>1. wire # <<>>
      OBVIOUS
    <3> QED
      BY <1>1, <3>1 DEF IdleOK
  <2> QED
    BY <1>1, <2>1 DEF IdleOK
<1> QED
  BY <1>4, <1>5, <1>6, <1>7 DEF Exchange

\* The client is reading a reply.
AReading == ReadingHead \/ ReadingMethod \/ ReadingUserPass \/ ReadingReply

\* It still is after a step that leaves the read where it was.
LEMMA StillReading ==
    ASSUME AReading, UNCHANGED <<stage, want, code, verdict>>,
           \A b \in Seq(Bytes), off \in Nat : Reading(b, off) => Reading(b, off)'
    PROVE  AReading'
<1>1. 0 \in Nat
  OBVIOUS
<1>2. CASE ReadingHead
  <2>1. \A r \in Replies["connect"] : r.bytes \in Seq(Bytes)
    BY ConnectReplies DEF IsReply
  <2>2. ReadingHead'
    BY <1>1, <1>2, <2>1, Zenon DEF ReadingHead
  <2> QED
    BY <2>2 DEF AReading
<1>3. CASE ReadingMethod
  <2>1. \A r \in Replies["greeting"] : r.bytes \in Seq(Bytes)
    BY GreetingReplies DEF IsReply
  <2>2. ReadingMethod'
    BY <1>1, <1>3, <2>1, Zenon DEF ReadingMethod, Negotiating
  <2> QED
    BY <2>2 DEF AReading
<1>4. CASE ReadingUserPass
  <2>1. \A r \in Replies["userpass"] : r.bytes \in Seq(Bytes)
    BY UserPassReplies DEF IsReply
  <2>2. ReadingUserPass'
    BY <1>1, <1>4, <2>1, Zenon DEF ReadingUserPass, Negotiating
  <2> QED
    BY <2>2 DEF AReading
<1>5. CASE ReadingReply
  <2>1. PICK r \in Replies["request"], off \in Nat :
           verdict = r.means /\ Reading(r.bytes, off) /\ ReplyStage(r.bytes, off)
    BY <1>5 DEF ReadingReply
  <2>2. r.bytes \in Seq(Bytes)
    BY RequestReplies DEF IsReply
  <2>3. ReplyStage(r.bytes, off)'
    BY <2>1 DEF ReplyStage, HeaderRead
  <2>4. ReadingReply'
    BY <2>1, <2>2, <2>3, Zenon DEF ReadingReply
  <2> QED
    BY <2>4 DEF AReading
<1> QED
  BY <1>2, <1>3, <1>4, <1>5 DEF AReading

\* A recv() of the handshake.
LEMMA HandshakeRecv ==
    ASSUME TunnelInv, stage \in HandshakeStages,
           NEW k \in 1..(want - Len(buf)), k <= Len(wire),
           buf' = buf \o SubSeq(wire, 1, k), wire' = SubSeq(wire, k + 1, Len(wire)),
           UNCHANGED <<cfg, stage, want, method, code, sock, details, raised, got,
                       answer, half, owed, asked, verdict, peer, relayed>>
    PROVE  Exchange'
<1>1. TypeOK /\ IdleOK /\ HandshakeOK
  BY DEF TunnelInv, Exchange
<1>2. /\ Len(wire) \in Nat /\ Len(buf) \in Nat /\ want \in Nat
      /\ k \in 1..Len(wire) /\ wire # <<>> /\ want > Len(buf)
  BY <1>1, Types
<1>3. \A b \in Seq(Bytes), off \in Nat : Reading(b, off) => Reading(b, off)'
  <2> SUFFICES ASSUME NEW b \in Seq(Bytes), NEW off \in Nat, Reading(b, off)
               PROVE  Reading(b, off)'
    OBVIOUS
  <2>1. peer = "rst" => wire = <<>>
    BY <1>1 DEF IdleOK
  <2> QED
    BY <1>1, <2>1, RecvReading
<1>4. ~ Asking /\ ~ Inline
  BY <1>2 DEF Asking, Inline
<1>5. raised = None /\ got = <<>> /\ asked = None /\ AReading
  BY <1>1, <1>4 DEF HandshakeOK, AReading
<1>6. HandshakeOK'
  <2>1. AReading'
    BY <1>3, <1>5, StillReading
  <2> QED
    BY <1>5, <2>1 DEF HandshakeOK, AReading
<1>7. TypeOK'
  <2>1. buf' \in Seq(Bytes) /\ wire' \in Seq(Bytes)
    BY <1>1, <1>2, StreamMoved
  <2> QED
    BY <1>1, <2>1 DEF TypeOK
<1>8. StartOK' /\ InUseOK'
  BY DEF StartOK, InUseOK, InUse, HandshakeStages
<1>9. IdleOK'
  BY <1>1, <1>2, <1>5 DEF IdleOK, None
<1> QED
  BY <1>6, <1>7, <1>8, <1>9 DEF Exchange

\* One recv() of _recv_exact, in the handshake or in a roundtrip.
LEMMA RecvInv ==
    ASSUME TunnelInv, Recv
    PROVE  Exchange'
<1>1. PICK k \in 1..(want - Len(buf)) :
         /\ k <= Len(wire)
         /\ buf' = buf \o SubSeq(wire, 1, k) /\ wire' = SubSeq(wire, k + 1, Len(wire))
  BY DEF Recv
<1>2. UNCHANGED <<cfg, stage, want, method, code, sock, details, raised, got,
                  answer, half, owed, asked, verdict, peer, relayed>>
  BY DEF Recv
<1>3. CASE stage \in HandshakeStages
  BY <1>1, <1>2, <1>3, HandshakeRecv
<1>4. CASE stage = "exact"
  <2>1. k \in 1..Len(wire)
    <3>1. TypeOK
      BY DEF TunnelInv, Exchange
    <3>2. Len(wire) \in Nat /\ want \in Nat /\ Len(buf) \in Nat
      BY <3>1, Types
    <3> QED
      BY <1>1, <3>2
  <2> QED
    BY <1>1, <1>2, <1>4, <2>1, InUseRecv
<1> QED
  BY <1>3, <1>4 DEF Recv, Handshaking

\* One recv() of read_until_eof.
LEMMA EofRecvInv ==
    ASSUME TunnelInv, EofRecv
    PROVE  Exchange'
<1>1. PICK k \in 1..Chunk :
         /\ k <= Len(wire)
         /\ buf' = buf \o SubSeq(wire, 1, k) /\ wire' = SubSeq(wire, k + 1, Len(wire))
  BY DEF EofRecv
<1>2. k \in 1..Len(wire)
  <2>1. TypeOK
    BY DEF TunnelInv, Exchange
  <2>2. Len(wire) \in Nat
    BY <2>1, Types
  <2> QED
    BY <1>1, <2>2, TunnelAssumption
<1> QED
  BY <1>1, <1>2, InUseRecv DEF EofRecv

\* connect() fails while it waits, or is interrupted.
LEMMA HandshakeFailsInv ==
    ASSUME TunnelInv, HandshakeFails \/ HandshakeInterrupted
    PROVE  Exchange'
<1>1. stage \in HandshakeStages
  BY DEF HandshakeFails, HandshakeInterrupted, Handshaking
<1>2. PICK kind \in {"TimeoutError", "PeerClosedEarly", "OSError", "KeyboardInterrupt"} :
         Abort(kind, Nothing)
  BY DEF HandshakeFails, HandshakeInterrupted, RecvFailures
<1> QED
  BY <1>1, <1>2, AbortInv DEF Failures

\* An operation on the tunnel ends: what it read is handed over.
LEMMA EndsInv ==
    ASSUME TunnelInv, stage \in {"open", "exact", "eof"},
           NEW kind \in {None, "OSError", "TimeoutError", "PeerClosedEarly",
                         "ProtocolViolation"},
           Ends(kind), answer' = answer \/ answer' # << <<>> >> \/ peer = "fin"
    PROVE  Exchange'
<1>1. TypeOK /\ IdleOK /\ InUseOK
  BY DEF TunnelInv, Exchange
<1>2. /\ stage' = "open" /\ want' = 0 /\ buf' = <<>> /\ raised' = kind /\ got' = got \o buf
      /\ UNCHANGED <<cfg, method, code, sock, half>>
      /\ UNCHANGED <<wire, owed, asked, verdict, peer, relayed>>
  BY DEF Ends, dutVars
<1>3. got \in Seq(Bytes) /\ buf \in Seq(Bytes)
  BY <1>1, Types
<1>4. got' \in Seq(Bytes) /\ got' \o <<>> = got'
  BY <1>2, <1>3, ConcatProperties, ConcatEmptySeq
<1>5. TypeOK'
  <2>1. <<>> \in Seq(Bytes) /\ 0 \in Nat
    OBVIOUS
  <2> QED
    BY <1>1, <1>2, <1>4, <2>1 DEF TypeOK
<1>6. StartOK' /\ HandshakeOK'
  BY <1>2 DEF StartOK, HandshakeOK, HandshakeStages
<1>7. InUseOK'
  <2>1. got' \o buf' \o wire' = got \o buf \o wire
    BY <1>2, <1>4
  <2> QED
    BY <1>1, <1>2, <2>1 DEF InUseOK, InUse
<1>8. IdleOK'
  BY <1>1, <1>2 DEF IdleOK, None
<1> QED
  BY <1>5, <1>6, <1>7, <1>8 DEF Exchange

\* A roundtrip, a read_until_eof that timed out or was reset, and one that met the end
\* of the stream or its limit: nothing at all only when the peer closed.
LEMMA EndingInv ==
    ASSUME TunnelInv, RoundtripEnds \/ EofEnds
    PROVE  Exchange'
<1>1. CASE RoundtripEnds
  <2>1. PICK kind \in {None, "OSError", "TimeoutError", "PeerClosedEarly"} : Ends(kind)
    BY <1>1 DEF RoundtripEnds, RecvFailures
  <2> QED
    BY <1>1, <2>1, EndsInv DEF RoundtripEnds
<1>2. CASE EofEnds
  <2>1. stage = "eof"
    BY <1>2 DEF EofEnds
  <2>2. CASE /\ Len(buf) >= ReadLimit \/ (wire = <<>> /\ peer = "fin")
             /\ answer' = <<buf>> /\ Ends(None)
    <3>1. answer' # << <<>> >> \/ peer = "fin"
      <4>1. CASE Len(buf) >= ReadLimit
        <5>1. buf # <<>>
          <6>1. ReadLimit \in Nat /\ ReadLimit >= 1
            BY TunnelAssumption
          <6> SUFFICES ASSUME buf = <<>> PROVE FALSE
            OBVIOUS
          <6>2. Len(buf) = 0
            OBVIOUS
          <6> QED
            BY <4>1, <6>1, <6>2
        <5>2. answer'[1] = buf
          BY <2>2
        <5>3. << <<>> >>[1] = <<>>
          OBVIOUS
        <5> QED
          BY <5>1, <5>2, <5>3
      <4> QED
        BY <2>2, <4>1
    <3> QED
      BY <2>1, <2>2, <3>1, EndsInv
  <2>3. CASE EofTimeout
    BY <2>1, <2>3, EndsInv DEF EofTimeout
  <2>4. CASE Ends("OSError") /\ UNCHANGED answer
    BY <2>1, <2>4, EndsInv
  <2> QED
    BY <1>2, <2>2, <2>3, <2>4 DEF EofEnds
<1> QED
  BY <1>1, <1>2

\* An operation on the tunnel starts, or shuts the writing side, or closes it.
LEMMA OperationInv ==
    ASSUME TunnelInv, Roundtrip \/ ReadUntilEof \/ HalfClose \/ Close
    PROVE  Exchange'
<1>1. /\ TypeOK /\ IdleOK /\ stage = "open" /\ buf = <<>>
      /\ verdict = "grant" /\ owed = <<>> /\ asked = None
      /\ peer # "rst" => got \o buf \o wire = relayed
  BY DEF TunnelInv, Exchange, InUseOK, InUse, Roundtrip, ReadUntilEof, HalfClose, Close
<1>2. ASSUME NEW s \in {"exact", "eof"}, NEW n \in Nat, Read(s, n),
             answer' = answer \/ answer' = <<>>,
             UNCHANGED <<cfg, method, code, sock, details, raised, got, half, dutVars>>
      PROVE  Exchange'
  <2>1. /\ stage' = s /\ want' = n /\ buf' = <<>>
        /\ UNCHANGED <<wire, owed, asked, verdict, peer, relayed>>
    BY <1>2 DEF Read, dutVars
  <2>2. TypeOK'
    <3>1. <<>> \in Seq(Bytes)
      OBVIOUS
    <3> QED
      BY <1>1, <1>2, <2>1, <3>1 DEF TypeOK
  <2>3. StartOK' /\ HandshakeOK' /\ InUseOK'
    BY <1>1, <1>2, <2>1 DEF StartOK, HandshakeOK, HandshakeStages, InUseOK
  <2>4. IdleOK'
    BY <1>1, <1>2, <2>1 DEF IdleOK
  <2> QED
    BY <2>2, <2>3, <2>4 DEF Exchange
<1>3. CASE Roundtrip
  <2>1. PICK n \in 1..MaxRelay :
           \/ Ends("OSError") /\ UNCHANGED answer
           \/ /\ Read("exact", n)
              /\ UNCHANGED <<cfg, method, code, sock, details, raised, got, answer, half,
                             dutVars>>
    BY <1>3 DEF Roundtrip
  <2>2. n \in Nat
    BY TunnelAssumption
  <2> QED
    BY <1>1, <1>2, <2>1, <2>2, EndsInv
<1>4. CASE ReadUntilEof
  BY <1>2, <1>4 DEF ReadUntilEof
<1>5. CASE HalfClose
  <2>1. /\ raised' = raised \/ raised' = "OSError"
        /\ half' \in BOOLEAN
    BY <1>1, <1>5 DEF HalfClose, TypeOK
  <2>2. /\ UNCHANGED <<cfg, stage, want, buf, method, code, sock, details, got, answer>>
        /\ UNCHANGED <<wire, owed, asked, verdict, peer, relayed>>
    BY <1>5 DEF HalfClose, dutVars
  <2>3. TypeOK'
    BY <1>1, <2>1, <2>2 DEF TypeOK
  <2>4. StartOK' /\ HandshakeOK' /\ InUseOK'
    BY <1>1, <2>2 DEF StartOK, HandshakeOK, HandshakeStages, InUseOK
  <2>5. IdleOK'
    BY <1>1, <2>1, <2>2 DEF IdleOK
  <2> QED
    BY <2>3, <2>4, <2>5 DEF Exchange
<1>6. CASE Close
  <2>1. /\ stage' = "closed" /\ sock' = FALSE /\ wire' = <<>>
        /\ UNCHANGED <<cfg, want, buf, method, code, details, raised, got, answer, half,
                       owed, asked, verdict, peer, relayed>>
    BY <1>6 DEF Close
  <2>2. TypeOK'
    <3>1. <<>> \in Seq(Bytes) /\ FALSE \in BOOLEAN
      OBVIOUS
    <3> QED
      BY <1>1, <2>1, <3>1 DEF TypeOK
  <2>3. StartOK' /\ HandshakeOK' /\ InUseOK'
    BY <2>1 DEF StartOK, HandshakeOK, HandshakeStages, InUseOK, InUse
  <2>4. IdleOK'
    BY <1>1, <2>1 DEF IdleOK
  <2> QED
    BY <2>2, <2>3, <2>4 DEF Exchange
<1> QED
  BY <1>3, <1>4, <1>5, <1>6

-----------------------------------------------------------------------------
(***************************************************************************)
(* The DUT.                                                                *)
(***************************************************************************)
\* A DUT that acts has a connection: the client is in the handshake or uses the tunnel.
LEMMA DutActs ==
    ASSUME TunnelInv, Connected
    PROVE  /\ TypeOK /\ IdleOK /\ peer = "open" /\ peer # "rst"
           /\ stage \in HandshakeStages \/ stage \in InUse
           /\ stage \notin Idle
BY DEF TunnelInv, Exchange, SocketOK, Connected

\* The DUT answers the request that waits for it.
LEMMA DutAnswersInv ==
    ASSUME TunnelInv, DutAnswers
    PROVE  Exchange'
<1>1. /\ TypeOK /\ IdleOK /\ stage \notin Idle /\ asked # None
      /\ stage \in HandshakeStages \/ stage \in InUse
  BY DutActs DEF DutAnswers
<1>2. stage \in HandshakeStages /\ Asking /\ raised = None /\ got = <<>>
  BY <1>1 DEF TunnelInv, Exchange, InUseOK, HandshakeOK
<1>3. PICK r \in Replies[asked] :
         /\ owed' = r.bytes
         /\ verdict' = IF r.means = "grant" /\ asked \notin {"connect", "request"}
                       THEN "more" ELSE r.means
  BY DEF DutAnswers
<1>4. /\ asked' = None /\ UNCHANGED <<cfg, stage, want, buf, method, code, sock, details>>
      /\ UNCHANGED <<raised, got, answer, half, wire, peer, relayed>>
  BY DEF DutAnswers, clientVars
<1>5. /\ buf = <<>> /\ wire = <<>> /\ relayed = <<>> /\ want \in Nat
  BY <1>1, <1>2, Types DEF Asking
<1>6. ASSUME IsReply(r), verdict' = "grant" => want <= Len(r.bytes)
      PROVE  Reading(r.bytes, 0)' /\ TypeOK'
  <2>1. r.bytes \in Seq(Bytes) /\ verdict' \in {"more", "grant", "refuse", "bad"}
    BY <1>3, <1>6 DEF IsReply
  <2>2. Reading(r.bytes, 0)'
    BY <1>3, <1>4, <1>5, <1>6, <2>1, AnswerReading
  <2>3. TypeOK'
    BY <1>1, <1>3, <1>4, <2>1 DEF TypeOK
  <2> QED
    BY <2>2, <2>3
<1>7. TypeOK' /\ AReading'
  <2>1. CASE stage = "head" /\ asked = "connect" /\ want = 1
    <3>1. r \in Replies["connect"] /\ verdict' = r.means
      BY <1>3, <2>1
    <3>2. IsReply(r) /\ (verdict' = "grant" => want <= Len(r.bytes))
      <4>1. IsReply(r) /\ (r.means = "grant" => Len(r.bytes) >= 4)
        BY <3>1, ConnectReplies
      <4>2. Len(r.bytes) \in Nat
        BY <4>1 DEF IsReply
      <4> QED
        BY <2>1, <3>1, <4>1, <4>2
    <3> QED
      BY <1>4, <1>6, <2>1, <3>1, <3>2 DEF AReading, ReadingHead
  <2>2. CASE stage = "method" /\ asked = "greeting" /\ want = 2
    <3>1. r \in Replies["greeting"] /\ verdict' = IF r.means = "grant" THEN "more" ELSE r.means
      BY <1>3, <2>2
    <3>2. IsReply(r) /\ verdict' # "grant"
      BY <3>1, GreetingReplies
    <3>3. Negotiating(r)'
      BY <1>4, <1>6, <2>2, <3>1, <3>2 DEF Negotiating
    <3> QED
      BY <1>4, <1>6, <2>2, <3>1, <3>2, <3>3 DEF AReading, ReadingMethod
  <2>3. CASE stage = "userpass" /\ asked = "userpass" /\ want = 2
    <3>1. r \in Replies["userpass"] /\ verdict' = IF r.means = "grant" THEN "more" ELSE r.means
      BY <1>3, <2>3
    <3>2. IsReply(r) /\ verdict' # "grant"
      BY <3>1, UserPassReplies
    <3>3. Negotiating(r)'
      BY <1>4, <1>6, <2>3, <3>1, <3>2 DEF Negotiating
    <3> QED
      BY <1>4, <1>6, <2>3, <3>1, <3>2, <3>3 DEF AReading, ReadingUserPass
  <2>4. CASE stage = "reply" /\ asked = "request" /\ want = 4
    <3>1. r \in Replies["request"] /\ verdict' = r.means
      BY <1>3, <2>4
    <3>2. IsReply(r) /\ (verdict' = "grant" => want <= Len(r.bytes))
      <4>1. IsReply(r) /\ (r.means = "grant" => Len(r.bytes) >= 4)
        BY <3>1, RequestReplies
      <4>2. Len(r.bytes) \in Nat
        BY <4>1 DEF IsReply
      <4> QED
        BY <2>4, <3>1, <4>1, <4>2
    <3>3. ReplyStage(r.bytes, 0)'
      BY <1>4, <2>4 DEF ReplyStage
    <3>4. Reading(r.bytes, 0)' /\ TypeOK' /\ 0 \in Nat
      BY <1>6, <3>2
    <3> QED
      BY <3>1, <3>3, <3>4 DEF AReading, ReadingReply
  <2> QED
    BY <1>2, <2>1, <2>2, <2>3, <2>4 DEF Asking
<1>8. HandshakeOK'
  BY <1>2, <1>4, <1>7 DEF HandshakeOK, AReading
<1>9. StartOK' /\ InUseOK'
  BY <1>2, <1>4 DEF StartOK, InUseOK, InUse, HandshakeStages
<1>10. IdleOK'
  BY <1>1, <1>2, <1>4 DEF IdleOK, HandshakeStages
<1> QED
  BY <1>7, <1>8, <1>9, <1>10 DEF Exchange

\* The DUT sends, relays or closes while a reply is read.
LEMMA WhileReading ==
    ASSUME TunnelInv, stage \in HandshakeStages, AReading, asked = None, peer = "open",
           wire' \in Seq(Bytes), owed' \in Seq(Bytes), relayed' \in Seq(Bytes),
           peer' \in {"open", "fin"} \/ (peer' = "rst" /\ wire' = <<>>),
           UNCHANGED <<cfg, clientVars, asked, verdict>>,
           \A b \in Seq(Bytes), off \in Nat : Reading(b, off) => Reading(b, off)'
    PROVE  Exchange'
<1>1. TypeOK /\ IdleOK /\ raised = None /\ got = <<>>
  BY DEF TunnelInv, Exchange, HandshakeOK
<1>2. /\ UNCHANGED <<cfg, stage, want, buf, method, code, sock, details>>
      /\ UNCHANGED <<raised, got, answer, half, asked, verdict>>
  BY DEF clientVars
<1>3. TypeOK'
  BY <1>1, <1>2 DEF TypeOK
<1>4. AReading'
  BY <1>2, StillReading
<1>5. HandshakeOK'
  BY <1>1, <1>2, <1>4 DEF HandshakeOK, AReading
<1>6. StartOK' /\ InUseOK'
  BY <1>2 DEF StartOK, InUseOK, InUse, HandshakeStages
<1>7. IdleOK'
  BY <1>1, <1>2 DEF IdleOK, HandshakeStages, None
<1> QED
  BY <1>3, <1>5, <1>6, <1>7 DEF Exchange

\* The DUT sends more of its reply.
LEMMA DutSendsInv ==
    ASSUME TunnelInv, DutSends
    PROVE  Exchange'
<1>1. /\ TypeOK /\ IdleOK /\ peer = "open" /\ owed # <<>>
      /\ stage \in HandshakeStages \/ stage \in InUse
  BY DutActs DEF DutSends
<1>2. stage \in HandshakeStages /\ AReading /\ asked = None
  BY <1>1 DEF TunnelInv, Exchange, InUseOK, HandshakeOK, Asking, Inline, AReading
<1>3. PICK k \in 1..Len(owed) :
         /\ wire' = wire \o SubSeq(owed, 1, k)
         /\ owed' = SubSeq(owed, k + 1, Len(owed))
  BY DEF DutSends
<1>4. UNCHANGED <<cfg, clientVars, asked, verdict, peer, relayed>>
  BY DEF DutSends
<1>5. wire' \in Seq(Bytes) /\ owed' \in Seq(Bytes) /\ relayed' \in Seq(Bytes)
  <2>1. wire \in Seq(Bytes) /\ owed \in Seq(Bytes) /\ relayed \in Seq(Bytes)
    BY <1>1, Types
  <2>2. wire' \in Seq(Bytes)
    BY <1>3, <2>1, Moved
  <2>3. owed' \in Seq(Bytes)
    BY <1>3, <2>1, Cut
  <2> QED
    BY <1>4, <2>1, <2>2, <2>3
<1>6. ASSUME NEW b \in Seq(Bytes), NEW off \in Nat, Reading(b, off)
      PROVE  Reading(b, off)'
  BY <1>1, <1>3, <1>4, <1>6, SendReading DEF clientVars
<1> QED
  BY <1>1, <1>2, <1>4, <1>5, <1>6, WhileReading

\* The origin's bytes follow the reply, on the wire as in the history.
LEMMA DutRelaysInv ==
    ASSUME TunnelInv, DutRelays
    PROVE  Exchange'
<1>1. /\ TypeOK /\ IdleOK /\ peer = "open" /\ verdict = "grant" /\ owed = <<>>
      /\ stage \in HandshakeStages \/ stage \in InUse
  BY DutActs DEF DutRelays
<1>2. PICK x \in RelayBytes : wire' = Append(wire, x) /\ relayed' = Append(relayed, x)
  BY DEF DutRelays
<1>3. x \in Bytes
  BY DutAssumption
<1>4. UNCHANGED <<cfg, clientVars, owed, asked, verdict, peer>>
  BY DEF DutRelays
<1>5. /\ wire \in Seq(Bytes) /\ relayed \in Seq(Bytes) /\ owed \in Seq(Bytes)
      /\ got \in Seq(Bytes) /\ buf \in Seq(Bytes)
  BY <1>1, Types
<1>6. wire' \in Seq(Bytes) /\ relayed' \in Seq(Bytes) /\ owed' \in Seq(Bytes)
  BY <1>2, <1>3, <1>4, <1>5, AppendProperties
<1>7. CASE stage \in HandshakeStages /\ AReading /\ asked = None
  <2>1. ASSUME NEW b \in Seq(Bytes), NEW off \in Nat, Reading(b, off)
        PROVE  Reading(b, off)'
    BY <1>1, <1>2, <1>3, <1>4, <2>1, RelayReading DEF clientVars
  <2> QED
    BY <1>1, <1>4, <1>6, <1>7, <2>1, WhileReading
<1>8. /\ UNCHANGED <<cfg, stage, want, buf, method, code, sock, details>>
      /\ UNCHANGED <<raised, got, answer, half, owed, asked, verdict, peer>>
  BY <1>4 DEF clientVars
<1>9. TypeOK'
  BY <1>1, <1>6, <1>8 DEF TypeOK
<1>10. CASE stage \in HandshakeStages /\ Inline /\ asked = None
  <2>1. raised = None /\ got = <<>> /\ wire = relayed
    BY <1>1, <1>10 DEF TunnelInv, Exchange, HandshakeOK, Inline
  <2>2. Inline'
    BY <1>2, <1>8, <1>10, <2>1 DEF Inline
  <2>3. HandshakeOK'
    BY <1>8, <1>10, <2>1, <2>2 DEF HandshakeOK
  <2>4. StartOK' /\ InUseOK'
    BY <1>8, <1>10 DEF StartOK, InUseOK, InUse, HandshakeStages
  <2>5. IdleOK'
    BY <1>1, <1>8, <1>10, <2>1 DEF IdleOK, HandshakeStages, None
  <2> QED
    BY <1>9, <2>3, <2>4, <2>5 DEF Exchange
<1>11. CASE stage \in InUse
  <2>1. /\ asked = None /\ (stage = "open" => buf = <<>>)
        /\ (got \o buf) \o wire = relayed
    BY <1>1, <1>11 DEF TunnelInv, Exchange, InUseOK
  <2>2. (got' \o buf') \o wire' = relayed'
    <3> DEFINE head == got \o buf
    <3>1. head \in Seq(Bytes)
      BY <1>5, ConcatProperties
    <3> HIDE DEF head
    <3>2. Append(head \o wire, x) = head \o Append(wire, x)
      BY <1>3, <1>5, <3>1, AppendBehind, Zenon
    <3>3. head \o wire = relayed
      BY <2>1 DEF head
    <3>4. head \o wire' = relayed'
      BY <1>2, <3>2, <3>3
    <3> QED
      BY <1>8, <3>4 DEF head
  <2>3. InUseOK'
    BY <1>1, <1>8, <2>1, <2>2 DEF InUseOK
  <2>4. StartOK' /\ HandshakeOK'
    BY <1>8, <1>11 DEF StartOK, HandshakeOK, InUse, HandshakeStages
  <2>5. IdleOK'
    BY <1>1, <1>8, <1>11 DEF IdleOK, InUse
  <2> QED
    BY <1>9, <2>3, <2>4, <2>5 DEF Exchange
<1> QED
  BY <1>1, <1>7, <1>10, <1>11 DEF TunnelInv, Exchange, HandshakeOK, AReading, Asking, None

\* The DUT closes its side behind what it sent, or resets the connection.
LEMMA DutClosesInv ==
    ASSUME TunnelInv, DutCloses
    PROVE  Exchange'
<1>1. /\ TypeOK /\ IdleOK /\ peer = "open" /\ stage \notin Idle
      /\ stage \in HandshakeStages \/ stage \in InUse
  BY DutActs DEF DutCloses
<1>2. (peer' = "fin" /\ wire' = wire) \/ (peer' = "rst" /\ wire' = <<>>)
  BY DEF DutCloses
<1>3. /\ UNCHANGED <<cfg, clientVars, owed, asked, verdict, relayed>>
      /\ UNCHANGED <<cfg, stage, want, buf, method, code, sock, details>>
      /\ UNCHANGED <<raised, got, answer, half>>
  BY DEF DutCloses, clientVars
<1>4. /\ wire \in Seq(Bytes) /\ relayed \in Seq(Bytes) /\ owed \in Seq(Bytes)
      /\ <<>> \in Seq(Bytes)
  BY <1>1, Types
<1>5. wire' \in Seq(Bytes) /\ relayed' \in Seq(Bytes) /\ owed' \in Seq(Bytes)
  BY <1>2, <1>3, <1>4
<1>6. CASE stage \in HandshakeStages /\ AReading /\ asked = None
  <2>1. ASSUME NEW b \in Seq(Bytes), NEW off \in Nat, Reading(b, off)
        PROVE  Reading(b, off)'
    BY <1>1, <1>2, <1>3, <2>1, CloseReading
  <2> QED
    BY <1>1, <1>2, <1>3, <1>5, <1>6, <2>1, WhileReading
<1>7. TypeOK'
  BY <1>1, <1>2, <1>3, <1>5 DEF TypeOK
<1>8. IdleOK'
  BY <1>1, <1>2, <1>3 DEF IdleOK, Idle
<1>9. StartOK'
  BY <1>1, <1>3 DEF StartOK, Idle
<1>10. CASE stage \in HandshakeStages /\ (Asking \/ (Inline /\ asked = None))
  <2>1. raised = None /\ got = <<>>
    BY <1>10 DEF TunnelInv, Exchange, HandshakeOK
  <2>2. Asking => Asking'
    BY <1>2, <1>3 DEF Asking
  <2>3. Inline => Inline'
    BY <1>1, <1>2, <1>3 DEF Inline
  <2>4. HandshakeOK'
    BY <1>3, <1>10, <2>1, <2>2, <2>3 DEF HandshakeOK
  <2>5. InUseOK'
    BY <1>3, <1>10 DEF InUseOK, InUse, HandshakeStages
  <2> QED
    BY <1>7, <1>8, <1>9, <2>4, <2>5 DEF Exchange
<1>11. CASE stage \in InUse
  <2>1. InUseOK'
    BY <1>1, <1>2, <1>3, <1>11 DEF TunnelInv, Exchange, InUseOK
  <2>2. HandshakeOK'
    BY <1>3, <1>11 DEF HandshakeOK, InUse, HandshakeStages
  <2> QED
    BY <1>7, <1>8, <1>9, <2>1, <2>2 DEF Exchange
<1> QED
  BY <1>1, <1>6, <1>10, <1>11 DEF TunnelInv, Exchange, HandshakeOK, AReading

-----------------------------------------------------------------------------
(***************************************************************************)
(* Every step preserves the invariant.                                     *)
(***************************************************************************)
\* Nothing happens.
LEMMA StutterInv ==
    ASSUME TunnelInv, UNCHANGED vars
    PROVE  Exchange'
<1>1. /\ UNCHANGED <<cfg, stage, want, buf, method, code, sock, details>>
      /\ UNCHANGED <<raised, got, answer, half>>
      /\ UNCHANGED <<wire, owed, asked, verdict, peer, relayed>>
  BY DEF vars, clientVars, dutVars
<1>2. TypeOK' /\ StartOK' /\ InUseOK' /\ IdleOK'
  BY <1>1 DEF TunnelInv, Exchange, TypeOK, StartOK, InUseOK, IdleOK
<1>3. ASSUME stage \in HandshakeStages PROVE HandshakeOK'
  <2>1. /\ raised = None /\ got = <<>>
        /\ Asking \/ (asked = None /\ (Inline \/ AReading))
    BY <1>3 DEF TunnelInv, Exchange, HandshakeOK, AReading
  <2>2. Asking => Asking'
    BY <1>1 DEF Asking
  <2>3. Inline => Inline'
    BY <1>1 DEF Inline
  <2>4. AReading => AReading'
    <3>1. \A b \in Seq(Bytes), off \in Nat : Reading(b, off) => Reading(b, off)'
      BY <1>1 DEF Reading
    <3> QED
      BY <1>1, <3>1, StillReading
  <2> QED
    BY <1>1, <2>1, <2>2, <2>3, <2>4 DEF HandshakeOK, AReading
<1>4. stage \notin HandshakeStages => HandshakeOK'
  BY <1>1 DEF HandshakeOK
<1> QED
  BY <1>2, <1>3, <1>4 DEF Exchange

\* Whatever the client decides about a read that is complete.
LEMMA DecideInv ==
    ASSUME TunnelInv, Decide
    PROVE  Exchange'
BY DecideTransparentInv, DecideHeadInv, DecideMethodInv, DecideUserPassInv, DecideReplyInv,
   DecideAddressInv, DecidePortInv DEF Decide

\* Every step of the client and of the DUT preserves the invariant.
LEMMA NextTunnelInv == TunnelInv /\ [Next]_vars => TunnelInv'
<1> SUFFICES ASSUME TunnelInv, [Next]_vars PROVE TunnelInv'
  OBVIOUS
<1>1. SocketOK'
  BY NextSocketOK DEF TunnelInv
<1>2. Client => Exchange'
  BY DialInv, RecvInv, DecideInv, HandshakeFailsInv, EndingInv, OperationInv, EofRecvInv
  DEF Client
<1>3. HandshakeInterrupted => Exchange'
  BY HandshakeFailsInv
<1>4. Dut => Exchange'
  BY DutAnswersInv, DutSendsInv, DutRelaysInv, DutClosesInv DEF Dut
<1>5. Over \/ UNCHANGED vars => Exchange'
  BY StutterInv DEF Over
<1> QED
  BY <1>1, <1>2, <1>3, <1>4, <1>5 DEF TunnelInv, Next

\* Before dialling there is no socket and nothing to read.
LEMMA InitTunnelInv == Init => TunnelInv
<1> SUFFICES ASSUME Init PROVE TunnelInv
  OBVIOUS
<1>1. /\ \/ stage = "start" /\ raised = None
         \/ stage = "failed" /\ raised = "ConfigurationError"
      /\ cfg \in Configs
      /\ want = 0 /\ buf = <<>> /\ method = NoByte /\ code = NoByte
      /\ sock = FALSE /\ got = <<>> /\ answer = <<>> /\ half = FALSE
      /\ wire = <<>> /\ owed = <<>> /\ asked = None
      /\ verdict = None /\ peer = "open" /\ relayed = <<>>
  BY DEF Init
<1>2. TypeOK
  <2>1. <<>> \in Seq(Bytes) /\ FALSE \in BOOLEAN /\ 0 \in Nat /\ NoByte \in 0..NoByte
    BY DEF NoByte
  <2> QED
    BY <1>1, <2>1 DEF TypeOK
<1>3. SocketOK
  BY <1>1 DEF SocketOK, Idle
<1>4. StartOK /\ HandshakeOK /\ InUseOK
  BY <1>1 DEF StartOK, HandshakeOK, HandshakeStages, InUseOK, InUse
<1>5. IdleOK
  BY <1>1 DEF IdleOK, None
<1> QED
  BY <1>2, <1>3, <1>4, <1>5 DEF TunnelInv, Exchange

-----------------------------------------------------------------------------
(***************************************************************************)
(* The theorems.                                                           *)
(***************************************************************************)

\* In every reachable state the client holds a socket exactly while it is
\* connecting or connected: no way out of connect() leaks one.
THEOREM SocketHolds == Spec => []SocketOK
<1>1. Init => SocketOK
  BY DEF Init, SocketOK, Idle
<1> QED
  BY <1>1, NextSocketOK, PTL DEF Spec

\* The inductive invariant holds: at every moment of the handshake the client knows
\* where in the DUT's reply it is reading, and reads nothing behind it.
THEOREM InvariantHolds == Spec => []TunnelInv
BY InitTunnelInv, NextTunnelInv, PTL DEF Spec

\* connect() returns only after the whole of the DUT's grant, and a refusal that was
\* read is reported as one, with what the DUT said (HttpConnectHandshake.establish,
\* Socks5Handshake.establish).
THEOREM OutcomesAreTrue == Spec => []OutcomeIsTrue
<1>1. TunnelInv => OutcomeIsTrue
  BY DEF TunnelInv, Exchange, IdleOK, InUseOK, InUse, OutcomeIsTrue
<1> QED
  BY <1>1, InvariantHolds, PTL

\* The handshake takes the DUT's reply off the stream and nothing else
\* (read_http_response_head, read_socks5_reply), and the calls on the open tunnel hand
\* over the origin's bytes, all of them and in order.
THEOREM StreamsIntact == Spec => []StreamIntact
<1>1. TunnelInv => StreamIntact
  BY DEF TunnelInv, Exchange, IdleOK, InUseOK, InUse, StreamIntact
<1> QED
  BY <1>1, InvariantHolds, PTL

\* The proxy client implements TunnelClient, which the inducer is built on: the
\* initial states map to its initial state, every step to one of its steps or
\* to none.
THEOREM ClientRefines == Spec => ImplementsTunnelClient
<1> DEFINE p == IF stage \in Idle THEN "closed"
                ELSE IF Handshaking THEN "connecting" ELSE "open"
<1>1. Init => Tunnel!Init
  BY DEF Init, Tunnel!Init
<1>2. SocketOK /\ [Next]_vars => [Tunnel!Next]_<<p, sock>>
  <2> SUFFICES ASSUME SocketOK, [Next]_vars PROVE Tunnel!Next \/ UNCHANGED <<p, sock>>
    OBVIOUS
  <2>1. ClientStep
    BY NextStep
  <2>2. /\ stage \in Idle => p = "closed"
        /\ stage \in HandshakeStages => p = "connecting"
        /\ stage \in InUse => p = "open"
        /\ stage' \in Idle => p' = "closed"
        /\ stage' \in HandshakeStages => p' = "connecting"
        /\ stage' \in InUse => p' = "open"
    BY DEF Idle, HandshakeStages, InUse, Handshaking
  <2> QED
    BY <2>1, <2>2 DEF ClientStep, Stays, Dials, Establishes, Closes, SocketOK, Tunnel!Next,
                      Tunnel!Dial, Tunnel!Establish, Tunnel!Close, Idle
<1> QED
  BY <1>1, <1>2, SocketHolds, PTL DEF Spec, ImplementsTunnelClient, Tunnel!Spec, Idle
=============================================================================
