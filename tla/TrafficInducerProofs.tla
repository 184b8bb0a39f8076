------------------------ MODULE TrafficInducerProofs ------------------------
(***************************************************************************)
(* Proofs about TrafficInducer, for any number of starts and attempts and  *)
(* any back-off threshold.                                                 *)
(***************************************************************************)
EXTENDS TrafficInducer, FiniteSetTheorems, TLAPS

-----------------------------------------------------------------------------
(***************************************************************************)
(* The inductive invariant.                                                *)
(***************************************************************************)

\* Where a loop is decides what its client holds.
ClientsOK ==
    \A g \in Loops :
       /\ loop[g] = "connect" => phase[g] = "connecting" /\ held[g] = TRUE
       /\ loop[g] = "relay" => phase[g] = "open" /\ held[g] = TRUE
       /\ loop[g] \notin {"connect", "relay"} => phase[g] = "closed" /\ held[g] = FALSE

\* The loops of starts yet to come do not exist.
BornOK == \A g \in Loops : g > starts => loop[g] = "unborn"

\* Of the loops that no join gave up on only the last one started can be live,
\* and only while the inducer still knows its thread.
OneOwned == Live \ gaveUp \subseteq {thread}

\* While no loop is left the counters are those of the last summary.
ShownOK == thread = 0 /\ gaveUp = {} => shown = counts

\* The invariant every step of the owner and of every loop preserves.
InducerInv ==
    /\ AttemptsAccounted
    /\ phase \in [Loops -> {"closed", "connecting", "open"}]
    /\ held \in [Loops -> BOOLEAN]
    /\ ClientsOK
    /\ BornOK
    /\ OneOwned
    /\ ShownOK

-----------------------------------------------------------------------------
(***************************************************************************)
(* Counting the attempts in flight.                                        *)
(***************************************************************************)
Places == {"unborn", "head", "dial", "connect", "relay", "except", "else", "backoff",
           "pause", "ended"}
Flying == {"dial", "connect", "relay", "except", "else"}

\* There are finitely many loops, so the attempts in flight can be counted.
LEMMA InFlightFinite == IsFiniteSet(InFlight) /\ Cardinality(InFlight) \in Nat
<1>1. IsFiniteSet(Loops)
  BY FS_Interval, InducerAssumption DEF Loops
<1>2. IsFiniteSet(InFlight)
  BY <1>1, FS_Subset DEF InFlight
<1> QED
  BY <1>2, FS_CardinalityType

\* A step of one loop puts its attempt in flight, ends it, or leaves it.
LEMMA CountInFlight ==
    ASSUME loop \in [Loops -> Places], NEW g \in Loops, NEW l \in Places,
           loop' = [loop EXCEPT ![g] = l]
    PROVE  /\ loop[g] \notin Flying /\ l \in Flying
                 => Cardinality(InFlight)' = Cardinality(InFlight) + 1
           /\ loop[g] \in Flying /\ l \notin Flying
                 => /\ Cardinality(InFlight)' = Cardinality(InFlight) - 1
                    /\ Cardinality(InFlight) >= 1
           /\ (loop[g] \in Flying <=> l \in Flying)
                 => Cardinality(InFlight)' = Cardinality(InFlight)
<1>0. /\ IsFiniteSet(InFlight) /\ Cardinality(InFlight) \in Nat
      /\ InFlight = {h \in Loops : loop[h] \in Flying}
      /\ InFlight' = {h \in Loops : loop'[h] \in Flying}
  BY InFlightFinite DEF InFlight, Flying
<1>1. ASSUME loop[g] \notin Flying, l \in Flying
      PROVE  Cardinality(InFlight)' = Cardinality(InFlight) + 1
  <2>1. InFlight' = InFlight \cup {g} /\ g \notin InFlight
    BY <1>0, <1>1
  <2> QED
    BY <1>0, <2>1, FS_AddElement
<1>2. ASSUME loop[g] \in Flying, l \notin Flying
      PROVE  /\ Cardinality(InFlight)' = Cardinality(InFlight) - 1
             /\ Cardinality(InFlight) >= 1
  <2>1. InFlight' = InFlight \ {g} /\ g \in InFlight
    BY <1>0, <1>2
  <2>2. Cardinality(InFlight)' = Cardinality(InFlight) - 1
    <3>1. Cardinality(InFlight \ {g})
             = IF g \in InFlight THEN Cardinality(InFlight) - 1 ELSE Cardinality(InFlight)
      BY <1>0, FS_RemoveElement, Zenon
    <3>2. Cardinality(InFlight \ {g}) = Cardinality(InFlight) - 1
      BY <2>1, <3>1, Zenon
    <3> QED
      BY <2>1, <3>2, Zenon
  <2>3. Cardinality(InFlight) # 0
    <3>1. InFlight # {}
      BY <2>1
    <3> QED
      BY <1>0, <3>1, FS_EmptySet, Zenon
  <2> QED
    BY <1>0, <2>2, <2>3
<1>3. ASSUME loop[g] \in Flying <=> l \in Flying
      PROVE  Cardinality(InFlight)' = Cardinality(InFlight)
  <2>1. InFlight' = InFlight
    BY <1>0, <1>3
  <2> QED
    BY <2>1
<1> QED
  BY <1>1, <1>2, <1>3

\* Counting one more: the counter named grows, the other two do not.
LEMMA CountLemma ==
    ASSUME NEW what \in {"attempts", "successes", "errors"}, Count(what),
           counts \in [DOMAIN NoCounts -> 0..MaxAttempts], counts[what] < MaxAttempts
    PROVE  /\ counts' \in [DOMAIN NoCounts -> 0..MaxAttempts]
           /\ counts'[what] = counts[what] + 1
           /\ \A k \in {"attempts", "successes", "errors"} \ {what} :
                 counts'[k] = counts[k]
<1>1. DOMAIN NoCounts = {"attempts", "successes", "errors"}
  BY DEF NoCounts
<1>2. MaxAttempts \in Nat
  BY InducerAssumption
<1> QED
  BY <1>1, <1>2 DEF Count

-----------------------------------------------------------------------------
(***************************************************************************)
(* Every step preserves the invariant.                                     *)
(***************************************************************************)

\* Before the first start() nothing is held and nothing has been tried.
LEMMA InitInducerInv == Init => InducerInv
<1> SUFFICES ASSUME Init PROVE InducerInv
  OBVIOUS
<1> USE DEF Init
<1>1. MaxAttempts \in Nat /\ MaxStarts \in Nat /\ BackoffAfter \in Nat
  BY InducerAssumption
<1>2. TypeOK
  <2>1. NoCounts \in [DOMAIN NoCounts -> 0..MaxAttempts]
    BY <1>1 DEF NoCounts
  <2>2. starts \in 0..MaxStarts /\ failures \in [Loops -> 0..BackoffAfter]
    BY <1>1
  <2> QED
    BY <2>1, <2>2, Zenon DEF TypeOK
<1>3. InFlight = {} /\ Live = {}
  BY DEF InFlight, Live
<1>4. AttemptsAccounted
  <2>1. Cardinality(InFlight) = 0
    BY <1>3, FS_EmptySet, Zenon
  <2> QED
    BY <1>2, <2>1 DEF AttemptsAccounted, NoCounts
<1>5. ClientsOK /\ BornOK /\ OneOwned /\ ShownOK
  BY <1>3 DEF ClientsOK, BornOK, OneOwned, ShownOK
<1> QED
  BY <1>4, <1>5 DEF InducerInv

\* start() and stop(): a new loop begins with a client of its own, and stop()
\* forgets its thread only when it has ended or has been given up on.
LEMMA OwnerInv ==
    ASSUME InducerInv, Start \/ Stop \/ StopJoin
    PROVE  InducerInv'
<1> USE DEF InducerInv
<1>0. /\ TypeOK /\ loop \in [Loops -> Places]
      /\ MaxStarts \in Nat /\ starts \in Nat /\ starts <= MaxStarts
  BY InducerAssumption DEF AttemptsAccounted, TypeOK, Places
<1>1. CASE Start
  <2>1. /\ starts' = starts + 1 /\ thread = 0 /\ thread' = starts'
        /\ loop' = [loop EXCEPT ![starts'] = "head"]
        /\ UNCHANGED <<owner, phase, held, failures, counts, shown, gaveUp>>
        /\ stop' = FALSE /\ owner = "idle"
    BY <1>1 DEF Start, MayStart
  <2>2. starts' \in Loops /\ starts' \in 0..MaxStarts /\ starts' # 0
    BY <1>0, <1>1 DEF Start, Loops
  <2>3. loop[starts'] = "unborn"
    BY <1>0, <2>1, <2>2 DEF BornOK
  <2>4. TypeOK'
    BY <1>0, <2>1, <2>2 DEF TypeOK
  <2>5. Cardinality(InFlight)' = Cardinality(InFlight)
    BY <1>0, <2>1, <2>2, <2>3, CountInFlight DEF Places, Flying
  <2>6. AttemptsAccounted'
    BY <2>1, <2>4, <2>5 DEF AttemptsAccounted
  <2>7. Live \subseteq gaveUp
    BY <2>1 DEF OneOwned, Live, Loops
  <2>8. OneOwned'
    BY <1>0, <2>1, <2>2, <2>7 DEF OneOwned, Live
  <2>9. ClientsOK'
    BY <1>0, <2>1, <2>2, <2>3 DEF ClientsOK
  <2>10. BornOK' /\ ShownOK'
    BY <1>0, <2>1, <2>2 DEF BornOK, ShownOK, Loops
  <2> QED
    BY <2>1, <2>6, <2>8, <2>9, <2>10
<1>2. CASE Stop
  <2>1. /\ UNCHANGED <<starts, thread, loop, phase, held, failures, counts, shown, gaveUp>>
        /\ stop' = TRUE
        /\ owner' \in {"idle", "joining"} /\ (owner' = "joining" => thread # 0)
    BY <1>2 DEF Stop, HasThread
  <2>2. TypeOK'
    BY <1>0, <2>1 DEF TypeOK
  <2>3. InFlight' = InFlight /\ Live' = Live
    BY <2>1 DEF InFlight, Live
  <2>4. AttemptsAccounted'
    BY <2>1, <2>2, <2>3 DEF AttemptsAccounted
  <2> QED
    BY <2>1, <2>3, <2>4 DEF ClientsOK, BornOK, OneOwned, ShownOK
<1>3. CASE StopJoin
  <2>1. /\ UNCHANGED <<starts, stop, loop, phase, held, failures, counts>>
        /\ thread' = 0 /\ owner' = "idle" /\ shown' = counts
        /\ \/ loop[thread] = "ended" /\ gaveUp' = gaveUp
           \/ gaveUp' = gaveUp \cup {thread}
        /\ thread # 0
    BY <1>0, <1>3 DEF StopJoin, Summary, Joined, TypeOK
  <2>2. thread \in Loops
    BY <1>0, <2>1 DEF TypeOK, Loops
  <2>3. TypeOK'
    BY <1>0, <2>1, <2>2 DEF TypeOK
  <2>4. InFlight' = InFlight /\ Live' = Live
    BY <2>1 DEF InFlight, Live
  <2>5. AttemptsAccounted'
    BY <2>1, <2>3, <2>4 DEF AttemptsAccounted
  <2>6. OneOwned'
    BY <2>1, <2>4 DEF OneOwned, Live
  <2> QED
    BY <2>1, <2>4, <2>5, <2>6 DEF ClientsOK, BornOK, ShownOK
<1> QED
  BY <1>1, <1>2, <1>3

\* What any step of loop g does: it takes a live loop to another place, touches
\* nothing of the owner's and counts at most one thing.
LEMMA LoopStep ==
    ASSUME InducerInv, NEW g \in Loops, Loop(g)
    PROVE  /\ g \in Live /\ UNCHANGED ownerVars
           /\ \E l \in Places \ {"unborn"} :
                 /\ loop' = [loop EXCEPT ![g] = l]
                 /\ \/ /\ loop[g] = "head" /\ l = "dial" /\ Count("attempts")
                       /\ counts.attempts < MaxAttempts
                    \/ loop[g] = "except" /\ l \in {"backoff", "pause"} /\ Count("errors")
                    \/ loop[g] = "else" /\ l = "pause" /\ Count("successes")
                    \/ /\ loop[g] \notin {"except", "else"}
                       /\ loop[g] \in Flying <=> l \in Flying
                       /\ counts' = counts
           /\ failures' \in [Loops -> 0..BackoffAfter]
<1>0. failures \in [Loops -> 0..BackoffAfter] /\ BackoffAfter \in Nat
  BY InducerAssumption DEF InducerInv, AttemptsAccounted, TypeOK
<1> USE DEF Places, Flying, Live, Goto
<1>1. CASE Head(g)
  BY <1>0, <1>1 DEF Head
<1>2. CASE Dial(g)
  BY <1>0, <1>2 DEF Dial
<1>3. CASE Connect(g)
  BY <1>0, <1>3 DEF Connect
<1>4. CASE Relay(g)
  <2>1. CASE Goto(g, "else")
    BY <1>0, <1>4, <2>1 DEF Relay
  <2>2. CASE Goto(g, "except")
    BY <1>0, <1>4, <2>2 DEF Relay
  <2> QED
    BY <1>4, <2>1, <2>2 DEF Relay
<1>5. CASE Except(g)
  <2>1. failures' \in [Loops -> 0..BackoffAfter]
    BY <1>0, <1>5 DEF Except
  <2> QED
    BY <1>5, <2>1 DEF Except, CountsError
<1>6. CASE Else(g)
  <2>1. failures' \in [Loops -> 0..BackoffAfter]
    BY <1>0, <1>6 DEF Else
  <2> QED
    BY <1>6, <2>1 DEF Else
<1>7. CASE Wait(g)
  BY <1>0, <1>7 DEF Wait, AfterBackoff
<1> QED
  BY <1>1, <1>2, <1>3, <1>4, <1>5, <1>6, <1>7 DEF Loop

\* The client of loop g, after a step of the loop: what its new place says, by
\* a step of TunnelClient or none.
ClientStep(g) ==
    \/ /\ loop[g] = "dial" /\ loop'[g] = "connect"
       /\ phase' = [phase EXCEPT ![g] = "connecting"]
       /\ held' = [held EXCEPT ![g] = TRUE]
    \/ /\ loop[g] = "connect" /\ loop'[g] = "relay"
       /\ phase' = [phase EXCEPT ![g] = "open"]
       /\ held' = [held EXCEPT ![g] = TRUE]
    \/ /\ loop[g] \in {"connect", "relay"} /\ loop'[g] \notin {"connect", "relay"}
       /\ phase' = [phase EXCEPT ![g] = "closed"]
       /\ held' = [held EXCEPT ![g] = FALSE]
    \/ /\ loop[g] \notin {"connect", "relay"} /\ loop'[g] \notin {"connect", "relay"}
       /\ UNCHANGED <<phase, held>>

\* Every round of _loop drives its client that way.
LEMMA LoopClient ==
    ASSUME InducerInv, NEW g \in Loops, Loop(g)
    PROVE  ClientStep(g)
<1>0. loop \in [Loops -> Places]
  BY DEF InducerInv, AttemptsAccounted, TypeOK, Places
<1> USE DEF ClientStep, Goto, Client
<1>1. CASE Head(g) \/ Except(g) \/ Else(g) \/ Wait(g)
  BY <1>0, <1>1 DEF Head, Except, Else, Wait, AfterBackoff
<1>2. CASE Dial(g) \/ Connect(g) \/ Relay(g)
  <2>1. CASE Dial(g)
    BY <1>0, <2>1 DEF Dial
  <2>2. CASE Connect(g)
    BY <1>0, <2>2 DEF Connect, RefusedHolds
  <2>3. CASE Relay(g)
    <3>1. Client(g, "closed", FALSE) /\ loop[g] = "relay" /\ loop'[g] \in {"else", "except"}
      BY <1>0, <2>3 DEF Relay
    <3> QED
      BY <3>1
  <2> QED
    BY <1>2, <2>1, <2>2, <2>3
<1> QED
  BY <1>1, <1>2 DEF Loop

\* One step of a loop, however many run.
LEMMA LoopInv ==
    ASSUME InducerInv, NEW g \in Loops, Loop(g)
    PROVE  InducerInv'
<1> USE DEF InducerInv
<1>0. /\ TypeOK /\ loop \in [Loops -> Places] /\ MaxAttempts \in Nat
      /\ counts \in [DOMAIN NoCounts -> 0..MaxAttempts]
      /\ Cardinality(InFlight) \in Nat
      /\ counts.attempts = counts.successes + counts.errors + Cardinality(InFlight)
  BY InducerAssumption, InFlightFinite DEF AttemptsAccounted, TypeOK, Places
<1>1. /\ counts["attempts"] \in 0..MaxAttempts /\ counts["successes"] \in 0..MaxAttempts
      /\ counts["errors"] \in 0..MaxAttempts
  BY <1>0 DEF NoCounts
<1>2. g \in Live /\ UNCHANGED ownerVars /\ failures' \in [Loops -> 0..BackoffAfter]
  BY LoopStep
<1>3. PICK l \in Places \ {"unborn"} :
         /\ loop' = [loop EXCEPT ![g] = l]
         /\ \/ /\ loop[g] = "head" /\ l = "dial" /\ Count("attempts")
               /\ counts.attempts < MaxAttempts
            \/ loop[g] = "except" /\ l \in {"backoff", "pause"} /\ Count("errors")
            \/ loop[g] = "else" /\ l = "pause" /\ Count("successes")
            \/ /\ loop[g] \notin {"except", "else"}
               /\ loop[g] \in Flying <=> l \in Flying
               /\ counts' = counts
  BY LoopStep
<1>4. /\ counts' \in [DOMAIN NoCounts -> 0..MaxAttempts]
      /\ counts'.attempts = counts'.successes + counts'.errors + Cardinality(InFlight)'
  <2>1. CASE loop[g] = "head" /\ l = "dial" /\ Count("attempts")
               /\ counts.attempts < MaxAttempts
    <3>1. Cardinality(InFlight)' = Cardinality(InFlight) + 1
      BY <1>0, <1>3, <2>1, CountInFlight DEF Flying
    <3>2. /\ counts' \in [DOMAIN NoCounts -> 0..MaxAttempts]
          /\ counts'["attempts"] = counts["attempts"] + 1
          /\ counts'["successes"] = counts["successes"]
          /\ counts'["errors"] = counts["errors"]
      BY <1>0, <2>1, CountLemma
    <3> QED
      BY <1>0, <1>1, <3>1, <3>2
  <2>2. CASE loop[g] = "except" /\ l \in {"backoff", "pause"} /\ Count("errors")
    <3>1. Cardinality(InFlight)' = Cardinality(InFlight) - 1 /\ Cardinality(InFlight) >= 1
      BY <1>0, <1>3, <2>2, CountInFlight DEF Flying
    <3>2. counts["errors"] < MaxAttempts
      BY <1>0, <1>1, <3>1
    <3>3. /\ counts' \in [DOMAIN NoCounts -> 0..MaxAttempts]
          /\ counts'["errors"] = counts["errors"] + 1
          /\ counts'["successes"] = counts["successes"]
          /\ counts'["attempts"] = counts["attempts"]
      BY <1>0, <2>2, <3>2, CountLemma
    <3> QED
      BY <1>0, <1>1, <3>1, <3>3
  <2>3. CASE loop[g] = "else" /\ l = "pause" /\ Count("successes")
    <3>1. Cardinality(InFlight)' = Cardinality(InFlight) - 1 /\ Cardinality(InFlight) >= 1
      BY <1>0, <1>3, <2>3, CountInFlight DEF Flying
    <3>2. counts["successes"] < MaxAttempts
      BY <1>0, <1>1, <3>1
    <3>3. /\ counts' \in [DOMAIN NoCounts -> 0..MaxAttempts]
          /\ counts'["successes"] = counts["successes"] + 1
          /\ counts'["errors"] = counts["errors"]
          /\ counts'["attempts"] = counts["attempts"]
      BY <1>0, <2>3, <3>2, CountLemma
    <3> QED
      BY <1>0, <1>1, <3>1, <3>3
  <2>4. CASE (loop[g] \in Flying <=> l \in Flying) /\ counts' = counts
    <3>1. Cardinality(InFlight)' = Cardinality(InFlight)
      BY <1>0, <1>3, <2>4, CountInFlight
    <3> QED
      BY <1>0, <2>4, <3>1
  <2> QED
    BY <1>3, <2>1, <2>2, <2>3, <2>4
<1>5. TypeOK' /\ AttemptsAccounted'
  <2>1. TypeOK'
    BY <1>0, <1>2, <1>3, <1>4 DEF TypeOK, Places, ownerVars
  <2> QED
    BY <1>4, <2>1 DEF AttemptsAccounted
<1>6. Live' \subseteq Live
  BY <1>0, <1>2, <1>3 DEF Live
<1>7. OneOwned'
  BY <1>2, <1>6 DEF OneOwned, ownerVars
<1>8. ShownOK' /\ BornOK'
  <2>1. ~ (thread = 0 /\ gaveUp = {})
    BY <1>2 DEF OneOwned, Live, Loops
  <2>2. BornOK'
    BY <1>0, <1>2, <1>3 DEF BornOK, Live, ownerVars
  <2> QED
    BY <1>2, <2>1, <2>2 DEF ShownOK, ownerVars
<1>9. /\ phase' \in [Loops -> {"closed", "connecting", "open"}]
      /\ held' \in [Loops -> BOOLEAN]
      /\ ClientsOK'
  <2>1. ClientStep(g)
    BY LoopClient
  <2>2. \A h \in Loops \ {g} : loop'[h] = loop[h]
    BY <1>0, <1>3
  <2>3. /\ phase' \in [Loops -> {"closed", "connecting", "open"}]
        /\ held' \in [Loops -> BOOLEAN]
        /\ \A h \in Loops \ {g} : phase'[h] = phase[h] /\ held'[h] = held[h]
    BY <2>1 DEF ClientStep
  <2>4. /\ loop'[g] = "connect" => phase'[g] = "connecting" /\ held'[g] = TRUE
        /\ loop'[g] = "relay" => phase'[g] = "open" /\ held'[g] = TRUE
        /\ loop'[g] \notin {"connect", "relay"}
              => phase'[g] = "closed" /\ held'[g] = FALSE
    BY <2>1 DEF ClientStep, ClientsOK
  <2> QED
    BY <2>2, <2>3, <2>4 DEF ClientsOK
<1> QED
  BY <1>5, <1>7, <1>8, <1>9

\* Every step of the specification preserves the invariant.
LEMMA NextInducerInv == InducerInv /\ [Next]_vars => InducerInv'
<1> SUFFICES ASSUME InducerInv, [Next]_vars PROVE InducerInv'
  OBVIOUS
<1>1. CASE UNCHANGED vars
  <2>1. InFlight' = InFlight /\ Live' = Live
    BY <1>1 DEF InFlight, Live, vars
  <2>2. TypeOK'
    BY <1>1 DEF InducerInv, AttemptsAccounted, TypeOK, vars
  <2> QED
    BY <1>1, <2>1, <2>2 DEF InducerInv, AttemptsAccounted, ClientsOK, BornOK, OneOwned,
                            ShownOK, vars
<1> QED
  BY <1>1, OwnerInv, LoopInv DEF Next, Over

-----------------------------------------------------------------------------
(***************************************************************************)
(* The theorems.                                                           *)
(***************************************************************************)

\* The inductive invariant holds of every behaviour of the inducer.
THEOREM InvariantHolds == Spec => []InducerInv
BY InitInducerInv, NextInducerInv, PTL DEF Spec

\* No attempt is lost or counted twice, however many loops count at once.
THEOREM AttemptsAreAccounted == Spec => []AttemptsAccounted
<1>1. InducerInv => AttemptsAccounted
  BY DEF InducerInv
<1> QED
  BY <1>1, InvariantHolds, PTL

\* stop() leaves behind only what its join gave up on, and at most one loop
\* that no join gave up on is ever live.
THEOREM StopLeavesNothing == Spec => []StopReleases
<1>1. InducerInv => StopReleases
  <2> SUFFICES ASSUME InducerInv PROVE StopReleases
    OBVIOUS
  <2>1. Live \ gaveUp = {} \/ Live \ gaveUp = {thread}
    BY DEF InducerInv, OneOwned
  <2>2. Cardinality(Live \ gaveUp) <= 1
    <3>1. CASE Live \ gaveUp = {}
      BY <3>1, FS_EmptySet
    <3>2. CASE Live \ gaveUp = {thread}
      BY <3>2, FS_Singleton
    <3> QED
      BY <2>1, <3>1, <3>2
  <2>3. ASSUME thread = 0
        PROVE  /\ Live \subseteq gaveUp
               /\ \A g \in Loops : held[g] => g \in gaveUp
               /\ gaveUp = {} => shown = counts
    <3>1. Live \subseteq gaveUp
      BY <2>3 DEF InducerInv, OneOwned, Live, Loops
    <3>2. \A g \in Loops : held[g] => g \in Live
      BY DEF InducerInv, ClientsOK, Live
    <3> QED
      BY <2>3, <3>1, <3>2 DEF InducerInv, ShownOK
  <2> QED
    BY <2>2, <2>3 DEF StopReleases
<1> QED
  BY <1>1, InvariantHolds, PTL

\* Every loop drives its proxy client the way TunnelClient says, whatever the
\* other loops and the owner do.
THEOREM LoopsImplementClients == Spec => ImplementsTunnelClients
<1>1. Init => \A g \in Loops : OneClient(g)!Init
  BY DEF Init, OneClient!Init
<1>2. InducerInv /\ [Next]_vars
         => [\A g \in Loops : [OneClient(g)!Next]_<<phase[g], held[g]>>]_<<phase, held>>
  <2> SUFFICES ASSUME InducerInv, [Next]_vars, NEW g \in Loops
               PROVE  OneClient(g)!Next \/ UNCHANGED <<phase[g], held[g]>>
    OBVIOUS
  <2>1. CASE Start \/ Stop \/ StopJoin \/ UNCHANGED vars
    BY <2>1 DEF Start, Stop, StopJoin, vars
  <2>2. ASSUME NEW h \in Loops, Loop(h)
        PROVE  OneClient(g)!Next \/ UNCHANGED <<phase[g], held[g]>>
    <3>1. ClientStep(h)
      BY <2>2, LoopClient
    <3>2. CASE g # h
      BY <3>1, <3>2 DEF ClientStep, InducerInv
    <3>3. CASE g = h
      BY <3>1, <3>3 DEF ClientStep, InducerInv, ClientsOK, OneClient!Next,
           OneClient!Dial,
                        OneClient!Establish, OneClient!Close
    <3> QED
      BY <3>2, <3>3
  <2> QED
    BY <2>1, <2>2 DEF Next, Over
<1> QED
  BY <1>1, <1>2, InvariantHolds, PTL DEF Spec, ImplementsTunnelClients
=============================================================================
