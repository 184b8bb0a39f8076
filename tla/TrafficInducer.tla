--------------------------- MODULE TrafficInducer ---------------------------
(***************************************************************************)
(* The traffic inducer (src/proxy/inducer.py): a thread that opens one     *)
(* connection after another through the proxy, and its owner, a fixture    *)
(* that starts and stops it.                                               *)
(*                                                                         *)
(* stop() joins the thread for max(2, timeout) seconds, while one round of *)
(* the loop may take several timeouts of its own (the dial, every read of  *)
(* the handshake, the round trip).  So a join can give up on a thread that *)
(* is still connecting; a later start() then clears the one _stop event    *)
(* both loops look at.                                                     *)
(*                                                                         *)
(* Loop g is the thread of the g-th start().  Each holds a proxy client of *)
(* its own, of which TunnelClient says what it does with its socket.       *)
(***************************************************************************)
EXTENDS Naturals, FiniteSets

CONSTANTS MaxStarts,      \* bound on the calls of start()
          MaxAttempts,    \* bound on the connections tried
          BackoffAfter,   \* _BACKOFF_AFTER_FAILURES
          JoinTimesOut    \* whether a join may give up

ASSUME InducerAssumption ==
    /\ MaxStarts \in Nat /\ MaxAttempts \in Nat /\ BackoffAfter \in Nat \ {0}
    /\ JoinTimesOut \in BOOLEAN

VARIABLES owner,          \* "idle", or "joining" in stop()
          starts,         \* calls of start() that made a thread
          stop,           \* the _stop event
          thread,         \* _thread, 0 for None
          loop,           \* where each thread is
          phase, held,    \* the client of each thread
          failures,       \* consecutive_failures, up to BackoffAfter
          counts,         \* attempts, successes, errors
          shown,          \* the counters of the last summary
          gaveUp          \* the loops a join gave up on

vars == <<owner, starts, stop, thread, loop, phase, held, failures, counts, shown, gaveUp>>
ownerVars == <<owner, starts, stop, thread, shown, gaveUp>>

Loops == 1..MaxStarts
NoCounts == [attempts |-> 0, successes |-> 0, errors |-> 0]

Init ==
    /\ owner = "idle" /\ starts = 0 /\ stop = FALSE /\ thread = 0
    /\ loop = [g \in Loops |-> "unborn"]
    /\ phase = [g \in Loops |-> "closed"] /\ held = [g \in Loops |-> FALSE]
    /\ failures = [g \in Loops |-> 0]
    /\ counts = NoCounts /\ shown = NoCounts /\ gaveUp = {}

Live == {g \in Loops : loop[g] \notin {"unborn", "ended"}}
InFlight == {g \in Loops : loop[g] \in {"dial", "connect", "relay", "except", "else"}}

-----------------------------------------------------------------------------
(***************************************************************************)
(* The owner.                                                              *)
(***************************************************************************)
\* start(): nothing, if there is a thread already.
MayStart == thread = 0

Start ==
    /\ owner = "idle" /\ starts < MaxStarts /\ MayStart
    /\ starts' = starts + 1 /\ thread' = starts'
    /\ stop' = FALSE
    /\ loop' = [loop EXCEPT ![starts'] = "head"]
    /\ UNCHANGED <<owner, phase, held, failures, counts, shown, gaveUp>>

\* stop(): there is something to join only if there is a thread.
HasThread == thread # 0

Stop ==
    /\ owner = "idle" /\ ~ stop
    /\ stop' = TRUE
    /\ owner' = IF HasThread THEN "joining" ELSE "idle"
    /\ UNCHANGED <<starts, thread, loop, phase, held, failures, counts, shown, gaveUp>>

\* join() returns when the thread has ended or when its timeout has passed.
Joined_AtOnce(g) == TRUE
Joined(g) == loop[g] = "ended"

\* summary(): one reading of the counters, under the lock.
Summary == counts

StopJoin ==
    /\ owner = "joining"
    /\ \/ Joined(thread) /\ UNCHANGED gaveUp
       \/ JoinTimesOut /\ ~ Joined(thread) /\ gaveUp' = gaveUp \cup {thread}
    /\ thread' = 0 /\ owner' = "idle"
    /\ shown' = Summary
    /\ UNCHANGED <<starts, stop, loop, phase, held, failures, counts>>

-----------------------------------------------------------------------------
(***************************************************************************)
(* One round of _loop.                                                     *)
(***************************************************************************)
Goto(g, l) == loop' = [loop EXCEPT ![g] = l]
Count(what) == counts' = [counts EXCEPT ![what] = @ + 1]
Client(g, p, h) == phase' = [phase EXCEPT ![g] = p] /\ held' = [held EXCEPT ![g] = h]

\* while not self._stop.is_set(): the attempt is counted before it is made.
Head(g) ==
    /\ loop[g] = "head"
    /\ \/ stop /\ Goto(g, "ended") /\ UNCHANGED counts
       \/ ~ stop /\ counts.attempts < MaxAttempts /\ Goto(g, "dial") /\ Count("attempts")
    /\ UNCHANGED <<ownerVars, phase, held, failures>>

\* with ProxyClient(config): connect() raises before or after it has a socket.
Dial(g) ==
    /\ loop[g] = "dial"
    /\ \/ Goto(g, "connect") /\ Client(g, "connecting", TRUE)
       \/ Goto(g, "except") /\ UNCHANGED <<phase, held>>
    /\ UNCHANGED <<ownerVars, failures, counts>>

RefusedHolds_Kept == TRUE
RefusedHolds == FALSE

Connect(g) ==
    /\ loop[g] = "connect"
    /\ \/ Goto(g, "relay") /\ Client(g, "open", TRUE)
       \/ Goto(g, "except") /\ Client(g, "closed", RefusedHolds)
    /\ UNCHANGED <<ownerVars, failures, counts>>

\* roundtrip(), and __exit__ either way.
Relay(g) ==
    /\ loop[g] = "relay"
    /\ Goto(g, "else") \/ Goto(g, "except")
    /\ Client(g, "closed", FALSE)
    /\ UNCHANGED <<ownerVars, failures, counts>>

\* except Exception: counted by type, and a pause of its own once it is
\* plainly not transient.
CountsError_Late(g) == failures[g] < BackoffAfter
CountsError(g) == TRUE

Except(g) ==
    /\ loop[g] = "except"
    /\ failures' = [failures EXCEPT ![g] = IF @ < BackoffAfter THEN @ + 1 ELSE @]
    /\ IF CountsError(g) THEN Count("errors") ELSE UNCHANGED counts
    /\ Goto(g, IF failures'[g] >= BackoffAfter THEN "backoff" ELSE "pause")
    /\ UNCHANGED <<ownerVars, phase, held>>

Else(g) ==
    /\ loop[g] = "else"
    /\ failures' = [failures EXCEPT ![g] = 0]
    /\ Count("successes")
    /\ Goto(g, "pause")
    /\ UNCHANGED <<ownerVars, phase, held>>

\* self._stop.wait(...): the event or the time.
AfterBackoff_Again == "backoff"
AfterBackoff == "pause"

Wait(g) ==
    /\ \/ loop[g] = "backoff" /\ Goto(g, AfterBackoff)
       \/ loop[g] = "pause" /\ Goto(g, "head")
    /\ UNCHANGED <<ownerVars, phase, held, failures, counts>>

Loop(g) == Head(g) \/ Dial(g) \/ Connect(g) \/ Relay(g) \/ Except(g) \/ Else(g) \/ Wait(g)

Over == stop /\ owner = "idle" /\ starts = MaxStarts /\ Live = {} /\ UNCHANGED vars

Next == Start \/ Stop \/ StopJoin \/ (\E g \in Loops : Loop(g)) \/ Over

\* The threads are scheduled and every call of a round ends (ProxyTunnel's
\* ConnectEnds); a join returns.  Nobody has to start or to stop the inducer.
Spec ==
    /\ Init /\ [][Next]_vars
    /\ WF_vars(StopJoin)
    /\ \A g \in Loops : WF_vars(Loop(g))

-----------------------------------------------------------------------------
(***************************************************************************)
(* Properties.                                                             *)
(***************************************************************************)
\* The type of the inducer's state; a thread it still knows is the last one.
TypeOK ==
    /\ owner \in {"idle", "joining"} /\ starts \in 0..MaxStarts /\ stop \in BOOLEAN
    /\ thread \in {0, starts}
    /\ loop \in [Loops -> {"unborn", "head", "dial", "connect", "relay", "except",
                           "else", "backoff", "pause", "ended"}]
    /\ failures \in [Loops -> 0..BackoffAfter]
    /\ counts \in [DOMAIN NoCounts -> 0..MaxAttempts]
    /\ shown \in [DOMAIN NoCounts -> 0..MaxAttempts]
    /\ gaveUp \subseteq Loops
    /\ owner = "joining" => thread # 0

\* Every attempt is under way, a success or a counted error, with two loops
\* counting at once as with one: "induced 0/n" is what happened.
AttemptsAccounted ==
    /\ TypeOK
    /\ counts.attempts = counts.successes + counts.errors + Cardinality(InFlight)

\* stop() leaves nothing behind: no thread and no socket, except those of a
\* loop its join gave up on; without one, the summary taken after it misses no
\* attempt.  And at most one loop drives traffic, unless a join gave up on another.
StopReleases ==
    /\ owner = "idle" /\ thread = 0
       => /\ Live \subseteq gaveUp
          /\ \A g \in Loops : held[g] => g \in gaveUp
          /\ gaveUp = {} => shown = counts
    /\ Cardinality(Live \ gaveUp) <= 1

\* Each thread uses its clients as TunnelClient says: one socket at a time,
\* none kept after a failure, for as many rounds as the session has.
OneClient(g) == INSTANCE TunnelClient WITH phase <- phase[g], held <- held[g]
ImplementsTunnelClients ==
    /\ \A g \in Loops : OneClient(g)!Init
    /\ [][\A g \in Loops : [OneClient(g)!Next]_<<phase[g], held[g]>>]_<<phase, held>>

\* After stop() every loop ends, one that outlived the join included, unless
\* start() has cleared the event.
StopQuiesces == stop ~> (Live = {} \/ ~ stop)
=============================================================================
