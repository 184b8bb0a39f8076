---------------------------- MODULE RunLifecycle ----------------------------
(***************************************************************************)
(* What a run promises, whichever front end drives it, stated without      *)
(* polling, offsets, processes or exceptions.                              *)
(*                                                                         *)
(* While a run is open a log of report lines grows, and the verdicts shown *)
(* are at every moment the worst-wins reading of SOME prefix of that log;  *)
(* a longer prefix may be read at any time, and a verdict never improves.  *)
(* A run ends once, either with a record of the verdicts as they stand or  *)
(* with no record at all.  A front end may then open the next run.         *)
(***************************************************************************)
EXTENDS ReportLog

VARIABLES status,                  \* "idle", "open" or "closed"
          log,                     \* the report lines pytest has completed
          verdicts,                \* what the front end holds in memory
          record                   \* what results.json holds

lifecycleVars == <<status, log, verdicts, record>>

NoRecord == [n \in {} |-> NoVerdict]

LifecycleInit ==
    /\ status = "idle"
    /\ log = <<>>
    /\ verdicts = Unseen
    /\ record = NoRecord

Open ==
    /\ status # "open"
    /\ status' = "open"
    /\ log' = <<>>
    /\ verdicts' = Unseen
    /\ record' = NoRecord

\* The run could not be started.
Refuse ==
    /\ status' = "closed"
    /\ log' = <<>>
    /\ verdicts' = Unseen
    /\ record' \in {NoRecord, Unseen}

\* pytest completes a report line; this may go on after a run was closed.
LogGrows ==
    /\ Len(log') = Len(log) + 1
    /\ SubSeq(log', 1, Len(log)) = log
    /\ UNCHANGED <<status, verdicts, record>>

Shown(v) == \E k \in 0..Len(log) : v = WorstOver(log, k)

NeverImproves(v, w) == \A n \in Tests : w[n] = v[n] \/ Worsens(v[n], w[n])

\* A longer prefix of the log has been read.
Observe ==
    /\ status = "open"
    /\ Shown(verdicts')
    /\ NeverImproves(verdicts, verdicts')
    /\ UNCHANGED <<status, log, record>>

\* The run is over: a last prefix of the log is read, and the verdicts are
\* written to results.json as they then stand, or not at all.
Finish ==
    /\ status = "open"
    /\ status' = "closed"
    /\ Shown(verdicts')
    /\ NeverImproves(verdicts, verdicts')
    /\ record' \in {NoRecord, verdicts'}
    /\ UNCHANGED log

LifecycleNext == Open \/ Refuse \/ LogGrows \/ Observe \/ Finish

Lifecycle == LifecycleInit /\ [][LifecycleNext]_lifecycleVars
=============================================================================
