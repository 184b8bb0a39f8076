---------------------------- MODULE PytestChild ----------------------------
(***************************************************************************)
(* The pytest subprocess as its parent sees it: two JSON-lines files that  *)
(* grow concurrently with the reader, and a process that ends.             *)
(*                                                                         *)
(* Nothing makes an append atomic for a reader in another process, so a    *)
(* line is appended in two steps: first a fragment without its newline     *)
(* (the "torn" flag), then the rest.  A process that is killed in between  *)
(* leaves the fragment behind for ever.                                    *)
(*                                                                         *)
(* pytest itself is external; what it writes is taken from what runner.py  *)
(* parses.  The packet-event lines are written by                          *)
(* src/reporting/collector.py, inside the same process.                    *)
(***************************************************************************)
EXTENDS ReportLog, Integers

CONSTANTS MaxPackets,              \* bound on the packet-event lines of a run
          Garbage                  \* TRUE: a packet line may be unparseable

ASSUME ChildAssumption == MaxPackets \in Nat /\ Garbage \in BOOLEAN

VARIABLES child,       \* the life of the process
          code,        \* the exit status the OS holds for it
          reportLog,   \* report_log.jsonl, the line being written included
          reportTorn,  \* the last line of reportLog has no newline yet
          packetLog,   \* packet_events.jsonl
          packetTorn,
          remaining,   \* tests pytest has not started
          current      \* the test and phase in progress

childVars == <<child, code, reportLog, reportTorn, packetLog, packetTorn,
               remaining, current>>

NoCode == 1000                     \* None: no return code is known
KilledCode  == -15                 \* POSIX: ended by SIGTERM
CrashedCode == -9                  \* POSIX: ended by a signal of its own
ExitCodes == {KilledCode, CrashedCode, 0, 1, 2, 5}

NoTest == "no test"
Between == [test |-> NoTest, phase |-> "other"]

ChildTypeOK ==
    /\ child \in {"unborn", "running", "terminating", "exited"}
    /\ code \in ExitCodes \cup {NoCode}
    /\ reportLog \in Seq(Lines)
    /\ reportTorn \in BOOLEAN
    /\ packetLog \in Seq({"event", "garbage"})
    /\ packetTorn \in BOOLEAN
    /\ remaining \subseteq Tests
    /\ current \in {Between} \cup [test : Tests, phase : Phases \ {"other"}]

ChildInit ==
    /\ child = "unborn"
    /\ code = NoCode
    /\ reportLog = <<>> /\ reportTorn = FALSE
    /\ packetLog = <<>> /\ packetTorn = FALSE
    /\ remaining = {}
    /\ current = Between

\* The launch, by either front end: the run directory is new, so both files
\* start empty, and pytest collects some selection of the tests.
ChildStarts ==
    /\ child' = "running"
    /\ code' = NoCode
    /\ reportLog' = <<>> /\ reportTorn' = FALSE
    /\ packetLog' = <<>> /\ packetTorn' = FALSE
    /\ remaining' \in SUBSET Tests
    /\ current' = Between

ChildNeverStarts ==
    /\ child' = "unborn"
    /\ code' = NoCode
    /\ reportLog' = <<>> /\ reportTorn' = FALSE
    /\ packetLog' = <<>> /\ packetTorn' = FALSE
    /\ remaining' = {}
    /\ current' = Between

-----------------------------------------------------------------------------
(***************************************************************************)
(* What a reader finds on disk.                                            *)
(***************************************************************************)
CompleteLines(log, torn) == IF torn THEN Len(log) - 1 ELSE Len(log)

Complete == CompleteLines(reportLog, reportTorn)
CompletePackets == CompleteLines(packetLog, packetTorn)

\* read_new_lines: everything up to the last newline is consumed, a fragment
\* after it is left for the next call.  The result is the new offset, counted
\* in lines.
ReadNewLines_Torn(log, torn, offset) ==
    IF Len(log) > offset THEN Len(log) ELSE offset

ReadNewLines(log, torn, offset) ==
    LET complete == CompleteLines(log, torn)
    IN  IF complete > offset THEN complete ELSE offset

\* Line i as it parses at this moment: a fragment is not JSON, and is ignored.
LineAt(i) ==
    IF i <= CompleteLines(reportLog, reportTorn) THEN reportLog[i]
    ELSE [reportLog[i] EXCEPT !.when = "other"]

-----------------------------------------------------------------------------
Alive == child \in {"running", "terminating"}

\* pytest takes up the next test of its selection.
NextTest ==
    /\ Alive
    /\ current = Between
    /\ \E n \in remaining :
          /\ remaining' = remaining \ {n}
          /\ current' = [test |-> n, phase |-> "setup"]
    /\ UNCHANGED <<child, code, reportLog, reportTorn, packetLog, packetTorn>>

\* A test body that was reached may pass, fail or skip, and so may its setup;
\* a teardown is never reported as skipped.
PhaseOutcomes(phase) ==
    IF phase = "teardown" THEN {"passed", "failed"} ELSE OutcomeStrings

\* The runtest protocol: call follows a setup that passed, teardown always runs.
NextPhase(outcome) ==
    CASE current.phase = "setup" /\ outcome = "passed" -> "call"
      [] current.phase = "teardown"                    -> "other"
      [] OTHER                                         -> "teardown"

\* The report of the phase in progress reaches the file, without its newline.
ReportFragment ==
    /\ Alive
    /\ current # Between
    /\ ~ reportTorn
    /\ \E outcome \in PhaseOutcomes(current.phase) :
          reportLog' = Append(reportLog, [nodeid  |-> current.test,
                                          when    |-> current.phase,
                                          outcome |-> outcome])
    /\ reportTorn' = TRUE
    /\ UNCHANGED <<child, code, packetLog, packetTorn, remaining, current>>

\* The rest of the report line, newline included.
ReportNewline ==
    /\ Alive
    /\ reportTorn
    /\ reportTorn' = FALSE
    /\ LET next == NextPhase(reportLog[Len(reportLog)].outcome)
       IN  current' = IF next = "other" THEN Between
                      ELSE [current EXCEPT !.phase = next]
    /\ UNCHANGED <<child, code, reportLog, packetLog, packetTorn, remaining>>

\* PacketEventLogWriter.__call__: one line per packet, serialized by its lock
\* and flushed; like any append it can be seen half-way by another process.
PacketFragment ==
    /\ Alive
    /\ current # Between
    /\ ~ packetTorn
    /\ Len(packetLog) < MaxPackets
    /\ \E kind \in IF Garbage THEN {"event", "garbage"} ELSE {"event"} :
          packetLog' = Append(packetLog, kind)
    /\ packetTorn' = TRUE
    /\ UNCHANGED <<child, code, reportLog, reportTorn, remaining, current>>

PacketNewline ==
    /\ Alive
    /\ packetTorn
    /\ packetTorn' = FALSE
    /\ UNCHANGED <<child, code, reportLog, reportTorn, packetLog, remaining,
                   current>>

-----------------------------------------------------------------------------
EndsWith(rc) ==
    /\ child' = "exited"
    /\ code' = rc
    /\ UNCHANGED <<reportLog, reportTorn, packetLog, packetTorn, remaining,
                   current>>

\* pytest ran its whole selection: 5 for an empty one, 1 if a phase failed.
ChildExits ==
    /\ Alive
    /\ current = Between
    /\ remaining = {}
    /\ ~ packetTorn
    /\ EndsWith(IF reportLog = <<>> THEN 5
                ELSE IF \E i \in 1..Len(reportLog) :
                           reportLog[i].outcome = "failed" THEN 1 ELSE 0)

\* A collection, usage or internal error, or a SIGINT that reached the whole
\* process group: pytest ends in good order, having run part of its selection.
ChildAborts ==
    /\ Alive
    /\ ~ reportTorn /\ ~ packetTorn
    /\ EndsWith(2)

\* A crash inside a test, the out-of-memory killer: at any moment.
ChildCrashes ==
    /\ Alive
    /\ EndsWith(CrashedCode)

\* SIGTERM is delivered, at any moment after it was sent.
ChildTerminated ==
    /\ child = "terminating"
    /\ EndsWith(KilledCode)

\* A line is torn only while it is being written or if its writer died.
TornOK ==
    /\ reportTorn => reportLog # <<>> /\ current # Between
    /\ packetTorn => packetLog # <<>>

ChildProgress ==
    \/ NextTest
    \/ ReportFragment
    \/ ReportNewline
    \/ PacketFragment
    \/ PacketNewline
    \/ ChildExits
=============================================================================
