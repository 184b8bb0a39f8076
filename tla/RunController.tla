--------------------------- MODULE RunController ---------------------------
(***************************************************************************)
(* The GUI's run: RunController (src/gui/run_controller.py) and the part   *)
(* of MainWindow (src/gui/main_window.py) that starts it, shows it and     *)
(* says how it ended.                                                      *)
(*                                                                         *)
(* Everything here happens in slots of one Qt event loop, so a slot is one *)
(* step, the slots it reaches through emit() included.  What interleaves   *)
(* are the slots themselves, the operator's clicks and the subprocess.     *)
(* A process that ended is seen when Qt delivers `finished`; until then    *)
(* QProcess.state() still says Running.                                    *)
(***************************************************************************)
EXTENDS PytestChild, FiniteSets

CONSTANTS MaxRuns,                 \* bound on the clicks on Run
          GuiFaults                \* which failures of the environment occur

GuiFaultKinds == {"blocked", "artifacts", "launch", "save", "abort", "crash",
                  "close"}

ASSUME GuiAssumption == MaxRuns \in Nat /\ GuiFaults \subseteq GuiFaultKinds

VARIABLES runs,          \* how often Run was clicked
          process,       \* QProcess.state(), as Qt knows it
          timer,         \* the poll timer is active
          stopping,      \* RunController._stopping
          tests,         \* _result.tests
          packets,       \* _result.packet_events
          reportOffset, eventsOffset,
          saved,         \* results.json of the current run directory
          window,        \* "open" or "closed"
          runEnabled, stopEnabled,
          launchFailed, stopped,   \* MainWindow._launch_failed, ._stopped
          footer,        \* the ink of the report panel's line
          pill,          \* what the header says
          summary        \* the closing line of the Log tab

controllerVars == <<process, timer, stopping, tests, packets, reportOffset,
                    eventsOffset, saved>>
windowVars == <<runs, window, runEnabled, stopEnabled, launchFailed, stopped,
                footer, pill, summary>>
vars == <<childVars, controllerVars, windowVars>>

NotSaved == [present |-> FALSE, tests |-> Unseen, packets |-> <<>>,
             code |-> NoCode]

Init ==
    /\ ChildInit
    /\ process = "none" /\ timer = FALSE /\ stopping = FALSE
    /\ tests = Unseen /\ packets = <<>>
    /\ reportOffset = 0 /\ eventsOffset = 0
    /\ saved = NotSaved
    /\ runs = 0 /\ window = "open"
    /\ runEnabled = TRUE /\ stopEnabled = FALSE
    /\ launchFailed = FALSE /\ stopped = FALSE
    /\ footer = "idle" /\ pill = "idle" /\ summary = "none"

-----------------------------------------------------------------------------
(***************************************************************************)
(* The two drains, each inside one slot: everything up to the last newline *)
(* is merged into the result in one step.                                  *)
(***************************************************************************)
Seen_Forgotten(n) == NoVerdict
Seen(n) == tests[n]

DrainedTests(to) ==
    [n \in Tests |->
        WorstOf({Seen(n)} \cup
                {ParseReportLogLine(LineAt(i)) :
                   i \in {j \in reportOffset+1..to : reportLog[j].nodeid = n}})]

EventLines(from, to) == {i \in from+1..to : packetLog[i] = "event"}

\* The event lines among from+1..to, in the order of the file: the k-th has
\* k - 1 event lines before it.
EventSeq(from, to) ==
    LET events == EventLines(from, to)
    IN  [k \in 1..Cardinality(events) |->
            CHOOSE i \in events : Cardinality({j \in events : j < i}) = k - 1]

DrainedPackets(to) == packets \o EventSeq(eventsOffset, to)

\* RunController._drain.
Drain ==
    LET reportEnd == ReadNewLines(reportLog, reportTorn, reportOffset)
        eventsEnd == ReadNewLines(packetLog, packetTorn, eventsOffset)
    IN  /\ tests' = DrainedTests(reportEnd)
        /\ packets' = DrainedPackets(eventsEnd)
        /\ reportOffset' = reportEnd
        /\ eventsOffset' = eventsEnd

\* RunController._finalize: a failed write is reported and the in-memory
\* result goes on to the window.
Finalize(rc) ==
    \/ saved' = [present |-> TRUE, tests |-> tests', packets |-> packets',
                 code |-> rc]
    \/ "save" \in GuiFaults /\ UNCHANGED saved

SetRunning(running) == runEnabled' = ~ running /\ stopEnabled' = running

\* TestRunResult.errored: pytest itself failed to run the tests.
Errored_AboveTwo(rc) == rc # NoCode /\ rc > 2
Errored(rc) == rc # NoCode /\ rc >= 2
NothingRan(t) == \A n \in Tests : t[n] = NoVerdict

\* _verdict: the pill of a finished run.
Verdict(t, rc, wasStopped, wasLaunchFailure) ==
    CASE wasLaunchFailure                  -> "could not start"
      [] wasStopped /\ ~ wasLaunchFailure  -> "stopped"
      [] OTHER ->
           IF Errored(rc) THEN "pytest exited"
           ELSE IF NothingRan(t) THEN "no tests ran"
           ELSE IF \E n \in Tests : Failing(t[n]) THEN "failures"
           ELSE "all passed"

\* The closing line _on_finished appends to the log.
Summary(t, rc, wasStopped) ==
    CASE wasStopped                     -> "stopped"
      [] Errored(rc) /\ ~ wasStopped    -> "pytest exited"
      [] OTHER ->
           IF NothingRan(t) THEN "no tests ran"
           ELSE IF \A n \in Tests : t[n] \in {NoVerdict, "skipped"}
           THEN "everything skipped"
           ELSE "counts"

\* ReportPanel.set_result: the ink of the footer under the window.
Footer(t, rc) ==
    IF Errored(rc) \/ NothingRan(t) \/ \E n \in Tests : Failing(t[n])
    THEN "bad" ELSE "ok"

\* MainWindow._on_finished of a run that was launched.
OnFinished(rc, wasStopped) ==
    /\ footer' = Footer(tests', rc)
    /\ SetRunning(FALSE)
    /\ pill' = Verdict(tests', rc, wasStopped, launchFailed)
    /\ summary' = Summary(tests', rc, wasStopped)

-----------------------------------------------------------------------------
(***************************************************************************)
(* Slots.                                                                  *)
(***************************************************************************)

\* _on_run_clicked, stopped by the topology rules, a malformed field or the
\* preflight check.
RunBlocked ==
    /\ window = "open" /\ runEnabled
    /\ runs < MaxRuns
    /\ "blocked" \in GuiFaults
    /\ runs' = runs + 1
    /\ launchFailed' = FALSE /\ stopped' = FALSE
    /\ pill' = "preflight"
    /\ summary' = "none"
    /\ UNCHANGED <<childVars, controllerVars, window, runEnabled, stopEnabled,
                   footer>>

\* _on_run_clicked up to controller.start, whose new_run_dir fails: `failed`
\* is emitted and _on_launch_failed runs before start returns.
RunWithoutDirectory ==
    /\ window = "open" /\ runEnabled
    /\ runs < MaxRuns
    /\ "artifacts" \in GuiFaults
    /\ runs' = runs + 1
    /\ launchFailed' = TRUE /\ stopped' = FALSE
    /\ SetRunning(FALSE)
    /\ pill' = "could not start"
    /\ summary' = "none"
    /\ UNCHANGED <<childVars, controllerVars, window, footer>>

\* controller.start once the directory exists: a new result, offsets at zero.
StartOffset_Kept(old) == old
StartOffset(old) == 0

NewRun ==
    /\ window = "open" /\ runEnabled
    /\ runs < MaxRuns
    /\ runs' = runs + 1
    /\ reportOffset' = StartOffset(reportOffset)
    /\ eventsOffset' = StartOffset(eventsOffset)
    /\ stopping' = FALSE /\ stopped' = FALSE
    /\ tests' = Unseen /\ packets' = <<>>
    /\ UNCHANGED window

\* _on_run_clicked and a start that succeeds, the timer before the process.
RunClicked ==
    /\ NewRun
    /\ launchFailed' = FALSE
    /\ pill' = "running"
    /\ summary' = "none"
    /\ SetRunning(TRUE)
    /\ timer' = TRUE
    /\ process' = "running"
    /\ saved' = NotSaved
    /\ ChildStarts
    /\ UNCHANGED footer

\* _on_run_clicked and a process that fails to start: Qt delivers the error
\* inside start(), so the timer is stopped again and the run is closed through
\* `failed` and then `finished` before the click is over.
TimerAfterError_Runs == TRUE
TimerAfterError == FALSE

RunFailsToStart ==
    /\ "launch" \in GuiFaults
    /\ NewRun
    /\ launchFailed' = TRUE
    /\ timer' = TimerAfterError
    /\ process' = "none"
    /\ summary' = "none"
    /\ footer' = Footer(tests', NoCode)
    /\ SetRunning(FALSE)
    /\ pill' = Verdict(tests', NoCode, stopped', launchFailed')
    /\ ChildNeverStarts
    /\ \/ saved' = [NotSaved EXCEPT !.present = TRUE]
       \/ "save" \in GuiFaults /\ saved' = NotSaved

\* _poll.
PollTimer ==
    /\ timer
    /\ window = "open"
    /\ Drain
    /\ UNCHANGED <<childVars, process, timer, stopping, saved, windowVars>>

\* RunController.stop, connected to the Stop button.  kill() on a process that
\* has ended, of which Qt does not know yet, does nothing; the flag is set.
Killed_Not == child
Killed == IF child = "running" THEN "terminating" ELSE child

StopClicked ==
    /\ window = "open" /\ stopEnabled
    /\ IF process = "running"
       THEN /\ stopping' = TRUE
            /\ child' = Killed
            /\ UNCHANGED timer
       ELSE timer' = FALSE /\ UNCHANGED <<stopping, child>>
    /\ UNCHANGED <<code, reportLog, reportTorn, packetLog, packetTorn,
                   remaining, current, process, tests, packets, reportOffset,
                   eventsOffset, saved, windowVars>>

\* exit_status is CrashExit when a signal ended the process.
CrashExit == code < 0

\* _on_finished of the controller, then of the window.
ProcessFinished ==
    /\ window = "open"
    /\ process = "running"
    /\ child = "exited"
    /\ process' = "none"
    /\ timer' = FALSE
    /\ Drain
    /\ stopping' = FALSE
    /\ LET wasStopped == stopping \/ CrashExit
           rc == IF wasStopped THEN NoCode ELSE code
       IN  /\ stopped' = (stopped \/ wasStopped)
           /\ Finalize(rc)
           /\ OnFinished(rc, stopped')
    /\ UNCHANGED <<childVars, runs, window, launchFailed>>

\* closeEvent releases the proxy panel and nothing else; the application ends
\* with its last window, and QProcess kills what it still holds.
CloseWindow ==
    /\ "close" \in GuiFaults
    /\ window = "open"
    /\ window' = "closed"
    /\ child' = Killed
    /\ UNCHANGED <<code, reportLog, reportTorn, packetLog, packetTorn,
                   remaining, current, controllerVars, runs, runEnabled,
                   stopEnabled, launchFailed, stopped, footer, pill, summary>>

-----------------------------------------------------------------------------
ChildStep ==
    /\ \/ ChildProgress
       \/ "abort" \in GuiFaults /\ ChildAborts
       \/ "crash" \in GuiFaults /\ ChildCrashes
       \/ ChildTerminated
    /\ UNCHANGED <<controllerVars, windowVars>>

Operator ==
    \/ RunBlocked \/ RunWithoutDirectory \/ RunFailsToStart \/ RunClicked
    \/ StopClicked
    \/ CloseWindow

EventLoop == PollTimer \/ ProcessFinished

Idle == process = "none" /\ runs = MaxRuns /\ UNCHANGED vars
Gone == window = "closed" /\ ~ Alive /\ UNCHANGED vars

Next == Operator \/ EventLoop \/ ChildStep \/ Idle \/ Gone

KillDelivered == ChildTerminated /\ UNCHANGED <<controllerVars, windowVars>>

\* The operating system delivers a kill and Qt delivers `finished`; nothing is
\* assumed of pytest, of the poll timer or of the operator.
Spec ==
    /\ Init /\ [][Next]_vars
    /\ WF_vars(ProcessFinished)
    /\ WF_vars(KillDelivered)

-----------------------------------------------------------------------------
(***************************************************************************)
(* Properties.                                                             *)
(***************************************************************************)
Pills == {"idle", "preflight", "running", "could not start", "stopped",
          "pytest exited", "no tests ran", "failures", "all passed"}
Summaries == {"none", "stopped", "pytest exited", "no tests ran",
              "everything skipped", "counts"}

\* The type of the controller's and the window's state.
TypeOK ==
    /\ ChildTypeOK
    /\ process \in {"none", "running"}
    /\ timer \in BOOLEAN /\ stopping \in BOOLEAN
    /\ tests \in [Tests -> Verdicts \cup {NoVerdict}]
    /\ packets \in Seq(Nat)
    /\ reportOffset \in Nat /\ eventsOffset \in Nat
    /\ saved \in [present : BOOLEAN, tests : [Tests -> Verdicts \cup {NoVerdict}],
                  packets : Seq(Nat), code : ExitCodes \cup {NoCode}]
    /\ runs \in 0..MaxRuns
    /\ window \in {"open", "closed"}
    /\ runEnabled \in BOOLEAN /\ stopEnabled \in BOOLEAN
    /\ launchFailed \in BOOLEAN /\ stopped \in BOOLEAN
    /\ footer \in {"idle", "ok", "bad"}
    /\ pill \in Pills
    /\ summary \in Summaries

\* Over any sequence of runs, failed launches, stops and crashes: Run is
\* offered exactly when no process is held, Stop exactly when one is, and the
\* poll timer runs only then.  So a Stop click always finds something to stop,
\* and the next run is never offered while the child of the last one is still
\* writing: two runs never share the result.
ButtonsTellTheTruth ==
    /\ TypeOK
    /\ runEnabled <=> process = "none"
    /\ stopEnabled <=> process = "running"
    /\ timer <=> process = "running"
    /\ runEnabled => ~ Alive

\* p lists the line numbers in S, each once and in the order of the file.
Lists(p, S) ==
    /\ \A i, j \in 1..Len(p) : i < j => p[i] < p[j]
    /\ {p[i] : i \in 1..Len(p)} = S

\* What results.json holds is the whole of THIS run's report log and packet
\* log, each event once and in order, however the run ended: killed, crashed in
\* the middle of a line, or never polled at all before it was over; nothing of
\* an earlier run is in it.
\* And it carries a return code only if pytest chose it: never for a run the
\* operator stopped or a signal ended, so that `errored` is not read out of
\* the operating system's code for a killed process.
SavedIsThisRun ==
    saved.present =>
       /\ process = "none"
       /\ saved.tests = WorstOver(reportLog, Complete)
       /\ Lists(saved.packets, EventLines(0, CompletePackets))
       /\ saved.code # NoCode => /\ saved.code = code /\ code >= 0
                                 /\ pill # "stopped" /\ ~ stopped

\* No complete line of the report log carries a failure.
NoFailureLogged ==
    \A i \in 1..Complete : ~ Failing(ParseReportLogLine(reportLog[i]))

\* A green pill: pytest ran its whole selection, returned 0, and no line of the
\* report log carries a failure.  A green footer, which a stopped or crashed run
\* has too, still means that the run it stands under logged no failure.  Neither
\* says that a test passed.  Nor does this say that pill and closing log line
\* agree: if all tests were skipped the one is "All N selected tests passed" and
\* the other "Everything selected was skipped", though _verdict says that the two
\* "cannot disagree about what happened".
GreenIsClean ==
    /\ pill = "all passed" => /\ code = 0
                              /\ remaining = {} /\ current = Between
                              /\ NoFailureLogged
    /\ footer = "ok" /\ process = "none" => NoFailureLogged

\* Stop works even if pytest hangs: the window becomes ready for the next run
\* (or is closed), because the kill is delivered and `finished` follows.
StopFreesWindow == stopping ~> (runEnabled \/ window = "closed")

\* The controller implements the run lifecycle, one run after another.
Lifecycle == INSTANCE RunLifecycle WITH
    status   <- IF process = "running" /\ window = "open" THEN "open"
                ELSE IF runs = 0 THEN "idle" ELSE "closed",
    log      <- SubSeq(reportLog, 1, Complete),
    verdicts <- tests,
    record   <- IF saved.present THEN saved.tests ELSE [n \in {} |-> NoVerdict]

\* Whatever the operator does, the GUI's runs are runs of RunLifecycle.
ImplementsLifecycle == Lifecycle!Lifecycle

=============================================================================
