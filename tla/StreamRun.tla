----------------------------- MODULE StreamRun -----------------------------
(***************************************************************************)
(* The CLI's run: stream_run of src/runner.py, driven by run_tests and     *)
(* followed by _emit_results of src/cli/main.py.                           *)
(*                                                                         *)
(* One process polls the pytest subprocess and tails its two files line by *)
(* line while the subprocess goes on writing them.  Ctrl+C can arrive      *)
(* between any two steps, a progress callback can raise, a file operation  *)
(* can fail, and the try/except/finally of stream_run decides what is      *)
(* saved and what the child is told.                                       *)
(***************************************************************************)
EXTENDS PytestChild

CONSTANTS Faults,                  \* which failures of the environment occur
          MaxInterrupts            \* bound on the times Ctrl+C is pressed

FaultKinds == {"artifacts", "launch", "callback", "save", "abort", "crash"}

ASSUME StreamAssumption == Faults \subseteq FaultKinds /\ MaxInterrupts \in Nat

VARIABLES pc,            \* the next statement of the parent
          stage,         \* which block of the try statement it is in
          raised,        \* the exception in flight
          interrupts,    \* how often Ctrl+C has been pressed
          tests,         \* result.tests: a verdict for each node id
          packets,       \* result.packet_events, as line numbers of the log
          reportOffset,  \* report_offset, in lines
          eventsOffset,  \* events_offset, in lines
          cursor,        \* the last line of the batch handled so far
          batchEnd,      \* the offset the drain will return
          returncode,    \* proc.returncode: what poll() or wait() has seen
          saved,         \* results.json
          exitStatus     \* the exit status of the CLI

parentVars == <<pc, stage, raised, interrupts, tests, packets, reportOffset,
                eventsOffset, cursor, batchEnd, returncode, saved, exitStatus>>
vars == <<childVars, parentVars>>

NotSaved == [present |-> FALSE, tests |-> Unseen, packets |-> <<>>,
             code |-> NoCode]
NoExit == -1
NoError == "none"

Init ==
    /\ ChildInit
    /\ pc = "create"
    /\ stage = "before"
    /\ raised = NoError
    /\ interrupts = 0
    /\ tests = Unseen
    /\ packets = <<>>
    /\ reportOffset = 0 /\ eventsOffset = 0
    /\ cursor = 0 /\ batchEnd = 0
    /\ returncode = NoCode
    /\ saved = NotSaved
    /\ exitStatus = NoExit

-----------------------------------------------------------------------------
result  == <<tests, packets>>
offsets == <<reportOffset, eventsOffset>>
batch   == <<cursor, batchEnd>>

\* How the CLI ends on an exception: 130 for the Ctrl+C it handles, 1 for a
\* NetstackError or a traceback.
ExitOn(error) == IF error = "KeyboardInterrupt" THEN 130 ELSE 1

\* An exception leaves stream_run, and with it the command.
Fail(error) ==
    /\ pc' = "done"
    /\ stage' = "after"
    /\ raised' = error
    /\ exitStatus' = ExitOn(error)

\* The finally block starts, with an exception in flight or not.
EnterFinally(error) ==
    /\ stage' = "finally"
    /\ pc' = "readTests"
    /\ raised' = error

\* An exception that stream_run does not catch: in the try block the finally
\* block still runs, in the finally block nothing more does.
Raise(error) ==
    \/ stage = "try"     /\ EnterFinally(error) /\ UNCHANGED exitStatus
    \/ stage = "finally" /\ Fail(error)

-----------------------------------------------------------------------------
\* new_run_dir, and opening pytest_output.log: either can fail.
CreateRun ==
    /\ pc = "create"
    /\ \/ pc' = "popen" /\ UNCHANGED <<stage, raised, exitStatus>>
       \/ "artifacts" \in Faults /\ Fail("RunArtifactError")
    /\ UNCHANGED <<childVars, interrupts, result, offsets, batch,
                   returncode, saved>>

\* subprocess.Popen, outside the try statement.
Popen ==
    /\ pc = "popen"
    /\ \/ /\ ChildStarts
          /\ pc' = "poll" /\ stage' = "try"
          /\ UNCHANGED <<raised, exitStatus>>
       \/ /\ "launch" \in Faults
          /\ Fail("OSError")
          /\ UNCHANGED childVars
    /\ UNCHANGED <<interrupts, result, offsets, batch, returncode, saved>>

\* while proc.poll() is None.
Poll_NoFinalDrain ==
    /\ pc = "poll"
    /\ IF child = "exited"
       THEN /\ returncode' = code
            /\ pc' = "save" /\ stage' = "finally" /\ raised' = NoError
       ELSE pc' = "readTests" /\ UNCHANGED <<returncode, stage, raised>>
    /\ UNCHANGED <<childVars, interrupts, result, offsets, batch, saved,
                   exitStatus>>

Poll_AwaitsNewline ==
    /\ pc = "poll"
    /\ IF child = "exited" /\ ~ reportTorn
       THEN returncode' = code /\ EnterFinally(NoError)
       ELSE pc' = "readTests" /\ UNCHANGED <<returncode, stage, raised>>
    /\ UNCHANGED <<childVars, interrupts, result, offsets, batch, saved,
                   exitStatus>>

Poll ==
    /\ pc = "poll"
    /\ IF child = "exited"
       THEN returncode' = code /\ EnterFinally(NoError)
       ELSE pc' = "readTests" /\ UNCHANGED <<returncode, stage, raised>>
    /\ UNCHANGED <<childVars, interrupts, result, offsets, batch, saved,
                   exitStatus>>

\* drain_test_events: read_new_lines.
ReadTests ==
    /\ pc = "readTests"
    /\ cursor' = reportOffset
    /\ batchEnd' = ReadNewLines(reportLog, reportTorn, reportOffset)
    /\ pc' = "tests"
    /\ UNCHANGED <<childVars, stage, raised, interrupts, result, offsets,
                   returncode, saved, exitStatus>>

\* One line of the batch: parse, upsert, and the progress line of the CLI,
\* which can raise (a closed pipe, an unencodable character).
ApplyLine ==
    /\ pc = "tests"
    /\ cursor < batchEnd
    /\ cursor' = cursor + 1
    /\ tests' = Upsert(tests, LineAt(cursor + 1))
    /\ \/ UNCHANGED <<pc, stage, raised, exitStatus>>
       \/ /\ "callback" \in Faults
          /\ tests' # tests
          /\ Raise("CallbackError")
    /\ UNCHANGED <<childVars, interrupts, packets, offsets, batchEnd,
                   returncode, saved>>

\* The batch is exhausted and drain_test_events returns the new offset.
TestsDrained ==
    /\ pc = "tests"
    /\ cursor = batchEnd
    /\ reportOffset' = batchEnd
    /\ pc' = "readPackets"
    /\ UNCHANGED <<childVars, stage, raised, interrupts, result, eventsOffset,
                   batch, returncode, saved, exitStatus>>

\* drain_packet_events: read_new_lines.
ReadPackets ==
    /\ pc = "readPackets"
    /\ cursor' = eventsOffset
    /\ batchEnd' = ReadNewLines(packetLog, packetTorn, eventsOffset)
    /\ pc' = "packets"
    /\ UNCHANGED <<childVars, stage, raised, interrupts, result, offsets,
                   returncode, saved, exitStatus>>

\* One packet line: an unparseable one is skipped.  The CLI passes no packet
\* callback, so nothing can raise here.
ApplyPacket ==
    /\ pc = "packets"
    /\ cursor < batchEnd
    /\ cursor' = cursor + 1
    /\ packets' = IF packetLog[cursor + 1] = "event"
                  THEN Append(packets, cursor + 1) ELSE packets
    /\ UNCHANGED <<childVars, pc, stage, raised, interrupts, tests, offsets,
                   batchEnd, returncode, saved, exitStatus>>

PacketsDrained_NoOffset ==
    /\ pc = "packets"
    /\ cursor = batchEnd
    /\ pc' = IF stage = "try" THEN "sleep" ELSE "save"
    /\ UNCHANGED <<childVars, stage, raised, interrupts, result, offsets,
                   batch, returncode, saved, exitStatus>>

\* The batch is exhausted and drain_packet_events returns the new offset.
PacketsDrained ==
    /\ pc = "packets"
    /\ cursor = batchEnd
    /\ eventsOffset' = batchEnd
    /\ pc' = IF stage = "try" THEN "sleep" ELSE "save"
    /\ UNCHANGED <<childVars, stage, raised, interrupts, result, reportOffset,
                   batch, returncode, saved, exitStatus>>

\* yield result; time.sleep(POLL_INTERVAL_S).
Sleep ==
    /\ pc = "sleep"
    /\ pc' = "poll"
    /\ UNCHANGED <<childVars, stage, raised, interrupts, result, offsets,
                   batch, returncode, saved, exitStatus>>

-----------------------------------------------------------------------------
(***************************************************************************)
(* KeyboardInterrupt, at any statement from the try on (at the yield it    *)
(* reaches the generator as GeneratorExit, which is handled the same way). *)
(***************************************************************************)
Interrupt_NoTerminate ==
    /\ interrupts < MaxInterrupts
    /\ interrupts' = interrupts + 1
    /\ \/ stage = "try" /\ EnterFinally("KeyboardInterrupt") /\ UNCHANGED exitStatus
       \/ stage = "finally" /\ Fail("KeyboardInterrupt")
       \/ pc = "emit" /\ Fail("Abort")
    /\ UNCHANGED <<childVars, result, offsets, batch, returncode, saved>>

Interrupt ==
    /\ interrupts < MaxInterrupts
    /\ interrupts' = interrupts + 1
    /\ \/ /\ stage = "try"
          /\ pc' = "terminate"
          /\ stage' = "except"
          /\ raised' = "KeyboardInterrupt"
          /\ UNCHANGED exitStatus
       \/ /\ stage = "except"
          /\ EnterFinally("KeyboardInterrupt")
          /\ UNCHANGED exitStatus
       \/ /\ stage = "finally"
          /\ Fail("KeyboardInterrupt")
       \/ /\ pc = "emit"                  \* outside the CLI's own handler
          /\ Fail("Abort")
    /\ UNCHANGED <<childVars, result, offsets, batch, returncode, saved>>

\* proc.terminate(): a no-op on a process that has ended.
Terminate ==
    /\ pc = "terminate"
    /\ child' = IF child = "running" THEN "terminating" ELSE child
    /\ pc' = "wait"
    /\ UNCHANGED <<code, reportLog, reportTorn, packetLog, packetTorn,
                   remaining, current, stage, raised, interrupts, result,
                   offsets, batch, returncode, saved, exitStatus>>

\* proc.wait(timeout=10): the child ended, or TimeoutExpired replaces the
\* interrupt.
Wait_Unbounded ==
    /\ pc = "wait"
    /\ child = "exited"
    /\ returncode' = code
    /\ EnterFinally(raised)
    /\ UNCHANGED <<childVars, interrupts, result, offsets, batch, saved,
                   exitStatus>>

Wait ==
    /\ pc = "wait"
    /\ IF child = "exited"
       THEN returncode' = code /\ EnterFinally(raised)
       ELSE UNCHANGED returncode /\ EnterFinally("TimeoutExpired")
    /\ UNCHANGED <<childVars, interrupts, result, offsets, batch, saved,
                   exitStatus>>

-----------------------------------------------------------------------------
\* finalize_run, at the end of the finally block.
Save ==
    /\ pc = "save"
    /\ \/ /\ saved' = [present |-> TRUE, tests |-> tests, packets |-> packets,
                       code |-> returncode]
          /\ IF raised = NoError
             THEN pc' = "emit" /\ stage' = "after" /\ UNCHANGED <<raised, exitStatus>>
             ELSE Fail(raised)
       \/ /\ "save" \in Faults
          /\ UNCHANGED saved
          /\ Fail("RunArtifactError")
    /\ UNCHANGED <<childVars, interrupts, result, offsets, batch, returncode>>

\* TestRunResult.errored: pytest itself failed to run the tests.
Errored(rc) == rc # NoCode /\ rc >= 2

\* _emit_results: the exit status of a run that was not interrupted.
EmitResults_OnlyFailed ==
    /\ pc = "emit"
    /\ pc' = "done"
    /\ exitStatus' = IF Errored(returncode) THEN returncode
                     ELSE IF \E n \in Tests : tests[n] = "failed" THEN 1
                     ELSE 0
    /\ UNCHANGED <<childVars, stage, raised, interrupts, result, offsets,
                   batch, returncode, saved>>

EmitResults ==
    /\ pc = "emit"
    /\ pc' = "done"
    /\ exitStatus' = IF Errored(returncode) THEN returncode
                     ELSE IF \E n \in Tests : Failing(tests[n]) THEN 1
                     ELSE 0
    /\ UNCHANGED <<childVars, stage, raised, interrupts, result, offsets,
                   batch, returncode, saved>>

-----------------------------------------------------------------------------
Drain ==
    \/ ReadTests \/ ApplyLine \/ TestsDrained
    \/ ReadPackets \/ ApplyPacket \/ PacketsDrained

ParentStep ==
    \/ CreateRun \/ Popen
    \/ Poll \/ Drain \/ Sleep
    \/ Terminate \/ Wait
    \/ Save \/ EmitResults

ChildStep ==
    /\ \/ ChildProgress
       \/ "abort" \in Faults /\ ChildAborts
       \/ "crash" \in Faults /\ ChildCrashes
       \/ ChildTerminated
    /\ UNCHANGED parentVars

Finished == pc = "done" /\ ~ Alive /\ UNCHANGED vars

Next == ParentStep \/ Interrupt \/ ChildStep \/ Finished

\* The parent is a running program; the child owes it nothing.
Spec == Init /\ [][Next]_vars /\ WF_vars(ParentStep)

-----------------------------------------------------------------------------
(***************************************************************************)
(* Properties.                                                             *)
(***************************************************************************)
Pcs == {"create", "popen", "poll", "readTests", "tests", "readPackets",
        "packets", "sleep", "terminate", "wait", "save", "emit", "done"}
Stages == {"before", "try", "except", "finally", "after"}
Errors == {NoError, "RunArtifactError", "OSError", "CallbackError",
           "KeyboardInterrupt", "TimeoutExpired", "Abort"}

\* The type of the run's state: stream_run's locals, the process it holds and
\* the files of the run directory.
TypeOK ==
    /\ ChildTypeOK
    /\ pc \in Pcs
    /\ stage \in Stages
    /\ raised \in Errors
    /\ interrupts \in Nat
    /\ tests \in [Tests -> Verdicts \cup {NoVerdict}]
    /\ packets \in Seq(Nat)
    /\ reportOffset \in Nat /\ eventsOffset \in Nat
    /\ cursor \in Nat /\ batchEnd \in Nat
    /\ returncode \in ExitCodes \cup {NoCode}
    /\ saved \in [present : BOOLEAN, tests : [Tests -> Verdicts \cup {NoVerdict}],
                  packets : Seq(Nat), code : ExitCodes \cup {NoCode}]
    /\ exitStatus \in {NoExit, 0, 1, 2, 5, 130}

\* The report lines whose effect the result must already show.
Consumed == IF pc = "tests" THEN cursor ELSE reportOffset

\* t shows a verdict at least as bad as every line up to k carries.
Covers(t, k) ==
    \A i \in 1..k :
       ~ Worsens(t[reportLog[i].nodeid], ParseReportLogLine(reportLog[i]))

\* Every verdict in t was carried by some complete line about that test.
Grounded(t) ==
    \A n \in Tests :
       t[n] # NoVerdict =>
          \E i \in 1..Complete :
             /\ reportLog[i].nodeid = n
             /\ ParseReportLogLine(reportLog[i]) = t[n]

\* drain_test_events against a file that grows, is torn, is re-read after an
\* exception and is parsed phase by phase: at every step the verdicts are at
\* least as bad as every consumed line says, and none is made up.
VerdictsFaithful == Covers(tests, Consumed) /\ Grounded(tests)

\* A results.json that carries a return code was written after the child had
\* ended, so the final drain read everything: each test has the worst verdict
\* of the whole log.  This is what the finally block's second drain is for,
\* after an interrupt too.
SavedVerdictsComplete ==
    saved.present /\ saved.code # NoCode =>
       /\ child = "exited"
       /\ saved.code = code
       /\ saved.tests = WorstOver(reportLog, Complete)

\* Nor does such a results.json miss a packet line, however often the drain
\* of the packet file was cut short and repeated; and without an exception the
\* packet events are saved exactly once each and in the order of the log,
\* whatever the child wrote between poll and drain.
PacketsExact ==
    saved.present =>
       /\ saved.code # NoCode =>
             \A i \in 1..CompletePackets :
                packetLog[i] = "event" =>
                   \E j \in 1..Len(saved.packets) : saved.packets[j] = i
       /\ raised = NoError =>
             /\ \A i, j \in 1..Len(saved.packets) :
                   i < j => saved.packets[i] < saved.packets[j]
             /\ \A i \in 1..CompletePackets :
                   packetLog[i] = "event" <=>
                      \E j \in 1..Len(saved.packets) : saved.packets[j] = i

\* A CLI that exits 0 has a complete results.json on disk and no failing
\* verdict anywhere in the report log, not even one written in a teardown
\* after the test had been shown as passed.
ExitZeroIsClean ==
    exitStatus = 0 =>
       /\ saved.present /\ saved.code # NoCode
       /\ child = "exited"
       /\ \A i \in 1..Complete : ~ Failing(ParseReportLogLine(reportLog[i]))

(***************************************************************************)
(* The inductive invariant behind VerdictsFaithful and                     *)
(* SavedVerdictsComplete.                                                  *)
(***************************************************************************)

\* Where in the try statement each step of the parent belongs.
ControlOK ==
    /\ pc \in {"create", "popen"} <=> stage = "before"
    /\ pc \in {"poll", "sleep"} => stage = "try"
    /\ pc \in {"readTests", "tests", "readPackets", "packets"}
          => stage \in {"try", "finally"}
    /\ pc \in {"terminate", "wait"} <=> stage = "except"
    /\ pc = "save" => stage = "finally"
    /\ pc \in {"emit", "done"} <=> stage = "after"
    /\ stage = "before" => /\ child = "unborn"
                           /\ tests = Unseen
                           /\ reportOffset = 0 /\ eventsOffset = 0
                           /\ returncode = NoCode
                           /\ ~ saved.present
    /\ saved.present => stage = "after"

\* Every offset is a line boundary inside the file, and a drain is somewhere
\* between the offset it started from and the one it will return.
OffsetsOK ==
    /\ reportOffset <= Complete
    /\ eventsOffset <= CompletePackets
    /\ pc = "tests" => /\ reportOffset <= cursor
                       /\ cursor <= batchEnd
                       /\ batchEnd <= Complete
    /\ pc = "packets" => /\ eventsOffset <= cursor
                         /\ cursor <= batchEnd
                         /\ batchEnd <= CompletePackets

\* A return code is known only of a child that has ended and will write no
\* more, and from then on the final drain covers the whole log.
FinalDrainOK ==
    /\ child = "exited" => code # NoCode
    /\ returncode # NoCode => /\ child = "exited"
                              /\ returncode = code
                              /\ stage \in {"finally", "after"}
    /\ returncode # NoCode /\ pc = "tests" => batchEnd = Complete
    /\ returncode # NoCode /\ pc \in {"readPackets", "packets", "save", "emit"}
          => reportOffset = Complete

\* What was saved under a return code shows the whole log.
SavedOK ==
    saved.present /\ saved.code # NoCode =>
       /\ child = "exited"
       /\ saved.code = code
       /\ Covers(saved.tests, Complete)
       /\ Grounded(saved.tests)

\* The invariant every step preserves: the control structure of stream_run,
\* its offsets, the fidelity of the verdicts and what a saved record shows.
IInv ==
    /\ TypeOK
    /\ TornOK
    /\ ControlOK
    /\ OffsetsOK
    /\ VerdictsFaithful
    /\ FinalDrainOK
    /\ SavedOK

\* One Ctrl+C, at whatever statement it lands, does not leave the child
\* running on its own: when the command is over the child has ended or has
\* been sent SIGTERM.  One that lands in the polling loop, and so reaches the
\* except block, and whose SIGTERM the child heeds also leaves on disk what was
\* collected.  One that lands in the final drain saves nothing, although the
\* finally block means to "persist, on every path".
InterruptIsHandled ==
    pc = "done" /\ interrupts = 1 =>
       /\ raised \in {"KeyboardInterrupt", "TimeoutExpired"}
             => child \in {"terminating", "exited"}
       /\ raised = "KeyboardInterrupt" /\ returncode = KilledCode
             => saved.present

Forward ==
    /\ \A n \in Tests : tests'[n] = tests[n] \/ Worsens(tests[n], tests'[n])
    /\ reportOffset' >= reportOffset
    /\ eventsOffset' >= eventsOffset
    /\ saved.present => saved' = saved
    /\ returncode # NoCode => returncode' = returncode

\* A step never improves a verdict, never moves an offset back, and never
\* touches results.json or the return code once they are known.
OnlyForward == [][Forward]_vars

\* Once the child has ended the command ends: nothing the child left behind,
\* a torn line included, can keep the polling loop or the final drain busy.
ChildExitEndsRun == (child = "exited") ~> (pc = "done")

\* Once Ctrl+C has been pressed the command ends, even if the child ignores
\* SIGTERM and writes for ever: the wait is bounded and the finally block
\* does not wait for the child.
InterruptEndsRun == (interrupts > 0) ~> (pc = "done")

-----------------------------------------------------------------------------
(***************************************************************************)
(* stream_run implements the run lifecycle.                                *)
(***************************************************************************)
Lifecycle == INSTANCE RunLifecycle WITH
    status   <- IF stage = "before" /\ pc # "done" THEN "idle"
                ELSE IF stage = "after" THEN "closed" ELSE "open",
    log      <- SubSeq(reportLog, 1, Complete),
    verdicts <- tests,
    record   <- IF saved.present THEN saved.tests ELSE [n \in {} |-> NoVerdict]

\* Whatever is raised and wherever Ctrl+C lands, a run of the CLI is a run of
\* RunLifecycle: opened once, showing only what some prefix of the log says,
\* and closed once.
ImplementsLifecycle == Lifecycle!Lifecycle

-----------------------------------------------------------------------------
(***************************************************************************)
(* What the comments and messages of the code say, and the code does not.  *)
(***************************************************************************)

\* _emit_results: a run pytest could not finish does not "masquerade as a
\* clean pass".  Exit status 0 is for a run whose selection was run to its end.
NoCleanPassForABrokenRun ==
    exitStatus = 0 => remaining = {} /\ current = Between
=============================================================================
