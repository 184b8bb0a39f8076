--------------------------- MODULE PacketRecorder ---------------------------
(***************************************************************************)
(* `netstack-cli record`: the command (src/cli/main.py) and the recorder   *)
(* (src/packet_engine/recorder.py) on the main thread, and the sniffer     *)
(* thread that calls _handle for every frame.                              *)
(*                                                                         *)
(* The two share the _writer attribute, without a lock: _handle reads it   *)
(* and then uses it, _close_writer closes it and then sets it to None.     *)
(* The sniffer, Scapy's AsyncSniffer, is external and is modelled by what  *)
(* recorder.py says of it: `running` is set by the thread before it opens  *)
(* the socket; whatever escapes _handle, or the opening of the socket, is  *)
(* stored, ends the thread with `running` still set, and is raised again   *)
(* by stop() and join().                                                   *)
(***************************************************************************)
EXTENDS Naturals

CONSTANTS MaxFrames,     \* bound on the frames that arrive
          MaxInterrupts  \* bound on the times Ctrl+C is pressed

ASSUME RecorderAssumption == MaxFrames \in Nat /\ MaxInterrupts \in Nat

VARIABLES bounded,       \* --count or --duration was given
          mainPc,        \* where the command is
          call,          \* the recorder method it is in: "join" or "stop"
          pending,       \* the exception that method is ending with
          outcome,       \* how the command ended
          printed,       \* the number in "Wrote N packet(s)"
          interrupts,
          attr,          \* _writer is not None
          closed,        \* the writer's close() was called
          thread,        \* where the sniffer thread is
          running,       \* AsyncSniffer.running
          asked,         \* the sniffer was asked to stop
          overlooked,    \* stop() found a live sniffer not running yet
          stored,        \* the exception on the sniffer
          file,          \* frames in the capture file
          count,         \* _packet_count
          frames         \* frames that arrived

mainVars     == <<bounded, mainPc, call, pending, outcome, printed, interrupts>>
snifferVars  == <<thread, running, stored, file, count, frames>>
recorderVars == <<mainVars, attr, closed, asked, overlooked, snifferVars>>

None == "none"

RecorderInit ==
    /\ bounded \in BOOLEAN
    /\ mainPc = "begin" /\ call = None /\ pending = None /\ outcome = None
    /\ printed = 0 /\ interrupts = 0
    /\ attr = FALSE /\ closed = FALSE /\ asked = FALSE /\ overlooked = FALSE
    /\ thread = "unborn" /\ running = FALSE /\ stored = None
    /\ file = 0 /\ count = 0 /\ frames = 0

-----------------------------------------------------------------------------
(***************************************************************************)
(* The main thread, one action for every stretch between two points at     *)
(* which Ctrl+C makes a difference.                                        *)
(***************************************************************************)
\* The command ends with what reached the top of it.
Ends(e) == mainPc' = "done" /\ outcome' = e

\* recorder.start(): the capture file, which may not open ...
OpenCapture ==
    /\ mainPc = "begin"
    /\ \/ attr' = TRUE /\ mainPc' = "opened" /\ UNCHANGED outcome
       \/ Ends("OSError") /\ UNCHANGED attr
    /\ UNCHANGED <<bounded, call, pending, printed, interrupts, closed, asked,
                   overlooked, snifferVars>>

\* ... then the thread.
SpawnSniffer ==
    /\ mainPc = "opened"
    /\ mainPc' = "spawned" /\ thread' = "spawned"
    /\ UNCHANGED <<bounded, call, pending, outcome, printed, interrupts, attr, closed,
                   asked, overlooked, running, stored, file, count, frames>>

\* The command enters its try and, if the capture is bounded, join().  Any other
\* is slept on until Ctrl+C.
EnterTry ==
    /\ mainPc = "spawned"
    /\ mainPc' = "wait"
    /\ UNCHANGED <<bounded, call, pending, outcome, printed, interrupts, attr, closed,
                   asked, overlooked, snifferVars>>

EnterJoin ==
    /\ mainPc = "wait" /\ call = None /\ bounded
    /\ call' = "join"
    /\ UNCHANGED <<bounded, mainPc, pending, outcome, printed, interrupts, attr, closed,
                   asked, overlooked, snifferVars>>

\* The method ends with e: its finally clause closes the writer.
Leave(e) == mainPc' = "close" /\ pending' = e

\* join(): returns when the sniffer has ended, with what it stored.
JoinReturns ==
    /\ mainPc = "wait" /\ call = "join" /\ thread = "ended"
    /\ Leave(IF stored # None THEN "CaptureError" ELSE None)
    /\ UNCHANGED <<bounded, call, outcome, printed, interrupts, attr, closed,
                   asked, overlooked, snifferVars>>

EnterStop ==
    /\ mainPc = "stop"
    /\ mainPc' = "check" /\ call' = "stop"
    /\ UNCHANGED <<bounded, pending, outcome, printed, interrupts, attr, closed,
                   asked, overlooked, snifferVars>>

\* stop(): only a sniffer that runs is stopped.
StopLooks ==
    /\ mainPc = "check"
    /\ IF running THEN mainPc' = "ask" /\ UNCHANGED <<pending, overlooked>>
       ELSE Leave(None) /\ overlooked' = (thread # "ended")
    /\ UNCHANGED <<bounded, call, outcome, printed, interrupts, attr, closed, asked,
                   snifferVars>>

\* AsyncSniffer.stop() asks the thread to end; if it has ended since stop()
\* looked, there is nothing to stop any more and it raises.
StopAsks_JoinsOnly == FALSE
StopAsks == TRUE

AskSniffer ==
    /\ mainPc = "ask"
    /\ IF running THEN mainPc' = "stopping" /\ asked' = StopAsks /\ UNCHANGED pending
       ELSE Leave("CaptureError") /\ UNCHANGED asked
    /\ UNCHANGED <<bounded, call, outcome, printed, interrupts, attr, closed,
                   overlooked, snifferVars>>

\* It joins the thread, and raises what the thread stored.
StopJoins_No == TRUE
StopJoins == thread = "ended"

StopJoined ==
    /\ mainPc = "stopping" /\ StopJoins
    /\ Leave(IF stored # None THEN "CaptureError" ELSE None)
    /\ UNCHANGED <<bounded, call, outcome, printed, interrupts, attr, closed,
                   asked, overlooked, snifferVars>>

\* _close_writer(): close, then forget; a writer forgotten is not closed again.
\* What a failed write left in the buffer, if anything, is tried once more: the
\* frame gets to the disk after all, or close() raises, past join(), stop() and
\* the command, with the file closed and the writer not forgotten.
CloseFile ==
    /\ mainPc = "close"
    /\ closed' = (closed \/ attr)
    /\ \/ mainPc' = "forget" /\ UNCHANGED <<pending, outcome, file>>
       \/ /\ stored = "disk" /\ attr /\ ~ closed
          /\ \/ mainPc' = "forget" /\ file' = file + 1 /\ UNCHANGED <<pending, outcome>>
             \/ Ends("OSError") /\ pending' = None /\ UNCHANGED file
    /\ UNCHANGED <<bounded, call, printed, interrupts, attr, asked, overlooked,
                   thread, running, stored, count, frames>>

\* After join() the command goes on to stop(), unless join() raised a
\* CaptureError; after stop() the count is read, or the exception ends it.
ForgetWriter ==
    /\ mainPc = "forget"
    /\ attr' = FALSE
    /\ pending' = None
    /\ \/ pending = "CaptureError" /\ Ends("CaptureError")
       \/ call = "join" /\ pending # "CaptureError" /\ mainPc' = "stop" /\ UNCHANGED outcome
       \/ call = "stop" /\ pending = "KeyboardInterrupt" /\ Ends("KeyboardInterrupt")
       \/ call = "stop" /\ pending = None /\ mainPc' = "report" /\ UNCHANGED outcome
    /\ UNCHANGED <<bounded, call, printed, interrupts, closed, asked, overlooked,
                   snifferVars>>

Report ==
    /\ mainPc = "report"
    /\ printed' = count /\ Ends("wrote")
    /\ UNCHANGED <<bounded, call, pending, interrupts, attr, closed, asked, overlooked,
                   snifferVars>>

\* Ctrl+C, at any point.  Under the command's try it leads to stop(): straight
\* from the sleep, from join() once its finally clause has run, and from within
\* that clause at once, the writer closed or not.  In the try of stop() its
\* finally clause still runs.  Anywhere else the command ends there.
Interrupt ==
    /\ mainPc # "done" /\ interrupts < MaxInterrupts
    /\ interrupts' = interrupts + 1
    /\ \/ /\ mainPc = "wait" /\ call = None
          /\ mainPc' = "stop" /\ UNCHANGED <<pending, outcome>>
       \/ /\ mainPc \in {"close", "forget"} /\ call = "join"
          /\ mainPc' = "stop" /\ pending' = None /\ UNCHANGED outcome
       \/ /\ (mainPc = "wait" /\ call = "join") \/ mainPc \in {"check", "ask", "stopping"}
          /\ Leave("KeyboardInterrupt") /\ UNCHANGED outcome
       \/ /\ \/ mainPc \in {"begin", "opened", "spawned", "stop", "report"}
             \/ mainPc \in {"close", "forget"} /\ call = "stop"
          /\ Ends("KeyboardInterrupt") /\ pending' = None
    /\ UNCHANGED <<bounded, call, printed, attr, closed, asked, overlooked, snifferVars>>

-----------------------------------------------------------------------------
(***************************************************************************)
(* The sniffer thread.                                                     *)
(***************************************************************************)
\* The thread ends with an exception that escaped: `running` stays set.
Dies(e) == thread' = "ended" /\ stored' = e

\* The thread sets `running` and then opens the socket, which may fail: a bad
\* interface, an invalid filter.
SnifferRuns ==
    /\ thread = "spawned"
    /\ thread' = "opening" /\ running' = TRUE
    /\ UNCHANGED <<mainVars, attr, closed, asked, overlooked, stored, file, count, frames>>

SnifferOpens ==
    /\ thread = "opening"
    /\ \/ thread' = "sniffing" /\ UNCHANGED stored
       \/ Dies("socket")
    /\ UNCHANGED <<mainVars, attr, closed, asked, overlooked, running, file, count, frames>>

\* A frame: _handle reads the attribute; None means the capture is over.
HandleReads ==
    /\ thread = "sniffing" /\ frames < MaxFrames
    /\ frames' = frames + 1
    /\ thread' = IF attr THEN "write" ELSE "sniffing"
    /\ UNCHANGED <<mainVars, attr, closed, asked, overlooked, running, stored, file, count>>

\* write() and flush(): they raise on a writer closed in the meantime, and on an
\* open one when the disk is full.
HandleWrites ==
    /\ thread = "write"
    /\ \/ ~ closed /\ file' = file + 1 /\ thread' = "count" /\ UNCHANGED stored
       \/ Dies(IF closed THEN "write" ELSE "disk") /\ UNCHANGED file
    /\ UNCHANGED <<mainVars, attr, closed, asked, overlooked, running, count, frames>>

\* Counted once it is on disk, under the lock.
FrameCounts == 1

HandleCounts ==
    /\ thread = "count"
    /\ count' = count + FrameCounts /\ thread' = "sinks"
    /\ UNCHANGED <<mainVars, attr, closed, asked, overlooked, running, stored, file, frames>>

\* A sink that raises is logged, and the capture goes on.
SinkRaises_Escapes == Dies("sink")
SinkRaises == thread' = "sniffing" /\ UNCHANGED stored

HandleSinks ==
    /\ thread = "sinks"
    /\ \/ thread' = "sniffing" /\ UNCHANGED stored
       \/ SinkRaises
    /\ UNCHANGED <<mainVars, attr, closed, asked, overlooked, running, file, count, frames>>

\* The sniffer ends: it was asked to, or its count or duration is reached.
SnifferEnds ==
    /\ thread = "sniffing"
    /\ asked \/ bounded
    /\ thread' = "ended" /\ running' = FALSE
    /\ UNCHANGED <<mainVars, attr, closed, asked, overlooked, stored, file, count, frames>>

-----------------------------------------------------------------------------
Main    == OpenCapture \/ SpawnSniffer \/ EnterTry \/ EnterJoin \/ JoinReturns \/ EnterStop
           \/ StopLooks \/ AskSniffer \/ StopJoined \/ CloseFile \/ ForgetWriter \/ Report
Sniffer == SnifferRuns \/ SnifferOpens \/ HandleReads \/ HandleWrites \/ HandleCounts
           \/ HandleSinks \/ SnifferEnds

RecorderOver == mainPc = "done" /\ UNCHANGED recorderVars

RecorderNext == Main \/ Interrupt \/ Sniffer \/ RecorderOver

\* The command and the thread are scheduled, and a sniffer that may end does
\* so once the frames have.  Nobody has to press Ctrl+C.
RecorderSpec == RecorderInit /\ [][RecorderNext]_recorderVars /\ WF_recorderVars(Main) /\ WF_recorderVars(Sniffer)

-----------------------------------------------------------------------------
(***************************************************************************)
(* Properties.                                                             *)
(***************************************************************************)
\* The type of the state; the file lags behind the count never, and is ahead of
\* it by the frame being handled or the one saved by the last flush.
RecorderTypeOK ==
    /\ mainPc \in {"begin", "opened", "spawned", "wait", "stop", "check", "ask", "stopping",
                   "close", "forget", "report", "done"}
    /\ call \in {None, "join", "stop"}
    /\ pending \in {None, "CaptureError", "KeyboardInterrupt"}
    /\ outcome \in {None, "wrote", "CaptureError", "OSError", "KeyboardInterrupt"}
    /\ thread \in {"unborn", "spawned", "opening", "sniffing", "write", "count",
                   "sinks", "ended"}
    /\ stored \in {None, "socket", "write", "disk", "sink"}
    /\ {bounded, attr, closed, running, asked, overlooked} \subseteq BOOLEAN
    /\ count \in 0..MaxFrames /\ file \in {count, count + 1} /\ frames \in 0..MaxFrames

\* How the file is left.  A failed capture leaves it closed, a close() that fails
\* too.  Ctrl+C leaves it closed unless it came before the command entered its
\* try, or a second one cut short what the first one had started.
WriterIsClosed ==
    /\ outcome = "CaptureError" => closed /\ ~ attr
    /\ outcome = "OSError" => closed \/ (thread = "unborn" /\ ~ attr)
    /\ outcome = "KeyboardInterrupt" /\ ~ closed => call = None \/ interrupts > 1

\* "Wrote N packet(s)" is exact and stays so: the writer is closed and forgotten,
\* N frames are in the file and nothing is added later.  Only a sniffer that was
\* not yet running when stop() looked, and so was not joined, can have one frame
\* more in its hands.  On every other way out the writer is as WriterIsClosed says.
ReportIsExact ==
    /\ RecorderTypeOK
    /\ outcome = "wrote" => /\ closed /\ ~ attr
                            /\ file = printed \/ (overlooked /\ file = printed + 1)
    /\ WriterIsClosed

\* The sniffer dies of what the environment did to it (no socket, no room on the
\* disk), or because Ctrl+C closed the writer under it (in a join, or in a stop()
\* that did not see it running yet), never of a sink.  The command reports a
\* failed capture only if the environment failed or a join was interrupted, and
\* a count only if the sniffer did not die, or was overlooked.  ("Nothing here may
\* raise", says _handle; write() and flush() do when the disk is full, and an
\* unbounded command waits on without a sniffer.)
DeathIsExplained ==
    /\ stored # "sink"
    /\ stored = "write" => interrupts > 0
    /\ outcome = "CaptureError" => stored \in {"socket", "disk"} \/ (bounded /\ interrupts > 0)
    /\ outcome = "wrote" => stored = None \/ overlooked

\* A command that was told to stop comes to its end, bounded or not, with the
\* sniffer running, dead, or not yet running.
StopEnds == mainPc = "stop" ~> mainPc = "done"
=============================================================================
