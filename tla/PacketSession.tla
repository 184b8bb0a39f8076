--------------------------- MODULE PacketSession ---------------------------
(***************************************************************************)
(* One run's packets, from the wire to the live plot.                      *)
(*                                                                         *)
(* In the pytest subprocess the session fixture network_interface          *)
(* (conftest.py) opens the live-events writer, the Windows RST guard and   *)
(* the NetworkInterface, and closes them in another order; pytest closes   *)
(* the debug logger last.  Every frame sent or received goes through       *)
(* NetworkInterface._record: the capture file, then the debug log, then    *)
(* the sinks, each under a lock of its own.  The callers are the test      *)
(* thread and, as collector.py and debug_log.py say, a background thread   *)
(* that may still be recording while the session is torn down.             *)
(*                                                                         *)
(* In the parent, the runner reads the live-events file and the window     *)
(* adds every event to MetricsBuffer, whose five bounded deques the plot   *)
(* draws; a new run clears them.                                           *)
(***************************************************************************)
EXTENDS Integers, Sequences, SequencesExt

CONSTANTS Env,              \* the runs considered: [windows, opts], opts the paths given
          MaxSessionFrames, \* bound on the frames a thread handles in a run
          MaxRuns,          \* bound on the runs of one window
          MaxPoints         \* MetricsBuffer's max_points

Options == {"capture", "events", "debug"}  \* the paths a run may be given

ASSUME SessionAssumption == /\ Env \subseteq [windows : BOOLEAN, opts : SUBSET Options]
                            /\ MaxSessionFrames \in Nat /\ MaxRuns \in Nat \ {0}
                            /\ MaxPoints \in Nat \ {0}

Threads    == {"test", "background"}
Counters   == {"sent", "received", "bytesSent", "bytesReceived"}
Series     == Counters \cup {"elapsed"}
Directions == {"SENT", "RECEIVED"}

VARIABLES env,     \* windows: the host; opts: the options given
          fix,     \* the fixture: where it is and what it holds
          thr,     \* per thread: the call it is in
          out,     \* what has been written, and the counts kept of it
          plot,    \* the runner's position and the MetricsBuffer
          runs

sessionVars == <<env, fix, thr, out, plot, runs>>

\* One frame on the wire: the n-th that thread `by` handled.
Frame == [by : Threads, n : 1..MaxSessionFrames, direction : Directions]
SizeBytes(f) == IF f.direction = "SENT" THEN 1 ELSE 2

\* pytest_configure opens the debug logger; everything else is still closed.
\* `late`: a frame was recorded after the interface was closed.
NewFixture(e) == [phase  |-> "configured", guard |-> "none", writer |-> "none",
                  logger |-> IF "debug" \in e.opts THEN "open" ELSE "none",
                  pcap   |-> "none", broken |-> FALSE, late |-> FALSE]
IdleThreads == [t \in Threads |-> [pc |-> "idle", queue |-> <<>>, asking |-> FALSE,
                                   made |-> 0, stamp |-> 0]]
NoOutput == [file |-> <<>>, captured |-> 0, trace |-> <<>>, frameNo |-> 0,
             clock |-> 0, events |-> <<>>]
\* A MetricsBuffer that clear() has emptied; start 0 is _start_time None.
NoSamples == [read |-> 0, start |-> 0, total |-> [s \in Counters |-> 0],
              window |-> [s \in Series |-> <<>>]]
Cleared_ForgetsBytes(p) == [NoSamples EXCEPT !.window["bytesReceived"] = p.window["bytesReceived"]]
Cleared(p) == NoSamples

SessionInit ==
    /\ env \in Env /\ fix = NewFixture(env) /\ thr = IdleThreads /\ out = NoOutput
    /\ plot = NoSamples /\ runs = 1

-----------------------------------------------------------------------------
(***************************************************************************)
(* The session: the fixture's set-up and tear-down, on the test thread.    *)
(***************************************************************************)
Session(from, next) ==
    fix.phase = from /\ fix' = next /\ UNCHANGED <<env, thr, out, plot, runs>>

\* A step before the yield raises (no privileges, no driver, no directory):
\* nothing after it runs, and a fixture that did not yield has no tear-down.
SetupRaises ==
    \E p \in {"configured", "written", "guarded"} :
        Session(p, [fix EXCEPT !.phase = "closed", !.broken = TRUE])

\* PacketEventLogWriter, if a path was given.
OpenWriter ==
    Session("configured", [fix EXCEPT
        !.phase = "written", !.writer = IF "events" \in env.opts THEN "open" ELSE "none"])

\* start_for_host(): a guard on Windows, None anywhere else.
StartGuard ==
    Session("written", [fix EXCEPT
        !.phase = "guarded", !.guard = IF env.windows THEN "open" ELSE "none"])

\* NetworkInterface(...): no file is opened before the first frame.
OpenInterface == Session("guarded", [fix EXCEPT !.phase = "up"])

\* iface.close(), with the tests over.  Closing the file may raise: then the
\* rest of the tear-down does not run.
CloseInterface ==
    /\ thr["test"].pc = "idle"
    /\ \/ Session("up", [fix EXCEPT !.phase = "ifaceClosed", !.pcap = "none"])
       \/ /\ fix.pcap = "open"
          /\ Session("up", [fix EXCEPT !.phase = "closed", !.broken = TRUE])

\* PacketEventLogWriter.close().
CloseWriter ==
    Session("ifaceClosed", [fix EXCEPT
        !.phase = "writerClosed", !.writer = IF @ = "open" THEN "closed" ELSE @])

\* HostRstGuard.stop(): closing the handle is what ends its thread.
StopsGuard_JoinOnly(g) == g
StopsGuard(g) == IF g = "open" THEN "closed" ELSE g
StopGuard ==
    Session("writerClosed", [fix EXCEPT !.phase = "closed", !.guard = StopsGuard(@)])

\* pytest_unconfigure closes the debug logger.
Unconfigure ==
    Session("closed", [fix EXCEPT
        !.phase = "over", !.logger = IF @ = "open" THEN "closed" ELSE @])

-----------------------------------------------------------------------------
(***************************************************************************)
(* The callers of the interface.                                           *)
(***************************************************************************)
TearingDown == fix.phase \in {"ifaceClosed", "writerClosed", "closed", "over"}

\* Thread t may call the interface: a test while the fixture is up, the
\* background thread for as long as the process lives.
Calls(t) == /\ thr[t].pc = "idle"
            /\ fix.phase = "up" \/ (t = "background" /\ TearingDown /\ ~fix.broken)

\* Thread t starts to record frames of directions dirs; asking: it is in
\* send_receive, and srp1 comes next.
Records(t, dirs, asking) ==
    /\ thr[t].made + Len(dirs) <= MaxSessionFrames
    /\ thr' = [thr EXCEPT ![t] =
                  [@ EXCEPT !.pc = "pcap", !.asking = asking,
                            !.made = thr[t].made + Len(dirs),
                            !.queue = [i \in DOMAIN dirs |->
                                [by |-> t, n |-> thr[t].made + i, direction |-> dirs[i]]]]]
    /\ UNCHANGED <<env, fix, out, plot, runs>>

\* send(): on the wire first, recorded after.
Send(t) == Calls(t) /\ Records(t, <<"SENT">>, FALSE)

\* send_receive(): recorded first, sent by srp1.
SendReceive(t) == Calls(t) /\ Records(t, <<"SENT">>, TRUE)

\* sniff(): every frame of the list it collected, in order.
Sniff(t) == Calls(t) /\ \E k \in 1..MaxSessionFrames :
                            Records(t, [i \in 1..k |-> "RECEIVED"], FALSE)

\* srp1 ends with a reply, which is recorded, or without one.
Srp1(t) ==
    /\ thr[t].pc = "srp1"
    /\ \/ Records(t, <<"RECEIVED">>, FALSE)
       \/ /\ thr' = [thr EXCEPT ![t].pc = "idle"]
          /\ UNCHANGED <<env, fix, out, plot, runs>>

-----------------------------------------------------------------------------
(***************************************************************************)
(* NetworkInterface._record, one step per lock.                            *)
(***************************************************************************)
\* The file a frame is appended to: open_pcap() empties it, and is called
\* when there is no writer, before the first frame or after close().
Opened == IF fix.pcap = "none" THEN <<>> ELSE out.file

RecordPcap(t) ==
    /\ thr[t].pc = "pcap"
    /\ thr' = [thr EXCEPT ![t].pc = "debug"]
    /\ IF "capture" \in env.opts
       THEN /\ out' = [out EXCEPT !.file = Append(Opened, Head(thr[t].queue)),
                                  !.captured = @ + 1]
            /\ fix' = [fix EXCEPT !.pcap = "open", !.late = @ \/ TearingDown]
       ELSE UNCHANGED <<out, fix>>
    /\ UNCHANGED <<env, plot, runs>>

\* log_packet(): the number is taken before the write, which raises on a
\* closed file and ends the call.  Otherwise the event for the sinks is made,
\* and stamped, before their lock is taken.
NextFrame == out.frameNo + 1

RecordDebug(t) ==
    LET line  == [frame |-> Head(thr[t].queue), number |-> NextFrame]
        out1  == IF fix.logger = "none" THEN out
                 ELSE [out EXCEPT !.frameNo = NextFrame,
                           !.trace = IF fix.logger = "open" THEN Append(@, line) ELSE @]
    IN  /\ thr[t].pc = "debug"
        /\ \/ /\ fix.logger = "closed" /\ out' = out1
              /\ thr' = [thr EXCEPT ![t] =
                            [@ EXCEPT !.pc = "idle", !.queue = <<>>, !.asking = FALSE]]
           \/ /\ fix.logger # "closed" /\ out' = [out1 EXCEPT !.clock = @ + 1]
              /\ thr' = [thr EXCEPT ![t] = [@ EXCEPT !.pc = "sink", !.stamp = out.clock + 1]]
        /\ UNCHANGED <<env, fix, plot, runs>>

\* The writer drops what comes after its close().  Then the call goes on with
\* the next frame, with srp1, or returns.
Drops_WhenContended(w) == w = "closed" \/ \A t \in Threads : thr[t].pc = "sink"
Drops(w) == w = "closed"

RecordSink(t) ==
    LET rest == Tail(thr[t].queue)
    IN  /\ thr[t].pc = "sink"
        /\ out' = IF fix.writer = "none" \/ Drops(fix.writer) THEN out
                  ELSE [out EXCEPT !.events =
                            Append(@, [frame |-> Head(thr[t].queue), at |-> thr[t].stamp])]
        /\ thr' = [thr EXCEPT ![t] = [@ EXCEPT !.queue = rest, !.asking = FALSE,
                       !.pc = IF rest # <<>> THEN "pcap"
                              ELSE IF thr[t].asking THEN "srp1" ELSE "idle"]]
        /\ UNCHANGED <<env, fix, plot, runs>>

-----------------------------------------------------------------------------
(***************************************************************************)
(* The parent: the runner's reader, MetricsBuffer and the window.          *)
(***************************************************************************)
\* deque(maxlen=max_points).append.
Push(q, v) == IF Len(q) < MaxPoints THEN Append(q, v) ELSE Append(Tail(q), v)

\* add(): the counters of the event's direction, then one sample per deque.
Counted(total, f) ==
    [s \in Counters |->
        total[s] + CASE s = "sent"          -> IF f.direction = "SENT" THEN 1 ELSE 0
                     [] s = "bytesSent"     -> IF f.direction = "SENT" THEN SizeBytes(f) ELSE 0
                     [] s = "received"      -> IF f.direction = "SENT" THEN 0 ELSE 1
                     [] s = "bytesReceived" -> IF f.direction = "SENT" THEN 0 ELSE SizeBytes(f)]

Unread == plot.read < Len(out.events)

Add ==
    LET event == out.events[plot.read + 1]
        start == IF plot.start = 0 THEN event.at ELSE plot.start
        total == Counted(plot.total, event.frame)
    IN  /\ Unread
        /\ plot' = [read |-> plot.read + 1, start |-> start, total |-> total,
                    window |-> [s \in Series |-> Push(plot.window[s],
                        IF s = "elapsed" THEN event.at - start ELSE total[s])]]
        /\ UNCHANGED <<env, fix, thr, out, runs>>

\* The next run of the window, when the last one's events have all been read:
\* clear(), and a new subprocess with new files.
StartRun ==
    /\ runs < MaxRuns /\ fix.phase = "over" /\ plot.read = Len(out.events)
    /\ runs' = runs + 1 /\ plot' = Cleared(plot)
    /\ env' \in Env /\ fix' = NewFixture(env') /\ thr' = IdleThreads /\ out' = NoOutput

\* The process is over; the operator need not start another run.
Done == fix.phase = "over" /\ UNCHANGED sessionVars

-----------------------------------------------------------------------------
SessionNext ==
    \/ SetupRaises \/ OpenWriter \/ StartGuard \/ OpenInterface
    \/ CloseInterface \/ CloseWriter \/ StopGuard \/ Unconfigure
    \/ \E t \in Threads : \/ Send(t) \/ SendReceive(t) \/ Sniff(t) \/ Srp1(t)
                          \/ RecordPcap(t) \/ RecordDebug(t) \/ RecordSink(t)
    \/ Add \/ StartRun \/ Done

SessionSpec == SessionInit /\ [][SessionNext]_sessionVars

-----------------------------------------------------------------------------
(***************************************************************************)
(* Properties.                                                             *)
(***************************************************************************)
Frames(records) == [i \in DOMAIN records |-> records[i].frame]
AllIdle == \A t \in Threads : thr[t].pc = "idle"

\* What a run keeps of its frames.
Kept == (IF "capture" \in env.opts THEN {out.file} ELSE {})
        \cup (IF "debug" \in env.opts THEN {Frames(out.trace)} ELSE {})
        \cup (IF "events" \in env.opts THEN {Frames(out.events)} ELSE {})

\* The places of thread t's frames; those frames are its first k, each once
\* and in order.
Of(t, s) == {i \in DOMAIN s : s[i].by = t}
Ordered(t, s) == \A i, j \in Of(t, s) : i < j => s[i].n < s[j].n
FirstOf(t, s, k) == Ordered(t, s) /\ {s[i].n : i \in Of(t, s)} = 1..k

\* Every variable has its type, and no file holds a frame that was not handled.
SessionTypeOK ==
    /\ env \in Env /\ runs \in 1..MaxRuns
    /\ fix.phase \in {"configured", "written", "guarded", "up", "ifaceClosed",
                      "writerClosed", "closed", "over"}
    /\ {fix.guard, fix.writer, fix.logger} \subseteq {"none", "open", "closed"}
    /\ fix.pcap \in {"none", "open"} /\ fix.broken \in BOOLEAN /\ fix.late \in BOOLEAN
    /\ \A t \in Threads : /\ thr[t].pc \in {"idle", "pcap", "debug", "sink", "srp1"}
                           /\ thr[t].queue \in Seq(Frame)
                           /\ thr[t].made \in 0..MaxSessionFrames
                           /\ thr[t].pc \in {"pcap", "debug", "sink"} <=> thr[t].queue # <<>>
    /\ out.file \in Seq(Frame) /\ Frames(out.trace) \in Seq(Frame)
    /\ Frames(out.events) \in Seq(Frame)
    /\ plot.read \in 0..Len(out.events)
    /\ \A s \in Series : Len(plot.window[s]) <= MaxPoints

\* Whatever the threads' interleaving, while the interface is up and no call is
\* running the capture, the debug log and the live-events file hold the same
\* frames, and those of one thread in the same order.  At any time captured_count is the number of
\* frames in the capture, each of them there once, until a frame is recorded
\* after close() (which empties the file), and the debug log numbers its lines
\* 1, 2, 3, ... with no gap.
RecordsAgree ==
    /\ SessionTypeOK
    /\ AllIdle /\ fix.phase = "up" =>
        /\ \A a \in Kept, t \in Threads : FirstOf(t, a, thr[t].made)
        /\ \A a, b \in Kept : Range(a) = Range(b)
    /\ IsInjective(out.file)
    /\ IF fix.late THEN out.captured >= Len(out.file) ELSE out.captured = Len(out.file)
    /\ \A i \in DOMAIN out.trace : out.trace[i].number = i

\* A session that was set up and torn down without an error leaves nothing
\* open: not the handle that keeps diverting the host's segments, and not the
\* capture file, unless a frame came late.
TeardownReleases ==
    fix.phase = "over" /\ ~fix.broken =>
        /\ "open" \notin {fix.guard, fix.writer, fix.logger}
        /\ fix.pcap = "open" => fix.late

\* What the plot draws is the end of this run's cumulative curves: the five
\* deques have dropped the same samples, and hold none of the run before.
SentUpto(k) == Cardinality({i \in 1..k : out.events[i].frame.direction = "SENT"})
Curve(s, k) == CASE s = "elapsed"       -> out.events[k].at - out.events[1].at
                 [] s = "sent"          -> SentUpto(k)
                 [] s = "received"      -> k - SentUpto(k)
                 [] s = "bytesSent"     -> SentUpto(k)
                 [] s = "bytesReceived" -> 2 * (k - SentUpto(k))
PlotIsTail ==
    LET dropped == IF plot.read > MaxPoints THEN plot.read - MaxPoints ELSE 0
    IN  \A s \in Series : plot.window[s] =
            [i \in 1..(plot.read - dropped) |-> Curve(s, dropped + i)]
=============================================================================
