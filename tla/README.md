# TLA+ models of the network stack test suite

This directory holds a TLA+ development about the *tool*, not about the devices
it tests: how a run is configured, launched, watched, stopped and recorded by its
two front ends, which test bodies run and against what, how packets are recorded,
how the suite plays its part of a TCP or proxy conversation, and how its helper
threads are started and released. TLC checks the models on small instances; TLAPS
proves all but one of the safety properties, and the refinements, for every value of
the constants: any set of tests, any number of runs, starts, connections, frames or
interrupts, any reply of a proxy, any sequence numbers, and every choice of faults.

Paths below are relative to the repository root (`src/runner.py` is the file
`runner.py` of the package `src`).

## 1. Inventory

| component | state it keeps | operations | hard behaviour |
|---|---|---|---|
| CLI run pipeline: `runner.py`, `cli/main.py run`, `run_artifacts.py` | the `TestRunResult`, two file offsets, the `Popen` object, the try/except/finally it is in | create directory, launch, poll, drain, terminate, wait, save, exit | tailing files another process is writing; Ctrl+C at any statement; a callback that raises; a failing save |
| report-log parsing: `parse_report_log_line`, `drain_*`, `read_new_lines`; `reporting/collector.py` writes the packet lines | the verdict of each node id | parse, upsert, append | torn lines, lines re-read after an exception, three phases per test |
| GUI run: `gui/run_controller.py`, `gui/main_window.py` | result, offsets, `_stopping`, `QProcess`, timer, button states, the status pill | run, poll, stop, finished, error, close | slots in any order; a process that has ended before Qt says so; several runs in one window |
| echo backend: `proxy/backend.py`, owned by `proxy-serve` and `gui/proxy_panel.py` | `_stop`, two sockets, `_threads`, counters | start, stop, accept, receive, echo | bind failing half-way; threads appended while `stop()` walks the list; joins that time out; restart |
| proxy client: `proxy/client.py`, `handshakes.py`, `tunnel.py`, `config.py` | one socket, what the DUT answered | connect, handshake, roundtrip, half-close, read to EOF, close | a peer that fragments, refuses, falls silent or hangs up; the relayed stream right behind the reply |
| traffic inducer: `proxy/inducer.py` | thread, stop event, tallies | start, stop, loop with back-off | a join that gives up, then a restart: two loops and one event |
| interface and sinks: `packet_engine/interface.py`, `pcap.py`, `utils/debug_log.py`, `reporting/collector.py` | pcap writer, counts, sinks | send, send_receive, sniff, record, close | several threads; a record after close |
| recorder: `packet_engine/recorder.py`, `cli record` | writer, sniffer, count | start, handle, join, stop | the sniffer thread against the closing of the writer; Ctrl+C anywhere, outside the try statements too; a full disk |
| session glue: `conftest.py`, `tests/*/conftest.py`, `collection_policy.py`, `utils/safety.py` | options, fixtures | skip, authorize, open, close | fixture order; the safety gate; fixtures that the host or the DUT fails |
| topology: `config.py` and its three users; `packet_engine/preflight.py`, `utils/permissions.py` | leg, role, address, port | resolve, check, forward, resolve again | the two resolutions have to agree |
| test tree: `gui/test_tree_widget.py` | a check state per node | click, cascade, roll up, targets | any sequence of clicks |
| responder, sequence tracker: `packet_engine/responder.py`, `sequence.py` | seq, ack | serve a handshake or an echo | wrap at 2^32, unrelated packets, the gap between two sniffs |
| live metrics: `plotting/metrics.py` | five bounded deques | add, snapshot, clear | the bound; one run after another |
| packet builders, payloads, custom packets, target profiles, catalog, reports, charts, theme, widgets, paths, errors | none, or constants | construction and rendering | none a model would show |

How they interact: a front end resolves the topology, builds the argument list
and launches **pytest as a subprocess**. The two processes share nothing but
three things: `report_log.jsonl` (written by pytest), `packet_events.jsonl`
(written by the interface's sink inside pytest) and the exit code. Both front
ends use the same tailing and parsing functions, the CLI in a blocking loop, the
GUI in a timer slot. `results.json` is written once, at the end, by
`finalize_run`. The proxy tests need a second instance running the echo backend.

What makes each part correct: the verdicts shown and saved are exactly what
pytest reported, worst phase first, whatever the timing; an exit status of 0 or a
green pill means a clean run; interrupting a run neither loses it nor leaves a
child behind; buttons say what is possible; `stop()` releases what `start()`
took; counters are final when they are printed; no vuln test runs against an address
that was not authorized, and the subprocess aims where the front end said; a handshake
takes nothing from the stream behind it; every record of the packets is the same record.

## 2. Modules

| module | models | kind |
|---|---|---|
| `ReportLog` | `parse_report_log_line`, `_SEVERITY`, the upsert of `drain_test_events`; the reference definition `WorstOver` | operators |
| `PytestChild` | the subprocess: two growing files, torn lines, exit codes; `read_new_lines` | state and actions, shared |
| `StreamRun` | `stream_run`, `run_tests`, `finalize_run`, `_emit_results` | specification |
| `RunController` | `RunController` and the run part of `MainWindow` | specification |
| `RunLifecycle` | what a run promises, front end left open | abstract specification |
| `EchoBackend` | `EchoBackend`, owned as `ProxyBackendPanel` owns it | specification |
| `ProxyTunnel` | `ProxyClient`, the three handshakes, the wire formats | specification |
| `TunnelClient` | what a proxy client promises of its socket | abstract specification |
| `TrafficInducer` | `TrafficInducer` and its owner, over `TunnelClient` | specification |
| `PacketRecorder` | `PacketRecorder` and the `record` command | specification |
| `TcpPeer` | the responders, `TCPSequenceTracker`, `established_tcp_connection` | specification |
| `PacketSession` | the `network_interface` fixture, `NetworkInterface`, its sinks, `MetricsBuffer` | specification |
| `RunSetup` | both front ends from the form to the arguments, `conftest.py` from the arguments to the bodies | specification |
| `PytestChildProofs` | lemmas about the log files and the merging of verdicts, shared by the next two | proofs |
| `StreamRunProofs`, `RunControllerProofs` | theorems about the two front ends' runs | proofs |
| `EchoBackendProofs`, `ProxyTunnelProofs`, `TrafficInducerProofs`, `RunSetupProofs` | theorems about the module each is named after | proofs |
| `PacketEngineProofs` | theorems about `TcpPeer`, `PacketRecorder` and `PacketSession` | proofs |
| `MC...` | the sets the configurations use | TLC |

How they compose: `StreamRun` and `RunController` both extend `PytestChild` (and through it
`ReportLog`) and both implement `RunLifecycle`. `ProxyTunnel` implements `TunnelClient`, and
`TrafficInducer` runs one `TunnelClient` per thread and is shown to use each as the abstract
specification allows. `RunSetup` ends where `StreamRun` and `RunController` begin, at the
launch; `PacketSession` is the subprocess's side of the packet file they tail.

### Correspondence with the code

**PytestChild.** A log is a sequence of lines and a flag that says the last one
has no newline yet. Every append takes two steps (fragment, newline), so a reader
can see any line half-written, and a process that dies in between leaves a
fragment for ever. Offsets are counted in lines instead of bytes: `read_new_lines`
only ever returns offsets at a newline. A line carries what the parser looks at:
node id, phase, outcome. pytest itself is external; it follows the runtest
protocol (setup; call if setup passed; teardown always), may end with 0, 1, 5
(whole selection run), 2 (collection or usage error, SIGINT) or be killed.

**StreamRun.** `pc` is the next statement, `stage` the block of the try statement.
Each drain is three kinds of step: read a batch, apply one line, return the
offset. So the child writes between any two lines of a batch, and an exception
can leave a batch half-applied with the offset not yet advanced, as in the code.
`Interrupt` is KeyboardInterrupt at any statement from the try on: in the loop it
runs the except block, in the except block (a second Ctrl+C) it goes to the
finally block, in the finally block it leaves it. `Faults` selects which failures
occur: "artifacts" (directory or output file), "launch", "callback" (the CLI's
`click.echo`), "save", "abort" and "crash" of the child. Simplifications: the
instant between `Popen` returning and the `try` is not interruptible;
an interrupt at the `yield`, which arrives as GeneratorExit, is treated like one
at the `sleep` after it; a `results.json` cut short while it is being written is
"not saved"; report rendering is left out, because `_emit_results` catches
everything it can raise.

**RunController.** All of it runs in one Qt event loop, so a slot is one action,
the slots it reaches through `emit` included; the drains are one step each.
What interleaves are clicks, timer, `finished` and the child. `EventSeq` is the list
`drain_packet_events` appends, given in closed form (the k-th event line is the one with
k - 1 event lines before it) so that it can be reasoned about without recursion. `process` is
`QProcess.state()`: it stays "running" after the child has ended until Qt delivers
`finished`, so Stop can be clicked on a process that is already gone.
`errorOccurred(FailedToStart)` is delivered inside `start()`, as the code's comment
says, so a failed launch is one action. `kill()` and the destruction of the
`QProcess` when the window is closed both end the child.

**EchoBackend.** The start number stands for the socket object, so that a thread
can hold a socket the owner has closed or replaced. Threads are the accept loop
and the UDP loop of each start, and one handler per connection; each step is one
blocking call or one update of shared state. `start()` and `stop()` are sequences of
steps. `join(timeout=2.0)` may give up on a live thread when "straggler" is among
the faults. A report carries its cause: "closed" if the owner closed the socket under
the loop, "fault" otherwise. The owner reads the counters for its closing summary after `stop()`, as
the panel does. `silent` is a history of the connections whose echo failed without a report.

**ProxyTunnel.** The stream from the DUT is a sequence of bytes and `recv()` hands over any
prefix of what has arrived. SOCKS5 messages have their real bytes; in an HTTP head CR and LF
are bytes and a status line is one symbol. `_recv_exact` is the pair `want`/`buf`: a read that
is not satisfied goes on, times out or finds the peer gone. Each `Decide...` action is what the
code does when a read is complete: check version and method, ask the next question, raise. The
DUT is external: it answers with one of `Replies`, labelled with what the DUT meant by it, so
that `OutcomeIsTrue` can compare the client's verdict with the DUT's. What a DUT can mean is
stated apart from the client (`HeadMeans`, `GreetingMeans`, `UserPassMeans`, `RequestMeans`: the
RFCs' reading of the whole message, where the client reads it a few bytes at a time), and
`DutAssumption` says that the labels are that reading and that nothing but the relayed stream
comes behind a whole message. `MaxHead` is the 64 KiB limit, `Chunk` is `RECV_CHUNK`.

**TrafficInducer.** Loop g is the thread of the g-th `start()`. One round is: check the event,
count the attempt, dial, handshake, round trip, count the result, back off, pause. The client is
reduced to what `TunnelClient` says; `RefusedHolds` is what `ProxyClient.connect`'s except clause
leaves. `stop()` joins for `max(2, timeout)` seconds, less than one round can take, so the join
may give up and leave `_thread` None with the loop alive.

**PacketRecorder.** The main thread is `record`: open the file, start the thread, enter the try, join
or sleep, `stop()`, the summary. It has a step for every stretch between two points at which Ctrl+C
makes a difference: `start()` is two steps before the try, `join()` and `stop()` are entered before
their own try is, `stop()` looks at `running` and then asks, and `_close_writer` closes and then
forgets, inside a finally clause that can itself be interrupted. `Interrupt` is enabled at all of
them, and says for each whether a finally clause still runs. `_handle` is four steps (read the
attribute, write, count, call the sinks) because the attribute is shared without a lock. The file may
not open, a write may fail on the open file, and what a failed write left in the buffer is tried once
more by `close()`, which may raise in turn. `AsyncSniffer` is external and modelled from what
`recorder.py` says of it: `running` is set by the thread before the socket is open, exceptions are
stored and raised again by `stop()` and `join()`. A Ctrl+C within one of these steps is taken for one
before or after it; one during `Thread.start()` is taken for one before it. A capture file left
unclosed is closed when the interpreter ends.

**TcpPeer.** `job` chooses the call: one of the three servers of `responder.py`, or the client side
built with the tracker. The modulus of the sequence numbers is a constant. A packet that arrives
when no sniff is open is not seen. The DUT is a conformant endpoint that protests (RST or ACK)
against what it cannot accept; other hosts' packets, and those of the DUT's other connections,
arrive too: any packet whatever, but none with the source host and port of the DUT's end of this
connection (`PeerAssumption`). One that reaches a waiting `send_receive` is ignored (`IgnoresOther`).

**PacketSession.** The fixture's setup and teardown in order (writer, guard, interface; interface,
writer, guard; the debug logger last); `_record` as three steps, one per lock, on the test thread
and on a background thread; the parent reads the events and adds them to `MetricsBuffer`. Frames
sent have size 1 and received ones size 2, so that the byte curves differ from the packet curves. A
record that cannot be written raises out of `_record` and fails the test; that is not modelled.

**RunSetup.** A form is what the operator gave; `Forms` is restricted to what each surface can
express. `Resolved` is `resolve_role` and `resolve_leg_target`, applied once by the front end to the
form and once by the subprocess to the arguments `Launch` emitted. Addresses are names, a range is
the set of names it covers, a malformed range raises when it is reached. Tests are a table of
roles, markers and fixtures, the tree is a parent function. `Causes` is the set of reasons for which
a test is turned away before its body: what its fixtures, and those set up for every test, check of
the configuration, and what the host and the DUT do to them. The latter are part of a form
(`faults`): no RST guard or event log (`network_interface`, `conftest.py:286-299`), no address
(`local_ip`, `local_mac`), which fail once for the session; a handshake without a SYN-ACK
(`established_tcp_connection`), a tunnel refused (`proxy_client`) or no port left
(`closed_origin_port`), which may fail for any of the tests that request them (`unlucky`). `Outcome` puts
these in pytest's order, with the skip of a tunnel test in another mode (`_require_mode`) between those
of the session and the test's own. A test that carries a skip mark of its own (there is one) is left
out. Which run directory and process this leads to is in `StreamRun` and `RunController`.

**RunLifecycle.** A run is opened, its log grows, verdicts shown are at every moment
the worst-wins reading of *some prefix* of the log and never improve, and it is
closed once, with a record of the verdicts as they stand or with none. It allows a
front end to lag behind, to stop early and to lose the record; it does not allow a
verdict that no prefix explains, a verdict of another run, or a record that differs
from what was shown last.

## 3. Runs

| run | instance | what it shows |
|---|---|---|
| `StreamRun` | 1 test, 2 packet lines (some unparseable), all faults, 2 interrupts; 836 085 states | `VerdictsFaithful`: verdicts cover every consumed line and none is invented. `SavedVerdictsComplete`, `PacketsExact`: a record with a return code is missing nothing, and without an exception every packet event is there once and in order. `ExitZeroIsClean`. `OnlyForward`. `IInv`, the invariant of the proofs. `ImplementsLifecycle`. |
| `StreamCtrlC` | 1 test, 2 packet lines, child faults, 1 interrupt; 141 340 states | `InterruptIsHandled`: the child is told to stop, and what was collected is saved if the interrupt landed in the polling loop and the child heeded its SIGTERM; and two liveness properties: the command ends once the child has (`ChildExitEndsRun`), and once Ctrl+C was pressed even if the child never does (`InterruptEndsRun`). |
| `GuiRun` | 2 tests, 1 packet line, 2 runs, all faults; 947 138 states | buttons, timer and process agree and no run overlaps the next (`ButtonsTellTheTruth`), `results.json` is this run's whole log and carries only pytest's own code (`SavedIsThisRun`), the green pill and the green footer are for a run without failures (`GreenIsClean`), `ImplementsLifecycle`, and Stop frees the window (`StopFreesWindow`). |
| `EchoBackend` | 2 starts, 1 connection, 1 chunk, UDP, all faults, the panel as owner; 729 748 states | `StopReleasesEverything` after any half-failed start; `DeathIsReported`, and `stop()` itself is quiet; `ShortfallIsExplained`: at every moment each chunk not echoed is in progress, reported, or failed in silence with the stop event set, which none did before the first stop, and the closing summary is final; `StopQuiesces`. |
| `ProxyTunnel` | every mode, with and without credentials; 2 relayed bytes; replies of every length the formats know, refusals, and replies wrong in one place | `StreamIntact`: the handshake takes exactly the reply, and an empty read to EOF means the peer closed. `OutcomeIsTrue`: success and refusal are what the DUT decided. `ImplementsTunnelClient`. `ConnectEnds`. |
| `TrafficInducer` | 3 starts, 3 attempts, back-off after 2 failures, joins that give up; 63 565 states | `AttemptsAccounted` with two loops counting at once; `StopReleases`; `ImplementsTunnelClients`; `StopQuiesces`. |
| `PacketRecorder` | 4 frames, 2 interrupts, bounded or not; a file, socket, write or close that fails; 3 283 states | `ReportIsExact`: a printed "Wrote N" is what the closed file holds, and a command that has ended leaves the writer open only after a Ctrl+C that came before the try or was a second one. `DeathIsExplained`: the sniffer dies of the socket, of the disk or of a writer closed by Ctrl+C, never of a sink. `StopEnds`. |
| `TcpPeer` | numbers modulo 4, every initial number, 2 segments a side, 1 stranger's packet, loss | `InStep`: a conformant DUT never has a reason to reject a segment, the final RST included. `HandshakeSeen`: a completed handshake is missed only if its ACK was lost or fell into the gap. |
| `PacketSession` | 2 threads, 2 frames each, 2 runs, 3 points; 746 000 states | `RecordsAgree`: capture, debug log and events file hold the same frames. `TeardownReleases`. `PlotIsTail`: the plot is the end of this run's curves. |
| `RunSetup` | 5 tests in a tree, five families of settings, 2 runs; 72 681 states | `ChildAgrees`: the subprocess arrives at the configuration the front end resolved. `VulnIsAuthorized`: no vuln body runs unless it was confirmed and the address really used lies in a given range. `DirectionIsRight`. `SelectionIsExact`: after any clicks. `PreflightIsEnough`: among the reasons for which any fixture turns a test away after the preflight there is never the target, the privileges or the back leg's topology; and the warnings are exact. |

Two runs are expected to find a violation, each of a sentence of the code
(`PROJECT.json`, "findings"):

| run | what TLC shows |
|---|---|
| `StreamCrashExit` | pytest is killed by a signal: its return code is negative, `errored` (`>= 2`) is false, and the CLI exits 0 after part of the selection. |
| `ServeFalseAck` | `serve_tcp_handshake` returns the FIN of an earlier connection, or another host's segment, as the final ACK of a handshake the DUT has not completed: its second filter looks at neither source nor RST and FIN. |

### Seen while modelling, without a run of its own

The CLI's run: a progress callback that raises (a closed pipe) runs the finally block and
leaves pytest sending frames with nothing watching it, against the comment at
`runner.py:355`; Ctrl+C during the final drain leaves no `results.json`, although the finally
block's comment says "persist, on every path" (`runner.py:363-366`) and the CLI says partial results
were saved; packet events of a batch cut short by an interrupt are recorded twice; `reproduction_command`
always says `--role client`.

The window: when every selected test was skipped the pill is "All N selected tests passed"
(`main_window.py:587`) and the log "Everything selected was skipped" (563-567), although the two
"cannot disagree" (573-576); the footer is green for a stopped or crashed run that reported no failure; closing the window during a run leaves no `results.json`; the early
returns of `_on_run_clicked` leave the pill at "Preflight…"; the GUI never writes
`pytest_output.log`, which `_on_finished` points to; the export dialog runs an event loop of its
own, so a run that finishes meanwhile is written to the path proposed for the one before.

Setting up: `back_leg_requirement_error` accepts an explicit mode without a proxy host, which then
fails in the setup of every test; `run --payload-mode custom` can never supply the bytes;
`--submodule` without its module names a directory that does not exist; the GUI does not
validate ranges before the run; its "will be SKIPPED" warning is wrong for proxy tests, which the
policy never filters by role; an unsupported host raises through `run_preflight` and reaches the
GUI's excepthook; an `IsUserAnAdmin` that keeps failing would relaunch again and again, despite
"no relaunch loop" (`permissions.py:116`).

Packets: a frame recorded after `close()` reopens and truncates the capture; a setup that fails
after the writer was opened leaks it; a `close()` of the capture that raises skips the writer and
the guard; `_elapsed` may run backwards with two recording threads; the guard's loop ends
silently on any OSError.

The backend: `is_serving` stays true after the accept loop died as long as any thread lives. An echo
that fails once the stop event is set is not reported (`backend.py:183-184`), so the summary's echoed
bytes are short "in silence" (237-239) although `stop()` closes no connection and did not cause it.
`proxy-serve` reads its counters before it calls `stop()` (`cli/main.py:528-539`), so that a
connection accepted in between is reported as none received, with exit status 1.

The recorder: when the disk is full the write escapes `_handle` (`recorder.py:112`), in which "nothing
may raise" (96), and ends the sniffer thread, while an unbounded `record` waits on. Ctrl+C between
the opening of the capture and the try of `record`, or a second Ctrl+C, ends the command with the
writer not closed; each frame was flushed.

### Bounds

One test has up to three report lines, which is what the merge is about; the upsert
treats node ids independently, and the theorems hold for any set. Two packet lines
give an order and a cut between them. Two interrupts are what it takes to reach the
finally block through the except block twice. Two GUI runs let one inherit from the
other. Two starts of the backend, one connection and one chunk give every race of
`stop()` with an accept and an echo, and a straggler from an earlier start.

`ProxyTunnel` relays two bytes out of CR and LF, the ones a head could swallow, and limits the head
to 9 bytes so that the limit is reached. Three starts of the inducer let a straggler of the first
meet the third. A sequence space of 4 makes every exchange wrap; the tracker's arithmetic is the
same for any modulus larger than what is in flight, which `PeerAssumption` states. Two frames a
thread give two orders in each record, and three points with four frames make the deques drop.
Two interrupts let the second one land in what the first started, which is where the recorder's
writer can stay open. The settings of `RunSetup` are five families (where a run is aimed, whether it
is authorized, whether it can start, which tests it is for, which fixtures fail), each varied in full, rather than their product:
the families meet only in `Launch`, which passes each of them on unchanged.

### Fairness

`StreamRun` assumes weak fairness of the parent's own steps only: it is a running
program and none of its calls blocks for ever (the wait has a timeout). Nothing is
assumed of pytest. `RunController` assumes that the operating system delivers a kill
and that Qt delivers `finished`; not that pytest ends, nor that the timer fires.
`EchoBackend` assumes only that some thread that can run does run, and that `stop()`, once
called, goes on; every blocking call of a thread has a 0.5 s timeout, which is why `LoopTimeout`
is always possible. `ProxyTunnel` assumes the client's own steps, timeouts included, and nothing
of the DUT. `TrafficInducer` assumes that its threads are scheduled and that a join returns; that
each round ends is `ConnectEnds`. `PacketRecorder` assumes both of its threads. `TcpPeer`,
`PacketSession` and `RunSetup` state safety only. Nobody is obliged to call `start()` or `stop()`, to
connect, to send or to click. Deadlock is checked in every run but `RunSetup`, whose runs simply
end; elsewhere the only states without a successor step of the system are the finished
ones, which have an explicit stuttering action.

## 4. Proofs

Every theorem holds for all values of the constants that satisfy the module's `ASSUME`, which says
no more than their types and that bounds are natural numbers, except for three:

- `SetupAssumption`: a form is one its surface can express, the tests are nodes of the tree, and
  only proxy tests request the fixtures `socks5_config` and `http_connect_config`.
- `DutAssumption` of `ProxyTunnel`: the label of a reply is what the RFCs make of its bytes, and
  nothing but the relayed stream follows a whole message. A reply may be wrong in any way and cut
  anywhere. `InvariantHolds` and the two theorems from it use this; `ClientRefines` does not.
- `PeerAssumption` of `TcpPeer`: the data of either side, `MaxData * MaxLen`, is smaller than the
  sequence space (a TCP window never is as large), and nobody forges the DUT's end of the
  connection.

Each inductive invariant was checked by TLC on the instance of the module's run before it was
proved.

| module | theorem | states |
|---|---|---|
| `StreamRunProofs` | `InvariantHolds`, `TypeCorrect` | `IInv`, `TypeOK` |
| | `VerdictsAreFaithful`, `SavedVerdictsAreComplete` | `VerdictsFaithful`, `SavedVerdictsComplete` |
| | `ExitZeroMeansClean`, `RunOnlyMovesForward` | `ExitZeroIsClean`, `OnlyForward` |
| | `PacketsAreExact`, `InterruptHandled` | `PacketsExact`, `InterruptIsHandled` |
| | `StreamRefines` | `ImplementsLifecycle` |
| `RunControllerProofs` | `ButtonsAreTruthful`, `SavedIsExact`, `GreenMeansClean` | `ButtonsTellTheTruth`, `SavedIsThisRun`, `GreenIsClean` |
| | `ControllerRefines` | `ImplementsLifecycle` |
| `EchoBackendProofs` | `StopReleasesAll`, `DeathsAreReported`, `ShortfallsAreExplained` | `StopReleasesEverything`, `DeathIsReported`, `ShortfallIsExplained` |
| `ProxyTunnelProofs` | `OutcomesAreTrue`, `StreamsIntact` | `OutcomeIsTrue`, `StreamIntact` |
| | `ClientRefines` | `ImplementsTunnelClient` |
| `TrafficInducerProofs` | `AttemptsAreAccounted`, `StopLeavesNothing` | `AttemptsAccounted`, `StopReleases` |
| | `LoopsImplementClients` | `ImplementsTunnelClients` |
| `PacketEngineProofs` | `AlwaysInStep`, `HandshakeAlwaysSeen` | `InStep`, `HandshakeSeen` |
| | `ReportExact`, `DeathExplained` | `ReportIsExact`, `DeathIsExplained` of `PacketRecorder` |
| | `TeardownAlwaysReleases` | `TeardownReleases` of `PacketSession` |
| | `RecordsAlwaysAgree`, `PlotAlwaysTail` | `RecordsAgree`, `PlotIsTail` |
| `RunSetupProofs` | `ChildAlwaysAgrees`, `VulnAlwaysAuthorized` | `ChildAgrees`, `VulnIsAuthorized` |
| | `DirectionAlwaysRight`, `PreflightSuffices` | `DirectionIsRight`, `PreflightIsEnough` |

Each of these modules also has an `InvariantHolds` for its inductive invariant;
`PacketEngineProofs` has two of them, `PeerInvariantHolds` and `RecorderInvariantHolds`. It extends
three modules, which is why `PacketRecorder` and `PacketSession` call their specifications
`RecorderSpec` and `SessionSpec`: no two of the three define the same name.

### The arguments

**The log files** (`PytestChildProofs`). A torn line is only ever the last one and completing it
never shrinks the log (`TornOK`); every step of the child only extends the logs, and a child that
has ended writes no more. About the merge: `UpsertLemma` and `WorsensCovers` carry the reasoning
about severities, and `WorstOfUnique` shows that a verdict that is among those the log carries and is
worsened by none of them is *the* one `WorstOver` chooses. So the upsert in any order of lines is the
reference definition.

**The CLI's run.** `VerdictsFaithful` is not inductive. That a step covers the line it applies
needs the batch to lie within the complete lines (`OffsetsOK`), which needs `TornOK`. That a *saved*
record is complete needs `FinalDrainOK`: a return code is only known of a child that has ended, so
nothing is appended any more, and from that moment the drain that is under way was started
afterwards and reaches the end of the log. This is where the order "poll, then a second drain"
matters, and also why a saved record *without* a return code (the wait timed out, a callback
raised) promises less. `ControlOK` ties each statement to its block of the try statement.
`PacketsExact` needs the same argument for the second file, plus the fact that without an exception
the events in memory are exactly those before the offset, counting the batch that is half applied.

`InterruptHandled` has a hypothesis: no progress callback raises (`"callback" \notin Faults`). It is
needed, and is the first thing described in section 3 as seen while modelling: after a callback has raised, the finally block
runs with the child alive, and a Ctrl+C there ends the command without any SIGTERM. `StreamCtrlC`
checks the property under the same restriction.

`StreamRefines` maps the concrete run to `RunLifecycle`: the abstract log is the complete part of the
report log, the verdicts are those in memory, the record is `results.json`. The prefix that explains
the verdicts after each step is the one up to the line just applied; after an exception, when lines
are read a second time, it is the furthest one ever reached.

**The window.** A slot is one step, so the result in memory is at every moment exactly the reading of
the lines up to the offsets (`ResultOK`). `HeldOK` says that a process that is held has not been
stopped, recorded or declared green yet, which is what keeps the second run's record free of the
first one's; `FreshOK` covers the window before its first run. `EventSeqLemma` shows that the closed
form of the events' list is the list: ranks are an injection of a finite set into an interval of the
same size, hence onto.

**The backend.** `ListedOK` is the heart: unless a join has timed out, every live thread is in the list
*behind* the point `stop()` has walked to, or is a connection whose accept loop is about to append
it. It survives an append during the walk because the list only grows at its end and because the
accept loop is itself in the list until it has ended. `SocketsOK`, `OwnerOK` and `BornOK` say what a
half-done `start()` or `stop()` has taken and released. `QuietOK` is what the next `start()` may rely
on. `DeathIsReported` needs `HeldOpen`: no loop has its socket closed under it before `stop()` has set
the event, so that an error the loop reports is a fault, and an error during `stop()` is not reported.
`ShortfallIsExplained` needs the counting equation `EchoesOK`, received = echoed + being echoed +
reported + silent, for the connections of all the starts together.

**The proxy client.** Neither `OutcomeIsTrue` nor `StreamIntact` is inductive: they speak of the end
of a handshake. `TunnelInv` says where in the DUT's reply the client is at every moment before.
`Reading(b, off)`: the read in progress started at byte `off` of the reply `b`, the buffer is
`b` from there on, and what is on the wire and still owed is the rest of `b` followed by the relayed
stream, so no read may reach beyond a reply that grants. `ReplyStage` ties `off` to the stage: 0,
4, 5 behind a domain's length byte, and the address the RFC computes when the port is read, which
is why the port's two bytes are exactly the end. `ReadingHead` does the same for the head that
is read byte by byte: while `HeadComplete` is false the client has not passed the first empty line,
and by `DutAssumption` there is no other. A reset loses what was in transit and nothing else, which
`Reading` excepts; then the stage can only fail. The steps of the DUT (answer, send, relay,
close) move bytes from `owed` to `wire` and append at the end, and `CanTake`/`TakesNext` state once
what taking k bytes off the front leaves.

**The refinement of the client, and the inducer.** `SocketOK`: a socket is held exactly while
connecting or connected. The four ways out of a stage of the handshake (`HandshakeExits`) are then the abstract
client's steps, whatever the DUT answers, so the refinement needs no assumption on `Replies`. The
inducer's loops are clients of the same abstract specification (`ClientsOK`). `AttemptsAccounted`
rests on counting the attempts in flight: a step of a loop starts one, ends one or leaves them
(`CountInFlight`). `OneOwned` says that of the loops no join gave up on only the current thread can be
live.

**The peer.** `PeerInv` has a part per call. For a TCP responder (`ServeOK`): it answers once, what
it answers is the SYN the DUT is waiting with, and once the DUT has established the connection its
final ACK is in flight until the second sniff returns it, unless it was lost or came between the two
sniffs; that is `HandshakeSeen`. For the client (`ConnectOK`, as long as nothing is lost): `Chain`
says that the segments on their way to the DUT take up the sequence space without a gap from what the
DUT expects next to what the tracker has next. Whether the DUT also accepts their acknowledgements is
a matter of order, and numbers that wrap have none. So `OrderOut` and `OrderIn` compare distances
from `una`, the last number acknowledged (`Past`): the acknowledgements in flight, then the tracker's,
then the DUT's segments in flight, up to what it sent. When the DUT takes an acknowledgement `una`
moves and all distances shrink by the same amount (`DistRebase`), and no distance comes round
because all of them stay below `MaxData * MaxLen`, which is below the modulus.

**The session.** What a step of the tear-down has closed stays closed unless a step raised, and only a
frame that comes late opens the capture again (`ClosedOK`). This is for any environment and any
number of runs and points.

**The records.** `RecordsAgree` compares the capture, the debug log and the live-events file when no
call is running; in between they differ, because `_record` takes one lock after the other. What
holds at every step is in terms of where each thread is: while the interface is up, a record holds
of thread t exactly its first frames, as many as t has taken past that record's step (`ToFile`,
`ToTrace`, `Recorded`; `HeldOK`), and what t has still to record are the next numbers in order
(`RowOK`). When all are idle the three counts are the number of frames handled. Two records with the
same numbers of the same threads hold the same frames because no two frames known to the session have
the same number (`KnownOK`). `PhaseOK` says that what was asked for stays open as long as the interface
is up, so that nothing is dropped; before that nothing is written. `FileOK` holds at any time, also
after a late frame has emptied the capture: each thread's frames are in order, so none is there
twice.

**The plot.** `PlotOK` ties the counters and the clock's start to the events read so far. Appending an
event to a full window and dropping the oldest gives the last samples of a curve that is one sample
longer (`PushLast`), for all five windows from the same place; events written meanwhile change
no sample already drawn (`CurvesStay`).

**The recorder.** `FramesOK` orders writing before counting, `WriterOK` and `CallsOK` follow the writer
and the method in progress through every interrupt, `RunningOK` the sniffer's flag, and `JoinedOK`
says who may still run when `stop()` is done with the sniffer. Only together do they give the number
printed. `StoredOK` says which exceptions the sniffer can have stored and the command can be carrying;
`DeathIsExplained` rests on it, and a write to a closed file on `WriterIsClosed`: only an interrupt
lets the main thread close the file while the sniffer runs.

**The set-up.** `ResolvedAgain`: resolving is idempotent, so the arguments of a resolved configuration
resolve to it again, whatever the leg. `ConfigOK`, `LaunchOK` and `AgreedOK` carry this from the form
to the subprocess; with them the safety gate, which looks at the subprocess's address, speaks about
the address the operator authorized. `CheckedOK` says what is known once the front end has checked,
and `PreflightIsEnough` follows from it cause by cause, because the subprocess looks at the same
configuration again; the host's and the DUT's own failures are causes of their own and excepted by
name.

### Only model-checked

- Liveness (`ChildExitEndsRun`, `InterruptEndsRun`, `StopFreesWindow`, `StopQuiesces`, `ConnectEnds`,
  `StopEnds`): fairness and ENABLED are out of the prover's reach.
- `SelectionIsExact` of `RunSetup`: what a cascade over a tree of any depth, or a fold over a sequence
  of clicks, computes is an induction over data.

## 5. Not modelled, and what is left

Left out for good: packet construction and payloads, custom packets (a form, one call of
`NetworkInterface`), target profiles, the catalog's text, report rendering, charts, theme and
widget layout (pure construction), the capability bits and driver calls behind
`is_elevated` (questions to the operating system), the developers' tools, and the conformance
tests themselves, which are scripts against external equipment. Qt's thread affinity
(`proxy_panel.py:124`) and the atomicity of `write_text` (`run_artifacts.py:97`) are below the
level of these models.

Of the plan, every proof has been done that needs neither liveness nor an induction over data. If
such an induction becomes available to the prover, `SelectionIsExact` comes first.
