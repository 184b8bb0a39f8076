---------------------------- MODULE EchoBackend ----------------------------
(***************************************************************************)
(* The echo backend of a proxy test (src/proxy/backend.py): one accept     *)
(* thread, one UDP thread, one thread per connection, and an owner that    *)
(* starts, stops and restarts the whole.                                   *)
(*                                                                         *)
(* The threads share the _stop event, the two socket attributes, the       *)
(* _threads list and the counters.  Each blocking call has a 0.5 s         *)
(* timeout, and stop() joins each thread for at most 2 s, so a thread can  *)
(* outlive the stop() that was meant to end it.  Both front ends make a    *)
(* new object for every start; that one object can be started again, as    *)
(* tests_internal/test_proxy_relay.py does, is the class's own contract    *)
(* ("a previous stop() latched it").                                       *)
(*                                                                         *)
(* The start number g stands for the socket that start() created: threads  *)
(* keep the one they read, and stop() closes it under them.                *)
(***************************************************************************)
EXTENDS Naturals, FiniteSets, Sequences

CONSTANTS MaxStarts,     \* bound on the calls of start()
          MaxConns,      \* bound on the connections peers open
          MaxData,       \* bound on the chunks and datagrams peers send
          Udp,           \* enable_udp
          BackendFaults  \* which failures of the environment occur

BackendFaultKinds == {"bind", "socket", "connection", "echo", "straggler"}

ASSUME BackendAssumption ==
    /\ MaxStarts \in Nat /\ MaxConns \in Nat /\ MaxData \in Nat
    /\ Udp \in BOOLEAN
    /\ BackendFaults \subseteq BackendFaultKinds

VARIABLES owner,         \* where the owner is in start() or stop()
          failing,       \* stop() was called by a start() that failed
          starts,        \* calls of start() so far
          stop,          \* the _stop event
          tcpSocket,     \* _tcp_socket: a start number, or None
          udpSocket,     \* _udp_socket
          open,          \* the sockets that are open, as <<kind, start>>
          bound,         \* _bound_port is not None
          threads,       \* _threads
          joined,        \* how far stop() has come in _threads
          state,         \* where each thread is
          local,         \* the socket a loop read into its local variable
          conns,         \* connections peers opened
          sent,          \* chunks and datagrams peers sent
          stats,         \* _stats
          reports,       \* loop exits reported as unexpected
          silent,        \* connections whose echo failed and was not reported
          timedOut,      \* a join gave up on a live thread
          shown          \* the closing summary of the counters

vars == <<owner, failing, starts, stop, tcpSocket, udpSocket, open, bound,
          threads, joined, state, local, conns, sent, stats, reports, silent,
          timedOut, shown>>

None == 0
TcpLoops  == {<<"tcp", g>> : g \in 1..MaxStarts}
UdpLoops  == {<<"udp", g>> : g \in 1..MaxStarts}
Handlers  == {<<"conn", c>> : c \in 1..MaxConns}
Threads   == TcpLoops \cup UdpLoops \cup Handlers

NoStats == [connections |-> 0, received |-> 0, echoed |-> 0, datagrams |-> 0]

Init ==
    /\ owner = "idle" /\ failing = FALSE /\ starts = 0
    /\ stop = FALSE
    /\ tcpSocket = None /\ udpSocket = None
    /\ open = {} /\ bound = FALSE
    /\ threads = <<>> /\ joined = 0
    /\ state = [t \in Threads |-> "unborn"]
    /\ local = [t \in Threads |-> None]
    /\ conns = 0 /\ sent = 0
    /\ stats = NoStats /\ shown = NoStats
    /\ reports = {} /\ silent = {}
    /\ timedOut = FALSE

Live(t) == state[t] \notin {"unborn", "dead"}
LiveThreads == {t \in Threads : Live(t)}

threadVars == <<state, local, conns, sent, stats, reports, silent>>
ownerVars  == <<owner, failing, starts, stop, tcpSocket, udpSocket, open, bound,
                joined, timedOut, shown>>

-----------------------------------------------------------------------------
(***************************************************************************)
(* start().                                                                *)
(***************************************************************************)

\* self._stop.clear().
StopAtStart_Latched == stop
StopAtStart == FALSE

StartClear ==
    /\ owner = "idle"
    /\ starts < MaxStarts
    /\ starts' = starts + 1
    /\ stop' = StopAtStart
    /\ owner' = "bindTcp"
    /\ UNCHANGED <<failing, tcpSocket, udpSocket, open, bound, threads, joined,
                   threadVars, timedOut, shown>>

\* except OSError: self.stop(), and the exception goes on to the owner.
AfterFailedBind_Raises == "idle"
AfterFailedBind == "setStop"

\* The TCP socket: created, bound, listening; or bind() raises.
StartBindTcp ==
    /\ owner = "bindTcp"
    /\ tcpSocket' = starts
    /\ open' = open \cup {<<"tcp", starts>>}
    /\ \/ /\ bound' = TRUE
          /\ owner' = IF Udp THEN "bindUdp" ELSE "spawnTcp"
          /\ UNCHANGED failing
       \/ /\ "bind" \in BackendFaults
          /\ failing' = TRUE
          /\ owner' = AfterFailedBind
          /\ UNCHANGED bound
    /\ UNCHANGED <<starts, stop, udpSocket, threads, joined, threadVars,
                   timedOut, shown>>

\* The UDP socket on the same port, before any thread exists.
StartBindUdp ==
    /\ owner = "bindUdp"
    /\ udpSocket' = starts
    /\ open' = open \cup {<<"udp", starts>>}
    /\ \/ owner' = "spawnTcp" /\ UNCHANGED failing
       \/ "bind" \in BackendFaults /\ failing' = TRUE /\ owner' = AfterFailedBind
    /\ UNCHANGED <<starts, stop, tcpSocket, bound, threads, joined, threadVars,
                   timedOut, shown>>

\* _spawn: the thread runs from thread.start() on and is then listed.
StartSpawnTcp ==
    /\ owner = "spawnTcp"
    /\ state' = [state EXCEPT ![<<"tcp", starts>>] = "check"]
    /\ threads' = Append(threads, <<"tcp", starts>>)
    /\ owner' = IF Udp THEN "spawnUdp" ELSE "serving"
    /\ UNCHANGED <<failing, starts, stop, tcpSocket, udpSocket, open, bound,
                   joined, local, conns, sent, stats, reports, silent, timedOut,
                   shown>>

StartSpawnUdp ==
    /\ owner = "spawnUdp"
    /\ state' = [state EXCEPT ![<<"udp", starts>>] = "check"]
    /\ threads' = Append(threads, <<"udp", starts>>)
    /\ owner' = "serving"
    /\ UNCHANGED <<failing, starts, stop, tcpSocket, udpSocket, open, bound,
                   joined, local, conns, sent, stats, reports, silent, timedOut,
                   shown>>

-----------------------------------------------------------------------------
(***************************************************************************)
(* stop().                                                                 *)
(***************************************************************************)
\* The owner calls stop(): the panel's button, or its shutdown().
StopCalled ==
    /\ owner = "serving"
    /\ owner' = "setStop"
    /\ UNCHANGED <<failing, starts, stop, tcpSocket, udpSocket, open, bound,
                   threads, joined, threadVars, timedOut, shown>>

StopSetEvent ==
    /\ owner = "setStop"
    /\ stop' = TRUE
    /\ owner' = "close"
    /\ UNCHANGED <<failing, starts, tcpSocket, udpSocket, open, bound, threads,
                   joined, threadVars, timedOut, shown>>

StopCloseSockets ==
    /\ owner = "close"
    /\ open' = open \ {<<"tcp", tcpSocket>>, <<"udp", udpSocket>>}
    /\ tcpSocket' = None /\ udpSocket' = None
    /\ joined' = 0
    /\ owner' = "join"
    /\ UNCHANGED <<failing, starts, stop, bound, threads, threadVars, timedOut, shown>>

\* thread.join(timeout=2.0) on each entry of _threads, entries appended while
\* the loop is running included.
StopJoin ==
    /\ owner = "join"
    /\ joined < Len(threads)
    /\ joined' = joined + 1
    /\ \/ ~ Live(threads[joined + 1]) /\ UNCHANGED timedOut
       \/ "straggler" \in BackendFaults /\ Live(threads[joined + 1])
             /\ timedOut' = TRUE
    /\ UNCHANGED <<owner, failing, starts, stop, tcpSocket, udpSocket, open,
                   bound, threads, threadVars, shown>>

\* _threads.clear(); a failed start() then forgets its port and raises, and
\* the panel that called stop() reads the counters for its closing line.
StopClear ==
    /\ owner = "join"
    /\ joined = Len(threads)
    /\ threads' = <<>>
    /\ joined' = 0
    /\ bound' = (bound /\ ~ failing)
    /\ failing' = FALSE
    /\ owner' = "idle"
    /\ shown' = IF failing THEN shown ELSE stats
    /\ UNCHANGED <<starts, stop, tcpSocket, udpSocket, open, threadVars, timedOut>>

-----------------------------------------------------------------------------
(***************************************************************************)
(* The serving threads.                                                    *)
(***************************************************************************)
\* A thread goes to s; the socket in its local variable is of no use any more
\* once it is back at the head of its loop, or has ended.
Goto(t, s) ==
    /\ state' = [state EXCEPT ![t] = s]
    /\ local' = IF s \in {"check", "dead"} THEN [local EXCEPT ![t] = None]
                ELSE local

\* Whose doing an error on a listening socket is: stop() closed it under the
\* loop, or it failed by itself.
Cause(t) == IF <<t[1], local[t]>> \in open THEN "fault" ELSE "closed"

\* _report_loop_exit: silent if stop() caused it.
ReportLoopExit_Never(t, what, cause) == UNCHANGED <<reports, silent>>

ReportLoopExit(t, what, cause) ==
    IF stop
    THEN /\ silent' = IF what = "TCP echo" THEN silent \cup {t} ELSE silent
         /\ UNCHANGED reports
    ELSE /\ reports' = reports \cup {<<what, t, cause>>}
         /\ UNCHANGED silent

\* The head of either loop: the event, then the socket attribute.
LoopHead(t, socket) ==
    /\ state[t] = "check"
    /\ IF stop \/ socket = None
       THEN Goto(t, "dead")
       ELSE /\ state' = [state EXCEPT ![t] = "wait"]
            /\ local' = [local EXCEPT ![t] = socket]
    /\ UNCHANGED <<ownerVars, threads, conns, sent, stats, reports, silent>>

AcceptHead(t) == LoopHead(t, tcpSocket)
UdpHead(t)    == LoopHead(t, udpSocket)

\* socket.timeout: go round again.
LoopTimeout(t) ==
    /\ state[t] = "wait"
    /\ Goto(t, "check")
    /\ UNCHANGED <<ownerVars, threads, conns, sent, stats, reports, silent>>

\* Any other OSError ends the loop: the socket was closed under it, or it
\* failed by itself.
LoopError(t, what) ==
    /\ state[t] = "wait"
    /\ "socket" \in BackendFaults \/ Cause(t) = "closed"
    /\ Goto(t, "dead")
    /\ ReportLoopExit(t, what, Cause(t))
    /\ UNCHANGED <<ownerVars, threads, conns, sent, stats>>

\* accept() returns a connection, and its thread is started ...
Accept(t) ==
    /\ state[t] = "wait"
    /\ <<"tcp", local[t]>> \in open
    /\ conns < MaxConns
    /\ conns' = conns + 1
    /\ stats' = [stats EXCEPT !.connections = @ + 1]
    /\ state' = [state EXCEPT ![t] = "spawned", ![<<"conn", conns'>>] = "check"]
    /\ local' = [local EXCEPT ![t] = conns']
    /\ UNCHANGED <<ownerVars, threads, sent, reports, silent>>

\* ... and then appended to _threads, which stop() may be walking.
AcceptAppend(t) ==
    /\ state[t] = "spawned"
    /\ threads' = Append(threads, <<"conn", local[t]>>)
    /\ Goto(t, "check")
    /\ UNCHANGED <<ownerVars, conns, sent, stats, reports, silent>>

\* _handle_tcp: the head of its loop; leaving it closes the connection.
HandlerNext_IgnoresStop == "wait"
HandlerNext == IF stop THEN "dead" ELSE "wait"

HandlerHead(t) ==
    /\ state[t] = "check"
    /\ Goto(t, HandlerNext)
    /\ UNCHANGED <<ownerVars, threads, conns, sent, stats, reports, silent>>

\* recv() returns a chunk: counted before it is echoed.
HandlerReceive(t) ==
    /\ state[t] = "wait"
    /\ sent < MaxData
    /\ sent' = sent + 1
    /\ stats' = [stats EXCEPT !.received = @ + 1]
    /\ Goto(t, "echo")
    /\ UNCHANGED <<ownerVars, threads, conns, reports, silent>>

\* sendall() succeeded: counted as echoed.
HandlerEchoed(t) ==
    /\ state[t] = "echo"
    /\ stats' = [stats EXCEPT !.echoed = @ + 1]
    /\ Goto(t, "check")
    /\ UNCHANGED <<ownerVars, threads, conns, sent, reports, silent>>

\* sendall() failed (or timed out, which is an OSError too).
HandlerEchoFails(t) ==
    /\ "echo" \in BackendFaults
    /\ state[t] = "echo"
    /\ Goto(t, "dead")
    /\ ReportLoopExit(t, "TCP echo", "fault")
    /\ UNCHANGED <<ownerVars, threads, conns, sent, stats>>

\* recv() returns nothing: the peer half-closed, and the handler mirrors it.
HandlerEof(t) ==
    /\ state[t] = "wait"
    /\ Goto(t, "dead")
    /\ UNCHANGED <<ownerVars, threads, conns, sent, stats, reports, silent>>

\* recv() fails.
HandlerError(t) ==
    /\ "connection" \in BackendFaults
    /\ state[t] = "wait"
    /\ Goto(t, "dead")
    /\ ReportLoopExit(t, "TCP connection", "fault")
    /\ UNCHANGED <<ownerVars, threads, conns, sent, stats>>

\* One datagram: counted, then echoed.
UdpReceive(t) ==
    /\ state[t] = "wait"
    /\ <<"udp", local[t]>> \in open
    /\ sent < MaxData
    /\ sent' = sent + 1
    /\ stats' = [stats EXCEPT !.datagrams = @ + 1]
    /\ Goto(t, "echo")
    /\ UNCHANGED <<ownerVars, threads, conns, reports, silent>>

\* sendto() works, or fails and ends the loop: on a socket that is closed by
\* now it can only fail.
UdpEcho(t) ==
    /\ state[t] = "echo"
    /\ \/ /\ <<"udp", local[t]>> \in open
          /\ Goto(t, "check") /\ UNCHANGED <<reports, silent>>
       \/ /\ "echo" \in BackendFaults \/ Cause(t) = "closed"
          /\ Goto(t, "dead") /\ ReportLoopExit(t, "UDP echo", Cause(t))
    /\ UNCHANGED <<ownerVars, threads, conns, sent, stats>>

-----------------------------------------------------------------------------
Start == StartClear \/ StartBindTcp \/ StartBindUdp \/ StartSpawnTcp \/ StartSpawnUdp
Stop  == StopSetEvent \/ StopCloseSockets \/ StopJoin \/ StopClear

AcceptLoop(t) ==
    AcceptHead(t) \/ LoopTimeout(t) \/ LoopError(t, "TCP accept loop")
                  \/ Accept(t) \/ AcceptAppend(t)
UdpLoop(t) ==
    UdpHead(t) \/ LoopTimeout(t) \/ LoopError(t, "UDP receive loop")
               \/ UdpReceive(t) \/ UdpEcho(t)
HandleTcp(t) ==
    HandlerHead(t) \/ LoopTimeout(t) \/ HandlerReceive(t) \/ HandlerEchoed(t)
                   \/ HandlerEchoFails(t) \/ HandlerEof(t) \/ HandlerError(t)

ThreadStep(t) ==
    \/ t \in TcpLoops /\ AcceptLoop(t)
    \/ t \in UdpLoops /\ UdpLoop(t)
    \/ t \in Handlers /\ HandleTcp(t)

Finished == owner = "idle" /\ starts = MaxStarts /\ LiveThreads = {} /\ UNCHANGED vars

Next == Start \/ StopCalled \/ Stop \/ (\E t \in Threads : ThreadStep(t)) \/ Finished

\* Some thread that can run does run, blocking calls time out, and the owner's
\* stop() goes on once called.  Nobody is obliged to call it.
Spec ==
    /\ Init /\ [][Next]_vars
    /\ WF_vars(Stop)
    /\ WF_vars(\E t \in Threads : ThreadStep(t))

-----------------------------------------------------------------------------
(***************************************************************************)
(* Properties.                                                             *)
(***************************************************************************)
Owners == {"idle", "bindTcp", "bindUdp", "spawnTcp", "spawnUdp", "serving", "setStop",
           "close", "join"}
ThreadStates == {"unborn", "check", "wait", "spawned", "echo", "dead"}
LoopExits == {"TCP accept loop", "UDP receive loop", "TCP connection", "TCP echo",
              "UDP echo"}

\* The type of the backend's state; a loop that is blocked in accept() or
\* recvfrom() holds a socket, never the None that stop() leaves behind.
TypeOK ==
    /\ owner \in Owners /\ failing \in BOOLEAN /\ starts \in 0..MaxStarts
    /\ stop \in BOOLEAN
    /\ tcpSocket \in 0..MaxStarts /\ udpSocket \in 0..MaxStarts
    /\ open \subseteq {"tcp", "udp"} \X (1..MaxStarts)
    /\ bound \in BOOLEAN
    /\ threads \in Seq(Threads) /\ joined \in Nat
    /\ state \in [Threads -> ThreadStates]
    /\ local \in [Threads -> Nat]
    /\ \A t \in TcpLoops \cup UdpLoops : state[t] = "wait" => local[t] # None
    /\ conns \in 0..MaxConns /\ sent \in 0..MaxData
    /\ stats \in [DOMAIN NoStats -> Nat] /\ shown \in [DOMAIN NoStats -> Nat]
    /\ reports \subseteq LoopExits \X Threads \X {"fault", "closed"}
    /\ silent \subseteq Handlers
    /\ timedOut \in BOOLEAN

\* stop() releases what start() took, a start() that failed half-way included:
\* both sockets are closed in any case, and unless a join timed out every
\* thread has ended, connection threads spawned while stop() was walking the
\* list included.  start() itself is all or nothing: when one of its binds has
\* failed, no thread of that start has run.
StopReleasesEverything ==
    /\ TypeOK
    /\ owner = "idle" =>
          /\ open = {} /\ tcpSocket = None /\ udpSocket = None
          /\ ~ timedOut => LiveThreads = {} /\ threads = <<>>
    /\ failing =>
          state[<<"tcp", starts>>] = "unborn" /\ state[<<"udp", starts>>] = "unborn"

\* While the backend is meant to serve, a loop that has ended has said why: it
\* does not die silently, neither on an error nor on a _stop event left over
\* from the previous stop().  And stop() is quiet: a loop under which it closed
\* the socket does not report that as an unexpected end, unless it outlived
\* its join and the event has been cleared again.
DeathIsReported ==
    /\ owner = "serving" =>
          \A t \in {<<"tcp", starts>>, <<"udp", starts>>} :
             state[t] = "dead" => \E r \in reports : r[2] = t
    /\ ~ timedOut => \A r \in reports : r[3] = "fault"

ReportedEchoes == {r \in reports : r[1] = "TCP echo"}

\* A byte that was received and not echoed is either being echoed, or the echo
\* failed: that was reported, or swallowed because the stop event was set at
\* that moment, so that until the first stop() tcp_bytes_echoed does not fall
\* short in silence.  From then on it can: stop() closes no connection, so an
\* echo that fails after it has failed by itself, and is not reported, for all
\* that _handle_tcp says ("must not just leave it short in silence").  The panel's
\* closing summary is final: no thread counts anything after it was read.
ShortfallIsExplained ==
    /\ stats.received =
          stats.echoed + Cardinality({t \in Handlers : state[t] = "echo"})
                       + Cardinality(ReportedEchoes)
                       + Cardinality(silent)
    /\ starts <= 1 /\ ~ stop => silent = {}
    /\ owner = "idle" /\ ~ timedOut => shown = stats

\* Once stop() was called it returns and every thread comes to an end, one that
\* outlived its join included, although peers keep their connections open and
\* silent; unless the backend is started again.
StopQuiesces == stop ~> ((owner = "idle" /\ LiveThreads = {}) \/ ~ stop)
=============================================================================
