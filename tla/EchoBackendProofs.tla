-------------------------- MODULE EchoBackendProofs --------------------------
(***************************************************************************)
(* Proofs about EchoBackend, for any number of starts, connections and     *)
(* chunks of data, with or without UDP, and every combination of faults.   *)
(***************************************************************************)
EXTENDS EchoBackend, FiniteSetTheorems, TLAPS

-----------------------------------------------------------------------------
(***************************************************************************)
(* The inductive invariant.                                                *)
(***************************************************************************)
Binding == {"bindTcp", "bindUdp", "spawnTcp"}
Up      == {"spawnTcp", "spawnUdp", "serving"}

\* Where the owner is decides what the _stop event and the list look like.
OwnerOK ==
    /\ owner # "idle" => starts > 0
    /\ starts = 0 => ~ stop /\ ~ timedOut
    /\ owner \in Binding \cup Up => ~ stop
    /\ owner \in {"close", "join"} => stop
    /\ owner \in {"bindUdp", "spawnUdp"} => Udp
    /\ failing => owner \in {"setStop", "close", "join"}
    /\ owner # "join" => joined = 0
    /\ joined <= Len(threads)

\* The open sockets are those of the two attributes, of the latest start.
SocketsOK ==
    /\ open = {s \in {<<"tcp", tcpSocket>>, <<"udp", udpSocket>>} : s[2] # None}
    /\ tcpSocket \in {None, starts} /\ udpSocket \in {None, starts}
    /\ owner \in {"idle", "bindTcp", "join"} => tcpSocket = None /\ udpSocket = None
    /\ owner = "bindUdp" => tcpSocket = starts /\ udpSocket = None
    /\ owner \in Up => tcpSocket = starts /\ (Udp => udpSocket = starts)

\* A thread runs at most once, and not before its start or its connection.
BornOK ==
    /\ \A g \in 1..MaxStarts :
          \/ g > starts
          \/ g = starts /\ (owner \in Binding \/ failing)
          => state[<<"tcp", g>>] = "unborn" /\ state[<<"udp", g>>] = "unborn"
    /\ owner = "spawnUdp" => state[<<"udp", starts>>] = "unborn"
    /\ ~ Udp => \A t \in UdpLoops : state[t] = "unborn"
    /\ \A c \in 1..MaxConns : c > conns => state[<<"conn", c>>] = "unborn"
    /\ \A t \in Threads :
          state[t] = "spawned" => t \in TcpLoops /\ local[t] \in 1..MaxConns

\* Unless a join has given up, every live thread is still to be joined: it is in
\* the list behind the point stop() has come to, or it is a connection whose
\* accept loop is about to append it.
ToBeJoined(t) ==
    \/ \E i \in 1..Len(threads) : i > joined /\ threads[i] = t
    \/ \E a \in TcpLoops : state[a] = "spawned" /\ t = <<"conn", local[a]>>

ListedOK == ~ timedOut => \A t \in LiveThreads : ToBeJoined(t)

\* Between a stop() and the first thread of the next start() nothing runs.
QuietOK ==
    ~ timedOut /\ (owner \in {"idle"} \cup Binding \/ failing)
       => LiveThreads = {} /\ threads = <<>> /\ shown = stats

\* Until stop() is called no loop has its socket closed under it.
HeldOpen ==
    ~ timedOut /\ ~ stop =>
       \A t \in TcpLoops \cup UdpLoops :
          state[t] \in {"wait", "echo"} => <<t[1], local[t]>> \in open

\* A loop of the start that is up and has ended is reported.
ReportedOK ==
    /\ owner \in Up =>
          \A t \in {<<"tcp", starts>>, <<"udp", starts>>} :
             t \in Threads /\ state[t] = "dead" => \E r \in reports : r[2] = t
    /\ ~ timedOut => \A r \in reports : r[3] = "fault"

Echoing == {t \in Handlers : state[t] = "echo"}

\* Every chunk received is echoed, being echoed, or lost by a thread that has
\* ended since: reported, or silent if the stop event was set.
EchoesOK ==
    /\ IsFiniteSet(reports)
    /\ \A r \in ReportedEchoes : r[2] \in Handlers /\ state[r[2]] = "dead"
    /\ \A t \in silent : state[t] = "dead"
    /\ starts <= 1 /\ ~ stop => silent = {}
    /\ stats.received = stats.echoed + Cardinality(Echoing)
                           + Cardinality(ReportedEchoes) + Cardinality(silent)

\* The invariant every step of the owner and of every thread preserves.
BackendInv ==
    /\ TypeOK
    /\ OwnerOK
    /\ SocketsOK
    /\ BornOK
    /\ ListedOK
    /\ QuietOK
    /\ HeldOpen
    /\ ReportedOK
    /\ EchoesOK

-----------------------------------------------------------------------------
(***************************************************************************)
(* The threads and their names.                                            *)
(***************************************************************************)

\* A thread is of one kind, and its name says which.
LEMMA ThreadNames ==
    /\ \A g \in 1..MaxStarts : <<"tcp", g>> \in TcpLoops /\ <<"udp", g>> \in UdpLoops
    /\ \A c \in 1..MaxConns : <<"conn", c>> \in Handlers
    /\ \A t \in TcpLoops : t[1] = "tcp" /\ t[2] \in 1..MaxStarts /\ t = <<"tcp", t[2]>>
    /\ \A t \in UdpLoops : t[1] = "udp" /\ t[2] \in 1..MaxStarts /\ t = <<"udp", t[2]>>
    /\ \A t \in Handlers : t[1] = "conn" /\ t[2] \in 1..MaxConns /\ t = <<"conn", t[2]>>
    /\ \A t : t \in Threads <=> t \in TcpLoops \/ t \in UdpLoops \/ t \in Handlers
BY DEF TcpLoops, UdpLoops, Handlers, Threads

\* The numbers of the state.
LEMMA Numbers ==
    ASSUME BackendInv
    PROVE  /\ MaxStarts \in Nat /\ MaxConns \in Nat /\ MaxData \in Nat
           /\ starts \in Nat /\ starts <= MaxStarts
           /\ conns \in Nat /\ conns <= MaxConns
           /\ joined \in Nat /\ Len(threads) \in Nat
           /\ owner # "idle" => starts \in 1..MaxStarts
BY BackendAssumption DEF BackendInv, TypeOK, OwnerOK

\* Nothing that was started before the first start().
LEMMA InitBackendInv == Init => BackendInv
<1> SUFFICES ASSUME Init PROVE BackendInv
  OBVIOUS
<1> USE DEF Init, None
<1>0. MaxStarts \in Nat /\ MaxConns \in Nat /\ MaxData \in Nat
  BY BackendAssumption
<1>1. TypeOK
  <2>1. /\ 0 \in 0..MaxStarts /\ 0 \in 0..MaxConns /\ 0 \in 0..MaxData /\ 0 \in Nat
        /\ threads \in Seq(Threads)
    BY <1>0
  <2>2. NoStats \in [DOMAIN NoStats -> Nat]
    BY DEF NoStats
  <2>3. /\ state \in [Threads -> ThreadStates] /\ local \in [Threads -> Nat]
        /\ \A t \in TcpLoops \cup UdpLoops : state[t] # "wait"
    BY DEF ThreadStates, Threads
  <2> QED
    BY <2>1, <2>2, <2>3, Zenon DEF TypeOK, Owners
<1>2. LiveThreads = {} /\ Echoing = {} /\ ReportedEchoes = {}
  BY DEF LiveThreads, Live, Echoing, ReportedEchoes, Threads
<1>3. OwnerOK /\ SocketsOK
  BY DEF OwnerOK, SocketsOK, Binding, Up
<1>4. BornOK
  BY ThreadNames DEF BornOK, Binding
<1>5. ListedOK /\ QuietOK
  BY <1>2 DEF ListedOK, QuietOK
<1>6. HeldOpen
  BY ThreadNames DEF HeldOpen
<1>7. ReportedOK
  BY DEF ReportedOK, Up
<1>8. EchoesOK
  <2>1. /\ IsFiniteSet(reports) /\ Cardinality(Echoing) = 0
        /\ Cardinality(ReportedEchoes) = 0 /\ Cardinality(silent) = 0
    BY <1>2, FS_EmptySet, Zenon
  <2> QED
    BY <1>2, <2>1 DEF EchoesOK, NoStats
<1> QED
  BY <1>1, <1>3, <1>4, <1>5, <1>6, <1>7, <1>8 DEF BackendInv

-----------------------------------------------------------------------------
(***************************************************************************)
(* start() and stop().                                                     *)
(***************************************************************************)

\* What depends on the threads only, when no thread is touched.
LEMMA QuietThreads ==
    ASSUME UNCHANGED <<state, local, conns>>
    PROVE  LiveThreads' = LiveThreads /\ Echoing' = Echoing
BY DEF LiveThreads, Live, Echoing

\* start(), up to the first thread.
LEMMA BindInv ==
    ASSUME BackendInv, StartClear \/ StartBindTcp \/ StartBindUdp
    PROVE  BackendInv'
<1> USE DEF BackendInv
<1>0. /\ MaxStarts \in Nat /\ starts \in Nat /\ starts <= MaxStarts
      /\ owner # "idle" => starts \in 1..MaxStarts
  BY Numbers
<1>1. UNCHANGED <<threads, joined, state, local, conns, sent, stats, reports, silent,
                  timedOut, shown>>
  BY DEF StartClear, StartBindTcp, StartBindUdp, threadVars
<1>2. LiveThreads' = LiveThreads /\ Echoing' = Echoing
  BY <1>1, QuietThreads
<1>3. CASE StartClear
  <2>1. /\ owner = "idle" /\ owner' = "bindTcp" /\ starts' = starts + 1
        /\ starts' \in 1..MaxStarts /\ stop' = FALSE
        /\ UNCHANGED <<failing, tcpSocket, udpSocket, open, bound>>
    BY <1>0, <1>3 DEF StartClear, StopAtStart
  <2>2. ~ failing /\ tcpSocket = None /\ udpSocket = None /\ joined = 0
    BY <2>1 DEF OwnerOK, SocketsOK
  <2>3. TypeOK'
    <3>1. starts' \in 0..MaxStarts
      BY <1>0, <2>1
    <3> QED
      BY <1>1, <2>1, <3>1 DEF TypeOK, Owners
  <2>4. OwnerOK'
    BY <1>0, <1>1, <2>1, <2>2 DEF OwnerOK, Binding, Up
  <2>5. SocketsOK'
    BY <2>1, <2>2 DEF SocketsOK, Up
  <2>6. BornOK'
    BY <1>0, <1>1, <2>1, <2>2 DEF BornOK, Binding
  <2>7. ListedOK' /\ QuietOK'
    BY <1>1, <1>2, <2>1, <2>2 DEF ListedOK, QuietOK, ToBeJoined, Binding
  <2>8. HeldOpen'
    BY <1>1, <1>2, <2>1, ThreadNames DEF HeldOpen, QuietOK, LiveThreads, Live
  <2>9. ReportedOK'
    BY <1>1, <2>1 DEF ReportedOK, Up
  <2>10. EchoesOK'
    <3>1. ReportedEchoes' = ReportedEchoes
      BY <1>1 DEF ReportedEchoes
    <3>2. starts' <= 1 => starts <= 1 /\ ~ stop
      BY <1>0, <2>1 DEF OwnerOK
    <3> QED
      BY <1>1, <1>2, <3>1, <3>2 DEF EchoesOK
  <2> QED
    BY <2>3, <2>4, <2>5, <2>6, <2>7, <2>8, <2>9, <2>10
<1>4. CASE StartBindTcp \/ StartBindUdp
  <2>1. /\ owner \in {"bindTcp", "bindUdp"}
        /\ owner' \in {"bindUdp", "spawnTcp", "setStop"}
        /\ UNCHANGED <<starts, stop>>
        /\ owner' = "bindUdp" => Udp
        /\ bound' \in BOOLEAN
    BY <1>4 DEF StartBindTcp, StartBindUdp, AfterFailedBind, threadVars, OwnerOK, TypeOK
  <2>12. failing' \in BOOLEAN /\ (failing' = TRUE => owner' = "setStop")
    <3>1. failing = FALSE
      BY <2>1 DEF OwnerOK, TypeOK
    <3> QED
      BY <1>4, <3>1, Zenon DEF StartBindTcp, StartBindUdp, AfterFailedBind
  <2>2. starts \in 1..MaxStarts /\ ~ stop /\ ~ failing /\ joined = 0
    BY <1>0, <2>1 DEF OwnerOK, Binding
  <2>3. SocketsOK' /\ open' \subseteq {"tcp", "udp"} \X (1..MaxStarts)
        /\ tcpSocket' \in 0..MaxStarts /\ udpSocket' \in 0..MaxStarts
    <3>1. CASE StartBindTcp
      <4>1. /\ tcpSocket = None /\ udpSocket = None /\ open = {}
            /\ tcpSocket' = starts /\ udpSocket' = None /\ open' = {<<"tcp", starts>>}
            /\ owner' \in {"bindUdp", "setStop"} \/ ~ Udp
        BY <2>1, <3>1 DEF StartBindTcp, SocketsOK, AfterFailedBind
      <4>2. open' = {s \in {<<"tcp", tcpSocket'>>, <<"udp", udpSocket'>>} : s[2] # None}
        BY <1>0, <2>2, <4>1 DEF None
      <4>3. SocketsOK'
        BY <2>1, <4>1, <4>2 DEF SocketsOK, Up
      <4> QED
        BY <1>0, <2>2, <4>1, <4>3 DEF None
    <3>2. CASE StartBindUdp
      <4>1. /\ tcpSocket = starts /\ udpSocket = None /\ open = {<<"tcp", starts>>}
            /\ udpSocket' = starts /\ tcpSocket' = starts
            /\ owner' # "bindUdp"
        BY <1>0, <2>1, <2>2, <3>2 DEF StartBindUdp, SocketsOK, AfterFailedBind, None
      <4>2. open' = {<<"tcp", starts>>, <<"udp", starts>>}
        BY <3>2, <4>1 DEF StartBindUdp
      <4>3. open' = {s \in {<<"tcp", tcpSocket'>>, <<"udp", udpSocket'>>} : s[2] # None}
        BY <1>0, <2>2, <4>1, <4>2 DEF None
      <4>4. SocketsOK'
        BY <2>1, <4>1, <4>3 DEF SocketsOK, Up
      <4> QED
        BY <1>0, <2>2, <4>1, <4>2, <4>4 DEF None
    <3> QED
      BY <1>4, <3>1, <3>2
  <2>4. TypeOK'
    BY <1>1, <2>1, <2>12, <2>3 DEF TypeOK, Owners
  <2>5. OwnerOK'
    BY <1>1, <2>1, <2>12, <2>2 DEF OwnerOK, Binding, Up
  <2>6. BornOK'
    BY <1>1, <2>1, <2>2 DEF BornOK, Binding
  <2>7. ListedOK' /\ QuietOK'
    BY <1>1, <1>2, <2>1, <2>12, <2>2 DEF ListedOK, QuietOK, ToBeJoined, Binding
  <2>8. HeldOpen'
    BY <1>1, <1>2, <2>1, ThreadNames DEF HeldOpen, QuietOK, LiveThreads, Live, Binding
  <2>9. ReportedOK'
    <3>1. state[<<"tcp", starts>>] = "unborn" /\ state[<<"udp", starts>>] = "unborn"
      BY <2>1, <2>2 DEF BornOK, Binding
    <3> QED
      BY <1>1, <2>1, <3>1 DEF ReportedOK
  <2>10. EchoesOK'
    BY <1>1, <1>2, <2>1 DEF EchoesOK, ReportedEchoes
  <2> QED
    BY <2>3, <2>4, <2>5, <2>6, <2>7, <2>8, <2>9, <2>10
<1> QED
  BY <1>3, <1>4

\* A thread is started and listed.
LEMMA SpawnInv ==
    ASSUME BackendInv, StartSpawnTcp \/ StartSpawnUdp
    PROVE  BackendInv'
<1> USE DEF BackendInv
<1> DEFINE n == IF owner = "spawnTcp" THEN <<"tcp", starts>> ELSE <<"udp", starts>>
<1>0. /\ owner \in {"spawnTcp", "spawnUdp"}
      /\ state' = [state EXCEPT ![n] = "check"] /\ threads' = Append(threads, n)
      /\ owner' \in {"spawnUdp", "serving"}
      /\ owner' = "spawnUdp" => Udp /\ owner = "spawnTcp"
      /\ UNCHANGED <<failing, starts, stop, tcpSocket, udpSocket, open, bound, joined,
                     local, conns, sent, stats, reports, silent, timedOut, shown>>
  BY DEF StartSpawnTcp, StartSpawnUdp, OwnerOK
<1>1. starts \in 1..MaxStarts /\ starts \in Nat
  BY <1>0, Numbers
<1>2. /\ n \in TcpLoops \cup UdpLoops /\ n \in Threads /\ n \notin Handlers
      /\ <<"udp", starts>> \in Threads /\ <<"tcp", starts>> \in Threads
      /\ owner = "spawnUdp" => n = <<"udp", starts>>
      /\ owner = "spawnTcp" => n = <<"tcp", starts>> /\ n # <<"udp", starts>>
  BY <1>0, <1>1, ThreadNames
<1>3. state[n] = "unborn"
  BY <1>0, <1>1, <1>2 DEF BornOK, Binding
<1>4. ~ stop /\ ~ failing /\ joined = 0
  BY <1>0 DEF OwnerOK, Binding, Up
<1>5. /\ threads \in Seq(Threads) /\ threads' \in Seq(Threads)
      /\ Len(threads) \in Nat /\ Len(threads') = Len(threads) + 1
      /\ \A i \in 1..Len(threads) : threads'[i] = threads[i]
      /\ threads'[Len(threads) + 1] = n
  <2>1. threads \in Seq(Threads)
    BY DEF TypeOK
  <2> HIDE DEF n
  <2> QED
    BY <1>0, <1>2, <2>1
<1>6. /\ state \in [Threads -> ThreadStates]
      /\ state' \in [Threads -> ThreadStates]
      /\ state'[n] = "check" /\ \A u \in Threads : u # n => state'[u] = state[u]
  BY <1>0, <1>2 DEF TypeOK, ThreadStates
<1> HIDE DEF n
<1>7. TypeOK'
  <2>1. \A t \in TcpLoops \cup UdpLoops : state'[t] = "wait" => state[t] = "wait"
    BY <1>6, ThreadNames
  <2>2. owner' \in Owners
    BY <1>0 DEF Owners
  <2> QED
    BY <1>0, <1>5, <1>6, <2>1, <2>2, Zenon DEF TypeOK
<1>8. OwnerOK'
  BY <1>0, <1>1, <1>4, <1>5 DEF OwnerOK, Binding, Up
<1>9. SocketsOK'
  BY <1>0 DEF SocketsOK, Up
<1>10. BornOK'
  <2>1. \A g \in 1..MaxStarts :
           g > starts' \/ (g = starts' /\ (owner' \in Binding \/ failing'))
              => state'[<<"tcp", g>>] = "unborn" /\ state'[<<"udp", g>>] = "unborn"
    <3> SUFFICES ASSUME NEW g \in 1..MaxStarts, g > starts
                 PROVE  state'[<<"tcp", g>>] = "unborn" /\ state'[<<"udp", g>>] = "unborn"
      BY <1>0, <1>4 DEF Binding
    <3>1. state[<<"tcp", g>>] = "unborn" /\ state[<<"udp", g>>] = "unborn"
      BY DEF BornOK
    <3>2. <<"tcp", g>> # n /\ <<"udp", g>> # n
      BY <1>1 DEF n
    <3> QED
      BY <1>6, <3>1, <3>2, ThreadNames
  <2>2. owner' = "spawnUdp" => state'[<<"udp", starts'>>] = "unborn"
    <3> HAVE owner' = "spawnUdp"
    <3>1. state[<<"udp", starts>>] = "unborn"
      BY <1>0, <1>1 DEF BornOK, Binding
    <3> QED
      BY <1>0, <1>2, <1>6, <3>1
  <2>3. ~ Udp => \A t \in UdpLoops : state'[t] = "unborn"
    <3>1. ~ Udp => owner = "spawnTcp"
      BY <1>0 DEF OwnerOK
    <3>2. ~ Udp => n \notin UdpLoops
      BY <3>1, ThreadNames DEF n
    <3> QED
      BY <1>6, <3>2, ThreadNames DEF BornOK
  <2>4. \A c \in 1..MaxConns : c > conns' => state'[<<"conn", c>>] = "unborn"
    BY <1>0, <1>2, <1>6, ThreadNames DEF BornOK
  <2>5. \A t \in Threads :
           state'[t] = "spawned" => t \in TcpLoops /\ local'[t] \in 1..MaxConns
    BY <1>0, <1>6 DEF BornOK
  <2> QED
    BY <2>1, <2>2, <2>3, <2>4, <2>5 DEF BornOK
<1>11. ListedOK'
  <2> SUFFICES ASSUME ~ timedOut, NEW t \in Threads, Live(t)' PROVE ToBeJoined(t)'
    BY <1>0 DEF ListedOK, LiveThreads
  <2>1. CASE t = n
    BY <1>0, <1>4, <1>5, <2>1 DEF ToBeJoined
  <2>2. CASE t # n
    <3>1. ToBeJoined(t)
      BY <1>6, <2>2 DEF ListedOK, LiveThreads, Live
    <3>2. \A a \in TcpLoops : state[a] = "spawned" => state'[a] = "spawned"
      BY <1>3, <1>6, ThreadNames
    <3> QED
      BY <1>0, <1>5, <3>1, <3>2 DEF ToBeJoined
  <2> QED
    BY <2>1, <2>2
<1>12. QuietOK'
  BY <1>0, <1>4 DEF QuietOK, Binding
<1>13. HeldOpen'
  BY <1>0, <1>6, ThreadNames DEF HeldOpen
<1>14. ReportedOK'
  <2>1. \A t \in {<<"tcp", starts>>, <<"udp", starts>>} :
           t \in Threads /\ state'[t] = "dead" => state[t] = "dead"
    BY <1>2, <1>6
  <2>2. owner \in Up
    BY <1>0 DEF Up
  <2> QED
    BY <1>0, <2>1, <2>2 DEF ReportedOK
<1>15. EchoesOK'
  <2>1. \A t \in Handlers : state'[t] = state[t]
    BY <1>2, <1>6, ThreadNames
  <2>2. Echoing' = Echoing /\ ReportedEchoes' = ReportedEchoes
    BY <1>0, <2>1 DEF Echoing, ReportedEchoes
  <2>3. /\ \A r \in ReportedEchoes : r[2] \in Handlers /\ state'[r[2]] = "dead"
        /\ \A t \in silent : state'[t] = "dead"
    BY <2>1 DEF EchoesOK, TypeOK
  <2> QED
    BY <1>0, <2>2, <2>3 DEF EchoesOK
<1> QED
  BY <1>7, <1>8, <1>9, <1>10, <1>11, <1>12, <1>13, <1>14, <1>15

\* When stop() has joined the whole list, nothing is left running: a thread that
\* is not listed belongs to a live accept loop, and that one is listed.
LEMMA JoinedAll ==
    ASSUME BackendInv, ~ timedOut, joined = Len(threads)
    PROVE  LiveThreads = {}
<1> USE DEF BackendInv
<1>1. \A t \in LiveThreads :
         \E a \in TcpLoops : state[a] = "spawned" /\ t = <<"conn", local[a]>>
  BY Numbers DEF ListedOK, ToBeJoined
<1>2. \A a \in TcpLoops : state[a] = "spawned" => a \in LiveThreads
  BY ThreadNames DEF LiveThreads, Live
<1>3. \A a \in TcpLoops : \A c : a # <<"conn", c>>
  BY ThreadNames
<1> QED
  BY <1>1, <1>2, <1>3

\* stop(), from the call to the return.
LEMMA StopInv ==
    ASSUME BackendInv, StopCalled \/ Stop
    PROVE  BackendInv'
<1> USE DEF BackendInv
<1>0. /\ MaxStarts \in Nat /\ starts \in Nat /\ joined \in Nat /\ Len(threads) \in Nat
      /\ owner # "idle" => starts \in 1..MaxStarts
  BY Numbers
<1>1. UNCHANGED <<starts, state, local, conns, sent, stats, reports, silent>>
  BY DEF StopCalled, Stop, StopSetEvent, StopCloseSockets, StopJoin, StopClear, threadVars
<1>2. LiveThreads' = LiveThreads /\ Echoing' = Echoing /\ ReportedEchoes' = ReportedEchoes
  BY <1>1, QuietThreads DEF ReportedEchoes
<1>3. CASE StopCalled \/ StopSetEvent
  <2>1. /\ owner \in {"serving", "setStop"} /\ owner' \in {"setStop", "close"}
        /\ stop' = stop \/ stop' = TRUE
        /\ owner = "serving" => owner' = "setStop"
        /\ owner' = "close" => stop' = TRUE
        /\ UNCHANGED <<failing, tcpSocket, udpSocket, open, bound, threads, joined, timedOut,
                       shown>>
    BY <1>3 DEF StopCalled, StopSetEvent, threadVars
  <2>2. stop' \in BOOLEAN
    BY <2>1 DEF TypeOK
  <2>3. failing => owner = "setStop"
    BY <2>1 DEF OwnerOK
  <2>4. TypeOK'
    <3>1. shown' \in [DOMAIN NoStats -> Nat] /\ owner' \in Owners
      BY <2>1 DEF TypeOK, Owners
    <3> QED
      BY <1>1, <2>1, <2>2, <3>1, Zenon DEF TypeOK
  <2>5. OwnerOK'
    BY <1>0, <1>1, <2>1, <2>3 DEF OwnerOK, Binding, Up
  <2>6. SocketsOK'
    BY <1>1, <2>1 DEF SocketsOK, Up
  <2>7. BornOK'
    BY <1>1, <2>1 DEF BornOK, Binding
  <2>8. ListedOK' /\ QuietOK'
    BY <1>1, <1>2, <2>1, <2>3 DEF ListedOK, QuietOK, ToBeJoined, Binding
  <2>9. HeldOpen'
    BY <1>1, <2>1 DEF HeldOpen
  <2>10. ReportedOK'
    BY <1>1, <2>1 DEF ReportedOK, Up
  <2>11. EchoesOK'
    BY <1>1, <1>2, <2>1 DEF EchoesOK
  <2> QED
    BY <2>4, <2>5, <2>6, <2>7, <2>8, <2>9, <2>10, <2>11
<1>4. CASE StopCloseSockets
  <2>1. /\ owner = "close" /\ owner' = "join" /\ joined' = 0
        /\ tcpSocket' = None /\ udpSocket' = None
        /\ open' = open \ {<<"tcp", tcpSocket>>, <<"udp", udpSocket>>}
        /\ UNCHANGED <<failing, stop, bound, threads, timedOut, shown>>
    BY <1>4 DEF StopCloseSockets, threadVars
  <2>2. open' = {} /\ stop /\ joined = 0
    BY <2>1 DEF SocketsOK, OwnerOK
  <2>3. SocketsOK'
    BY <2>1, <2>2 DEF SocketsOK, Up, None
  <2>4. TypeOK'
    <3>1. /\ tcpSocket' \in 0..MaxStarts /\ udpSocket' \in 0..MaxStarts /\ joined' \in Nat
          /\ open' \subseteq {"tcp", "udp"} \X (1..MaxStarts) /\ owner' \in Owners
      BY <1>0, <2>1, <2>2 DEF None, Owners
    <3> QED
      BY <1>1, <2>1, <3>1, Zenon DEF TypeOK
  <2>5. OwnerOK'
    BY <1>0, <1>1, <2>1, <2>2 DEF OwnerOK, Binding, Up
  <2>6. BornOK'
    BY <1>1, <2>1 DEF BornOK, Binding
  <2>7. ListedOK' /\ QuietOK'
    BY <1>1, <1>2, <2>1, <2>2 DEF ListedOK, QuietOK, ToBeJoined, Binding
  <2>8. HeldOpen'
    BY <1>1, <2>1, <2>2 DEF HeldOpen
  <2>9. ReportedOK'
    BY <1>1, <2>1 DEF ReportedOK, Up
  <2>10. EchoesOK'
    BY <1>1, <1>2, <2>1 DEF EchoesOK
  <2> QED
    BY <2>3, <2>4, <2>5, <2>6, <2>7, <2>8, <2>9, <2>10
<1>5. CASE StopJoin
  <2>1. /\ owner = "join" /\ joined < Len(threads) /\ joined' = joined + 1
        /\ UNCHANGED <<owner, failing, stop, tcpSocket, udpSocket, open, bound, threads,
                       shown>>
        /\ ~ Live(threads[joined + 1]) \/ timedOut' = TRUE
        /\ timedOut' = timedOut \/ timedOut' = TRUE
    BY <1>5 DEF StopJoin, threadVars
  <2>2. timedOut' \in BOOLEAN /\ joined' \in Nat /\ joined' <= Len(threads)
    <3>1. timedOut' \in BOOLEAN
      BY <2>1, Zenon DEF TypeOK
    <3> QED
      BY <1>0, <2>1, <3>1
  <2>3. TypeOK'
    BY <1>1, <2>1, <2>2, Zenon DEF TypeOK
  <2>4. OwnerOK'
    BY <1>0, <1>1, <2>1, <2>2 DEF OwnerOK, Binding, Up
  <2>5. SocketsOK' /\ BornOK'
    BY <1>1, <2>1 DEF SocketsOK, BornOK
  <2>6. ListedOK'
    <3> SUFFICES ASSUME timedOut' = FALSE, NEW t \in LiveThreads PROVE ToBeJoined(t)'
      BY <1>2, <2>2 DEF ListedOK
    <3>1. ToBeJoined(t) /\ Live(t) /\ ~ Live(threads[joined + 1])
      BY <2>1 DEF ListedOK, LiveThreads
    <3> QED
      BY <1>0, <1>1, <2>1, <3>1 DEF ToBeJoined
  <2>7. QuietOK'
    BY <1>1, <1>2, <2>1 DEF QuietOK, Binding
  <2>8. HeldOpen' /\ ReportedOK'
    BY <1>1, <2>1 DEF HeldOpen, ReportedOK
  <2>9. EchoesOK'
    BY <1>1, <1>2, <2>1 DEF EchoesOK
  <2> QED
    BY <2>3, <2>4, <2>5, <2>6, <2>7, <2>8, <2>9
<1>6. CASE StopClear
  <2>1. /\ owner = "join" /\ owner' = "idle" /\ joined = Len(threads)
        /\ threads' = <<>> /\ joined' = 0 /\ failing' = FALSE
        /\ shown' = shown \/ shown' = stats
        /\ failing => shown' = shown
        /\ ~ failing => shown' = stats
        /\ UNCHANGED <<stop, tcpSocket, udpSocket, open, timedOut>>
    BY <1>6 DEF StopClear, threadVars
  <2>2. threads' \in Seq(Threads) /\ Len(threads') = 0 /\ bound' \in BOOLEAN
    BY <1>6, <2>1 DEF StopClear
  <2>3. shown' \in [DOMAIN NoStats -> Nat]
    BY <2>1 DEF TypeOK
  <2>4. TypeOK'
    <3>1. joined' \in Nat /\ owner' \in Owners /\ failing' \in BOOLEAN
      BY <2>1 DEF Owners
    <3> QED
      BY <1>1, <2>1, <2>2, <2>3, <3>1, Zenon DEF TypeOK
  <2>5. OwnerOK'
    BY <1>1, <2>1, <2>2 DEF OwnerOK, Binding, Up
  <2>6. SocketsOK' /\ BornOK'
    BY <1>1, <2>1 DEF SocketsOK, BornOK, Binding, Up
  <2>7. ~ timedOut => LiveThreads = {}
    BY <2>1, JoinedAll
  <2>8. ListedOK'
    BY <1>2, <2>1, <2>7 DEF ListedOK
  <2>9. QuietOK'
    BY <1>1, <1>2, <2>1, <2>7 DEF QuietOK
  <2>10. HeldOpen' /\ ReportedOK'
    BY <1>1, <2>1 DEF HeldOpen, ReportedOK, Up
  <2>11. EchoesOK'
    BY <1>1, <1>2, <2>1 DEF EchoesOK
  <2> QED
    BY <2>4, <2>5, <2>6, <2>8, <2>9, <2>10, <2>11
<1> QED
  BY <1>3, <1>4, <1>5, <1>6 DEF Stop

-----------------------------------------------------------------------------
(***************************************************************************)
(* The serving threads.  A step either hands a new connection over to its  *)
(* own thread (Accept, AcceptAppend) or moves one thread, which then does  *)
(* what the three operators below say about its place, its report and the  *)
(* counters.                                                               *)
(***************************************************************************)
Moves(t, s) ==
    /\ state[t] \in {"check", "wait", "echo"} /\ s \in {"check", "wait", "echo", "dead"}
    /\ UNCHANGED <<ownerVars, threads, conns>>
    /\ state' = [state EXCEPT ![t] = s]
    /\ local' \in [Threads -> Nat] /\ \A u \in Threads : u # t => local'[u] = local[u]
    /\ t \notin Handlers /\ s \in {"wait", "echo"} =>
          local'[t] # None /\ (~ timedOut /\ ~ stop => <<t[1], local'[t]>> \in open)

Tells(t, s) ==
    /\ \/ UNCHANGED <<reports, silent>>
       \/ /\ s = "dead" /\ stop /\ t \in Handlers /\ state[t] = "echo"
          /\ silent' = silent \cup {t} /\ UNCHANGED reports
       \/ /\ s = "dead" /\ ~ stop /\ UNCHANGED silent
          /\ \E what \in LoopExits, cause \in {"fault", "closed"} :
                /\ reports' = reports \cup {<<what, t, cause>>}
                /\ ~ timedOut => cause = "fault"
                /\ what = "TCP echo" => t \in Handlers /\ state[t] = "echo"
    /\ t \notin Handlers /\ s = "dead" /\ owner \in Up /\ t[2] = starts
          => \E r \in reports' : r[2] = t

Received == stats["received"]
Echoed   == stats["echoed"]

Counts(t, s) ==
    /\ sent' \in 0..MaxData /\ stats' \in [DOMAIN NoStats -> Nat]
    /\ \/ t \notin Handlers /\ Received' = Received /\ Echoed' = Echoed
       \/ /\ t \in Handlers /\ state[t] = "wait" /\ s = "echo"
          /\ Received' = Received + 1 /\ Echoed' = Echoed /\ UNCHANGED <<reports, silent>>
       \/ /\ t \in Handlers /\ state[t] = "echo" /\ s = "check"
          /\ Received' = Received /\ Echoed' = Echoed + 1 /\ UNCHANGED <<reports, silent>>
       \/ /\ t \in Handlers /\ state[t] = "echo" /\ s = "dead"
          /\ Received' = Received /\ Echoed' = Echoed
          /\ ~ stop => reports' = reports \cup {<<"TCP echo", t, "fault">>} /\ silent' = silent
          /\ stop => silent' = silent \cup {t} /\ reports' = reports
       \/ /\ t \in Handlers /\ state[t] # "echo" /\ s # "echo"
          /\ Received' = Received /\ Echoed' = Echoed

\* Counting one more.
LEMMA CountLemma ==
    ASSUME NEW c \in [DOMAIN NoStats -> Nat], NEW k \in DOMAIN NoStats
    PROVE  /\ c[k] \in Nat
           /\ [c EXCEPT ![k] = @ + 1] \in [DOMAIN NoStats -> Nat]
           /\ [c EXCEPT ![k] = @ + 1][k] = c[k] + 1
           /\ \A j \in DOMAIN NoStats : j # k => [c EXCEPT ![k] = @ + 1][j] = c[j]
OBVIOUS

LEMMA CounterNames == DOMAIN NoStats = {"connections", "received", "echoed", "datagrams"}
BY DEF NoStats

\* A thread only runs between a start() and the end of the stop() after it,
\* unless a join has given up.
LEMMA Running ==
    ASSUME BackendInv, NEW t \in Threads, Live(t)
    PROVE  /\ starts \in 1..MaxStarts
           /\ timedOut \/ (owner \notin {"idle"} \cup Binding /\ ~ failing)
<1> USE DEF BackendInv
<1>1. timedOut \/ (owner \notin {"idle"} \cup Binding /\ ~ failing)
  BY DEF QuietOK, LiveThreads
<1>2. starts # 0
  BY <1>1 DEF OwnerOK
<1> QED
  BY <1>1, <1>2, Numbers

\* What Goto does to the local variables.
LEMMA GotoMoves ==
    ASSUME BackendInv, NEW t \in Threads, NEW s \in {"check", "wait", "echo", "dead"},
           Goto(t, s),
           UNCHANGED <<ownerVars, threads, conns>>, state[t] \in {"check", "wait", "echo"},
           t \in Handlers \/ s \notin {"wait", "echo"} \/ state[t] = "wait"
    PROVE  Moves(t, s)
<1> USE DEF BackendInv
<1>1. local \in [Threads -> Nat]
  BY DEF TypeOK
<1>2. /\ local' \in [Threads -> Nat] /\ \A u \in Threads : u # t => local'[u] = local[u]
      /\ s \in {"wait", "echo"} => local' = local
  BY <1>1 DEF Goto, None
<1>3. ASSUME t \notin Handlers, s \in {"wait", "echo"}
      PROVE  local'[t] # None /\ (~ timedOut /\ ~ stop => <<t[1], local'[t]>> \in open)
  <2>1. t \in TcpLoops \cup UdpLoops /\ state[t] = "wait"
    BY <1>3, ThreadNames
  <2>2. local[t] # None /\ (~ timedOut /\ ~ stop => <<t[1], local[t]>> \in open)
    BY <2>1 DEF TypeOK, HeldOpen
  <2> QED
    BY <1>2, <1>3, <2>2
<1> QED
  BY <1>2, <1>3 DEF Moves, Goto

\* What _report_loop_exit says, and that it says something while the backend is
\* meant to serve.
LEMMA ReportTells ==
    ASSUME BackendInv, NEW t \in Threads, NEW what \in LoopExits,
           NEW cause \in {"fault", "closed"},
           ReportLoopExit(t, what, cause),
           ~ timedOut /\ ~ stop => cause = "fault",
           what = "TCP echo" => t \in Handlers /\ state[t] = "echo"
    PROVE  Tells(t, "dead")
<1> USE DEF BackendInv
<1>1. CASE stop
  <2>1. owner \notin Up
    BY <1>1 DEF OwnerOK
  <2>2. /\ reports' = reports
        /\ silent' = IF what = "TCP echo" THEN silent \cup {t} ELSE silent
    BY <1>1 DEF ReportLoopExit
  <2> QED
    BY <1>1, <2>1, <2>2 DEF Tells
<1>2. CASE ~ stop
  <2>1. reports' = reports \cup {<<what, t, cause>>} /\ silent' = silent
    BY <1>2 DEF ReportLoopExit
  <2>2. <<what, t, cause>> \in reports' /\ <<what, t, cause>>[2] = t
    BY <2>1
  <2>3. \E r \in reports' : r[2] = t
    BY <2>2
  <2> QED
    BY <1>2, <2>1, <2>3 DEF Tells
<1> QED
  BY <1>1, <1>2

\* The socket attributes, and that they are set while the backend is up.
LEMMA SocketFacts ==
    ASSUME BackendInv
    PROVE  /\ tcpSocket \in Nat /\ udpSocket \in Nat
           /\ owner \in Up => ~ stop /\ starts # None
<1> USE DEF BackendInv
<1>1. tcpSocket \in Nat /\ udpSocket \in Nat
  BY BackendAssumption DEF TypeOK
<1>2. owner \in Up => ~ stop /\ owner # "idle"
  BY DEF OwnerOK, Up
<1>3. owner # "idle" => starts # None
  BY Numbers DEF None
<1> QED
  BY <1>1, <1>2, <1>3

\* The steps the two loops share.
LEMMA LoopSteps ==
    ASSUME BackendInv, NEW t \in TcpLoops \cup UdpLoops, NEW what \in LoopExits,
           what # "TCP echo", NEW socket,
           t \in TcpLoops => socket = tcpSocket,
           t \in UdpLoops => socket = udpSocket,
           LoopHead(t, socket) \/ LoopTimeout(t) \/ LoopError(t, what)
    PROVE  \E s : Moves(t, s) /\ Tells(t, s) /\ Counts(t, s)
<1> USE DEF BackendInv
<1>0. /\ t \in Threads /\ t \notin Handlers
      /\ t \in TcpLoops => t[1] = "tcp" /\ t = <<"tcp", t[2]>>
      /\ t \notin TcpLoops => t[1] = "udp" /\ t = <<"udp", t[2]>> /\ t \in UdpLoops
  BY ThreadNames
<1>1. UNCHANGED <<ownerVars, threads, conns, sent, stats>>
  BY DEF LoopHead, LoopTimeout, LoopError
<1>2. \A s : Counts(t, s)
  BY <1>0, <1>1 DEF Counts, TypeOK, Received, Echoed
<1>3. CASE LoopHead(t, socket) /\ (stop \/ socket = None)
  <2>1. state[t] = "check" /\ Goto(t, "dead") /\ UNCHANGED <<reports, silent>>
    BY <1>3 DEF LoopHead
  <2>2. Moves(t, "dead")
    BY <1>0, <1>1, <2>1, GotoMoves
  <2>3. ~ (owner \in Up /\ t[2] = starts)
    <3> SUFFICES ASSUME owner \in Up, t[2] = starts PROVE FALSE
      OBVIOUS
    <3>1. ~ stop /\ starts # None
      BY SocketFacts
    <3>2. t \in UdpLoops => Udp
      BY <2>1 DEF BornOK
    <3> QED
      BY <1>0, <1>3, <3>1, <3>2 DEF SocketsOK
  <2>4. Tells(t, "dead")
    BY <2>1, <2>3 DEF Tells
  <2> QED
    BY <1>2, <2>2, <2>4
<1>4. CASE LoopHead(t, socket) /\ ~ stop /\ socket # None
  <2>1. /\ state[t] = "check" /\ state' = [state EXCEPT ![t] = "wait"]
        /\ local' = [local EXCEPT ![t] = socket] /\ UNCHANGED <<reports, silent>>
    BY <1>4 DEF LoopHead
  <2>2. local \in [Threads -> Nat] /\ socket \in Nat
    <3>1. local \in [Threads -> Nat]
      BY DEF TypeOK
    <3> QED
      BY <1>0, <3>1, SocketFacts
  <2>3. <<t[1], socket>> \in open
    BY <1>0, <1>4 DEF SocketsOK
  <2>4. Moves(t, "wait")
    BY <1>0, <1>1, <1>4, <2>1, <2>2, <2>3 DEF Moves
  <2>5. Tells(t, "wait")
    BY <2>1 DEF Tells
  <2> QED
    BY <1>2, <2>4, <2>5
<1>5. CASE LoopTimeout(t)
  <2>1. state[t] = "wait" /\ Goto(t, "check") /\ UNCHANGED <<reports, silent>>
    BY <1>5 DEF LoopTimeout
  <2>2. Moves(t, "check")
    BY <1>0, <1>1, <2>1, GotoMoves
  <2>3. Tells(t, "check")
    BY <2>1 DEF Tells
  <2> QED
    BY <1>2, <2>2, <2>3
<1>6. CASE LoopError(t, what)
  <2>1. /\ state[t] = "wait" /\ Goto(t, "dead") /\ ReportLoopExit(t, what, Cause(t))
    BY <1>6 DEF LoopError
  <2>2. Moves(t, "dead")
    BY <1>0, <1>1, <2>1, GotoMoves
  <2>3. /\ Cause(t) \in {"fault", "closed"}
        /\ ~ timedOut /\ ~ stop => Cause(t) = "fault"
    BY <2>1 DEF Cause, HeldOpen
  <2>4. Tells(t, "dead")
    BY <1>0, <2>1, <2>3, ReportTells
  <2> QED
    BY <1>2, <2>2, <2>4
<1> QED
  BY <1>3, <1>4, <1>5, <1>6

\* The steps of the UDP loop that are its own.
LEMMA DatagramSteps ==
    ASSUME BackendInv, NEW t \in UdpLoops, UdpReceive(t) \/ UdpEcho(t)
    PROVE  \E s : Moves(t, s) /\ Tells(t, s) /\ Counts(t, s)
<1> USE DEF BackendInv
<1>0. t \in Threads /\ t \notin Handlers /\ t[1] = "udp" /\ t \in TcpLoops \cup UdpLoops
  BY ThreadNames
<1>1. UNCHANGED <<ownerVars, threads, conns>>
  BY DEF UdpReceive, UdpEcho
<1>2. CASE UdpReceive(t)
  <2>1. /\ state[t] = "wait" /\ Goto(t, "echo") /\ UNCHANGED <<reports, silent>>
        /\ sent < MaxData /\ sent' = sent + 1
        /\ stats' = [stats EXCEPT !["datagrams"] = @ + 1]
    BY <1>2 DEF UdpReceive
  <2>2. Moves(t, "echo")
    BY <1>0, <1>1, <2>1, GotoMoves
  <2>3. Tells(t, "echo")
    BY <2>1 DEF Tells
  <2>4. sent' \in 0..MaxData
    BY <2>1, BackendAssumption DEF TypeOK
  <2>5. stats' \in [DOMAIN NoStats -> Nat] /\ Received' = Received /\ Echoed' = Echoed
    BY <2>1, CountLemma, CounterNames DEF TypeOK, Received, Echoed
  <2> QED
    BY <1>0, <2>2, <2>3, <2>4, <2>5 DEF Counts
<1>3. CASE UdpEcho(t) /\ Goto(t, "check") /\ UNCHANGED <<reports, silent>>
  <2>1. state[t] = "echo" /\ UNCHANGED <<sent, stats>>
    BY <1>3 DEF UdpEcho
  <2>2. Moves(t, "check")
    BY <1>0, <1>1, <1>3, <2>1, GotoMoves
  <2>3. Tells(t, "check") /\ Counts(t, "check")
    BY <1>0, <1>3, <2>1 DEF Tells, Counts, TypeOK, Received, Echoed
  <2> QED
    BY <2>2, <2>3
<1>4. CASE UdpEcho(t) /\ Goto(t, "dead") /\ ReportLoopExit(t, "UDP echo", Cause(t))
  <2>1. state[t] = "echo" /\ UNCHANGED <<sent, stats>>
    BY <1>4 DEF UdpEcho
  <2>2. Moves(t, "dead")
    BY <1>0, <1>1, <1>4, <2>1, GotoMoves
  <2>3. /\ Cause(t) \in {"fault", "closed"}
        /\ ~ timedOut /\ ~ stop => Cause(t) = "fault"
    BY <1>0, <2>1 DEF Cause, HeldOpen
  <2>4. Tells(t, "dead")
    <3>1. "UDP echo" # "TCP echo" /\ "UDP echo" \in LoopExits
      BY DEF LoopExits
    <3> QED
      BY <1>0, <1>4, <2>3, <3>1, ReportTells, Zenon
  <2>5. Counts(t, "dead")
    BY <1>0, <2>1 DEF Counts, TypeOK, Received, Echoed
  <2> QED
    BY <2>2, <2>4, <2>5
<1> QED
  BY <1>2, <1>3, <1>4 DEF UdpEcho

\* The steps of a connection's thread.
LEMMA HandlerSteps ==
    ASSUME BackendInv, NEW t \in Handlers, HandleTcp(t)
    PROVE  \E s : Moves(t, s) /\ Tells(t, s) /\ Counts(t, s)
<1> USE DEF BackendInv
<1>0. t \in Threads /\ stats \in [DOMAIN NoStats -> Nat] /\ sent \in 0..MaxData
  BY ThreadNames DEF TypeOK
<1>1. UNCHANGED <<ownerVars, threads, conns>>
  BY DEF HandleTcp, HandlerHead, LoopTimeout, HandlerReceive, HandlerEchoed,
         HandlerEchoFails, HandlerEof, HandlerError
<1>2. ASSUME NEW s \in {"check", "wait", "dead"}, state[t] \in {"check", "wait"},
             Goto(t, s), UNCHANGED <<sent, stats, reports, silent>>
      PROVE  Moves(t, s) /\ Tells(t, s) /\ Counts(t, s)
  <2>1. Moves(t, s)
    BY <1>0, <1>1, <1>2, GotoMoves
  <2>2. Tells(t, s) /\ Counts(t, s)
    BY <1>0, <1>2 DEF Tells, Counts, Received, Echoed
  <2> QED
    BY <2>1, <2>2
<1>3. CASE HandlerHead(t) \/ LoopTimeout(t) \/ HandlerEof(t)
  <2>1. /\ UNCHANGED <<sent, stats, reports, silent>> /\ state[t] \in {"check", "wait"}
        /\ Goto(t, "check") \/ Goto(t, "wait") \/ Goto(t, "dead")
    BY <1>3 DEF HandlerHead, HandlerNext, LoopTimeout, HandlerEof
  <2> QED
    BY <1>2, <2>1
<1>4. CASE HandlerReceive(t)
  <2>1. /\ state[t] = "wait" /\ Goto(t, "echo") /\ UNCHANGED <<reports, silent>>
        /\ sent < MaxData /\ sent' = sent + 1
        /\ stats' = [stats EXCEPT !["received"] = @ + 1]
    BY <1>4 DEF HandlerReceive
  <2>2. Moves(t, "echo")
    BY <1>0, <1>1, <2>1, GotoMoves
  <2>3. Tells(t, "echo")
    BY <2>1 DEF Tells
  <2>4. sent' \in 0..MaxData
    BY <1>0, <2>1, BackendAssumption
  <2>5. stats' \in [DOMAIN NoStats -> Nat] /\ Received' = Received + 1 /\ Echoed' = Echoed
    BY <1>0, <2>1, CountLemma, CounterNames DEF Received, Echoed
  <2> QED
    BY <2>1, <2>2, <2>3, <2>4, <2>5 DEF Counts
<1>5. CASE HandlerEchoed(t)
  <2>1. /\ state[t] = "echo" /\ Goto(t, "check") /\ UNCHANGED <<sent, reports, silent>>
        /\ stats' = [stats EXCEPT !["echoed"] = @ + 1]
    BY <1>5 DEF HandlerEchoed
  <2>2. Moves(t, "check")
    BY <1>0, <1>1, <2>1, GotoMoves
  <2>3. Tells(t, "check")
    BY <2>1 DEF Tells
  <2>4. stats' \in [DOMAIN NoStats -> Nat] /\ Received' = Received /\ Echoed' = Echoed + 1
    BY <1>0, <2>1, CountLemma, CounterNames DEF Received, Echoed
  <2> QED
    BY <1>0, <2>1, <2>2, <2>3, <2>4 DEF Counts
<1>6. CASE HandlerEchoFails(t) \/ HandlerError(t)
  <2>1. /\ Goto(t, "dead") /\ UNCHANGED <<sent, stats>>
        /\ \/ state[t] = "echo" /\ ReportLoopExit(t, "TCP echo", "fault")
           \/ state[t] = "wait" /\ ReportLoopExit(t, "TCP connection", "fault")
    BY <1>6 DEF HandlerEchoFails, HandlerError
  <2>2. Moves(t, "dead")
    BY <1>0, <1>1, <2>1, GotoMoves
  <2>3. Tells(t, "dead")
    <3>1. /\ "TCP echo" \in LoopExits /\ "TCP connection" \in LoopExits
          /\ "TCP connection" # "TCP echo" /\ "fault" \in {"fault", "closed"}
      BY DEF LoopExits
    <3> QED
      BY <1>0, <2>1, <3>1, ReportTells, Zenon
  <2>4. Counts(t, "dead")
    BY <1>0, <2>1 DEF Counts, ReportLoopExit, Received, Echoed
  <2> QED
    BY <2>2, <2>3, <2>4
<1> QED
  BY <1>3, <1>4, <1>5, <1>6 DEF HandleTcp

\* There are finitely many connections.
LEMMA HandlersFinite == IsFiniteSet(Handlers)
<1>1. IsFiniteSet(1..MaxConns)
  BY FS_Interval, BackendAssumption
<1>2. Handlers = {<<"conn", c>> : c \in 1..MaxConns}
  BY DEF Handlers
<1> DEFINE f == [c \in 1..MaxConns |-> <<"conn", c>>]
<1>3. f \in Surjection(1..MaxConns, Handlers)
  BY <1>2 DEF Surjection
<1> QED
  BY <1>1, <1>3, FS_Surjection

\* How a step changes the set of the connections that are echoing a chunk.
LEMMA EchoCount ==
    ASSUME BackendInv, NEW t \in Threads, NEW s, Moves(t, s)
    PROVE  /\ IsFiniteSet(Echoing) /\ Cardinality(Echoing) \in Nat
           /\ t \in Handlers /\ state[t] # "echo" /\ s = "echo"
                 => Cardinality(Echoing)' = Cardinality(Echoing) + 1
           /\ t \in Handlers /\ state[t] = "echo" /\ s # "echo"
                 => /\ Cardinality(Echoing) = Cardinality(Echoing)' + 1
                    /\ Cardinality(Echoing)' \in Nat
           /\ t \notin Handlers \/ (state[t] # "echo" /\ s # "echo")
                 => Echoing' = Echoing
<1> USE DEF BackendInv
<1>2. IsFiniteSet(Echoing)
  BY HandlersFinite, FS_Subset DEF Echoing
<1>3. Cardinality(Echoing) \in Nat
  BY <1>2, FS_CardinalityType
<1>4. /\ t \in Threads => (state'[t] = s /\ \A u \in Threads : u # t => state'[u] = state[u])
      /\ Handlers \subseteq Threads
  BY ThreadNames DEF Moves, TypeOK
<1>5. ASSUME t \in Handlers, state[t] # "echo", s = "echo"
      PROVE  Cardinality(Echoing)' = Cardinality(Echoing) + 1
  <2>1. Echoing' = Echoing \cup {t} /\ t \notin Echoing
    BY <1>4, <1>5 DEF Echoing
  <2> QED
    BY <1>2, <1>3, <2>1, FS_AddElement
<1>6. ASSUME t \in Handlers, state[t] = "echo", s # "echo"
      PROVE  /\ Cardinality(Echoing) = Cardinality(Echoing)' + 1
             /\ Cardinality(Echoing)' \in Nat
  <2>1. Echoing' = Echoing \ {t} /\ t \in Echoing
    BY <1>4, <1>6 DEF Echoing
  <2>2. Cardinality(Echoing \ {t})
           = IF t \in Echoing THEN Cardinality(Echoing) - 1 ELSE Cardinality(Echoing)
    BY <1>2, FS_RemoveElement, Zenon
  <2>3. Cardinality(Echoing \ {t}) = Cardinality(Echoing) - 1
    BY <2>1, <2>2, Zenon
  <2>4. Cardinality(Echoing)' = Cardinality(Echoing) - 1
    BY <2>1, <2>3, Zenon
  <2>5. IsFiniteSet(Echoing')
    <3>1. IsFiniteSet(Echoing \ {t})
      BY <1>2, FS_RemoveElement
    <3> QED
      BY <2>1, <3>1
  <2>6. Cardinality(Echoing') \in Nat
    BY <2>5, FS_CardinalityType
  <2> QED
    BY <1>3, <2>4, <2>6
<1>7. ASSUME t \notin Handlers \/ (state[t] # "echo" /\ s # "echo")
      PROVE  Echoing' = Echoing
  BY <1>4, <1>7 DEF Echoing
<1> QED
  BY <1>2, <1>3, <1>5, <1>6, <1>7

\* A step of one thread keeps the account of the chunks.
LEMMA MovesEchoes ==
    ASSUME BackendInv, NEW t \in Threads, NEW s, Moves(t, s), Tells(t, s), Counts(t, s)
    PROVE  EchoesOK'
<1> USE DEF BackendInv
<1>0. /\ state'[t] = s /\ \A u \in Threads : u # t => state'[u] = state[u]
      /\ Handlers \subseteq Threads /\ state[t] # "dead"
      /\ UNCHANGED <<starts, stop>>
  BY ThreadNames DEF Moves, TypeOK, ownerVars
<1>1. /\ IsFiniteSet(reports)
      /\ \A r \in ReportedEchoes : r[2] \in Handlers /\ state[r[2]] = "dead"
  BY DEF EchoesOK
<1>2. IsFiniteSet(reports')
  <2>1. CASE UNCHANGED reports
    BY <1>1, <2>1
  <2>2. CASE \E r : reports' = reports \cup {r}
    BY <1>1, <2>2, FS_AddElement
  <2> QED
    BY <2>1, <2>2 DEF Tells
<1>3. \A r \in ReportedEchoes' : r[2] \in Handlers /\ state'[r[2]] = "dead"
  <2>1. \A r \in ReportedEchoes : r[2] \in Handlers /\ state'[r[2]] = "dead"
    BY <1>0, <1>1
  <2> SUFFICES ASSUME NEW r \in ReportedEchoes', r \notin ReportedEchoes
               PROVE  r[2] \in Handlers /\ state'[r[2]] = "dead"
    BY <2>1
  <2>2. r \in reports' /\ r[1] = "TCP echo" /\ r \notin reports
    BY DEF ReportedEchoes
  <2>3. PICK what \in LoopExits, cause \in {"fault", "closed"} :
           /\ reports' = reports \cup {<<what, t, cause>>} /\ s = "dead"
           /\ what = "TCP echo" => t \in Handlers
    BY <2>2 DEF Tells
  <2>4. r = <<what, t, cause>>
    BY <2>2, <2>3
  <2>5. r[1] = what /\ r[2] = t
    BY <2>4
  <2> QED
    BY <1>0, <2>2, <2>3, <2>5
<1>4. /\ silent' \subseteq Handlers /\ \A u \in silent' : state'[u] = "dead"
      /\ starts' <= 1 /\ ~ stop' => silent' = {}
  <2>1. /\ silent \subseteq Handlers /\ \A u \in silent : state[u] = "dead"
        /\ starts <= 1 /\ ~ stop => silent = {}
    BY DEF EchoesOK, TypeOK
  <2>2. CASE UNCHANGED silent
    BY <1>0, <2>1, <2>2
  <2>3. CASE s = "dead" /\ stop /\ t \in Handlers /\ silent' = silent \cup {t}
    BY <1>0, <2>1, <2>3
  <2> QED
    BY <2>2, <2>3 DEF Tells
<1>5. Received' = Echoed' + Cardinality(Echoing)' + Cardinality(ReportedEchoes)'
                    + Cardinality(silent)'
  <2>1. Received = Echoed + Cardinality(Echoing) + Cardinality(ReportedEchoes)
                      + Cardinality(silent)
    BY DEF EchoesOK, Received, Echoed
  <2>2. /\ Cardinality(Echoing) \in Nat /\ IsFiniteSet(ReportedEchoes)
        /\ Cardinality(ReportedEchoes) \in Nat
        /\ IsFiniteSet(silent) /\ Cardinality(silent) \in Nat
    <3>1. IsFiniteSet(ReportedEchoes)
      BY <1>1, FS_Subset DEF ReportedEchoes
    <3>2. IsFiniteSet(silent)
      BY HandlersFinite, FS_Subset DEF TypeOK
    <3> QED
      BY <3>1, <3>2, EchoCount, FS_CardinalityType
  <2>3. Received \in Nat /\ Echoed \in Nat
    BY CounterNames DEF TypeOK, Received, Echoed
  <2>4. t \notin Handlers \/ state[t] # "echo"
           => ReportedEchoes' = ReportedEchoes /\ silent' = silent
    <3> HAVE t \notin Handlers \/ state[t] # "echo"
    <3>1. CASE UNCHANGED <<reports, silent>>
      BY <3>1 DEF ReportedEchoes
    <3>2. CASE \E what \in LoopExits, cause \in {"fault", "closed"} :
                  /\ reports' = reports \cup {<<what, t, cause>>}
                  /\ what # "TCP echo" /\ silent' = silent
      <4>1. PICK what \in LoopExits, cause \in {"fault", "closed"} :
               /\ reports' = reports \cup {<<what, t, cause>>}
               /\ what # "TCP echo" /\ silent' = silent
        BY <3>2
      <4>2. <<what, t, cause>>[1] # "TCP echo"
        BY <4>1
      <4>3. ReportedEchoes' = ReportedEchoes
        BY <4>1, <4>2, Zenon DEF ReportedEchoes
      <4> QED
        BY <4>1, <4>3
    <3> QED
      BY <3>1, <3>2 DEF Tells
  <2>5. CASE t \notin Handlers /\ Received' = Received /\ Echoed' = Echoed
    BY <2>1, <2>4, <2>5, EchoCount
  <2>6. CASE /\ t \in Handlers /\ state[t] = "wait" /\ s = "echo"
             /\ Received' = Received + 1 /\ Echoed' = Echoed
    <3>1. /\ Cardinality(Echoing)' = Cardinality(Echoing) + 1
          /\ ReportedEchoes' = ReportedEchoes /\ silent' = silent
      BY <2>4, <2>6, EchoCount
    <3> QED
      BY <2>1, <2>2, <2>3, <2>6, <3>1
  <2>7. CASE /\ t \in Handlers /\ state[t] = "echo" /\ s = "check"
             /\ Received' = Received /\ Echoed' = Echoed + 1 /\ UNCHANGED <<reports, silent>>
    <3>1. /\ Cardinality(Echoing) = Cardinality(Echoing)' + 1
          /\ ReportedEchoes' = ReportedEchoes /\ silent' = silent
      BY <2>7, EchoCount DEF ReportedEchoes
    <3>2. Cardinality(Echoing)' \in Nat
      BY <2>7, EchoCount
    <3> QED
      BY <2>1, <2>2, <2>3, <2>7, <3>1, <3>2
  <2>8. ASSUME t \in Handlers, state[t] = "echo", s = "dead",
               Received' = Received, Echoed' = Echoed,
               \/ /\ Cardinality(ReportedEchoes)' = Cardinality(ReportedEchoes) + 1
                  /\ silent' = silent
               \/ /\ Cardinality(silent)' = Cardinality(silent) + 1
                  /\ ReportedEchoes' = ReportedEchoes
        PROVE  Received' = Echoed' + Cardinality(Echoing)' + Cardinality(ReportedEchoes)'
                             + Cardinality(silent)'
    <3>1. Cardinality(Echoing) = Cardinality(Echoing)' + 1 /\ Cardinality(Echoing)' \in Nat
      BY <2>8, EchoCount
    <3> QED
      BY <2>1, <2>2, <2>3, <2>8, <3>1
  <2>9. CASE /\ t \in Handlers /\ state[t] = "echo" /\ s = "dead"
             /\ Received' = Received /\ Echoed' = Echoed
             /\ ~ stop => reports' = reports \cup {<<"TCP echo", t, "fault">>}
                          /\ silent' = silent
             /\ stop => silent' = silent \cup {t} /\ reports' = reports
    <3>1. CASE ~ stop
      <4> DEFINE r == <<"TCP echo", t, "fault">>
      <4>1. r[1] = "TCP echo" /\ r[2] = t
        OBVIOUS
      <4>2. r \notin ReportedEchoes
        BY <1>0, <1>1, <4>1
      <4>3. reports' = reports \cup {r} /\ silent' = silent
        BY <2>9, <3>1
      <4>4. ReportedEchoes' = ReportedEchoes \cup {r}
        BY <4>1, <4>3 DEF ReportedEchoes
      <4> HIDE DEF r
      <4>5. Cardinality(ReportedEchoes)' = Cardinality(ReportedEchoes) + 1
        BY <2>2, <4>2, <4>4, FS_AddElement
      <4> QED
        BY <2>8, <2>9, <4>3, <4>5, Zenon
    <3>2. CASE stop
      <4>1. silent' = silent \cup {t} /\ reports' = reports
        BY <2>9, <3>2
      <4>2. t \notin silent
        BY <1>0 DEF EchoesOK
      <4>3. Cardinality(silent)' = Cardinality(silent) + 1
        BY <2>2, <4>1, <4>2, FS_AddElement
      <4>4. ReportedEchoes' = ReportedEchoes
        BY <4>1 DEF ReportedEchoes
      <4> QED
        BY <2>8, <2>9, <4>3, <4>4, Zenon
    <3> QED
      BY <3>1, <3>2
  <2>10. CASE /\ t \in Handlers /\ state[t] # "echo" /\ s # "echo"
              /\ Received' = Received /\ Echoed' = Echoed
    BY <2>1, <2>4, <2>10, EchoCount
  <2> QED
    BY <2>5, <2>6, <2>7, <2>9, <2>10 DEF Counts
<1> QED
  BY <1>2, <1>3, <1>4, <1>5 DEF EchoesOK, Received, Echoed

\* A step of one thread preserves the invariant.
LEMMA MovesInv ==
    ASSUME BackendInv, NEW t \in Threads, NEW s, Moves(t, s), Tells(t, s), Counts(t, s)
    PROVE  BackendInv'
<1> USE DEF BackendInv
<1>0. /\ s \in {"check", "wait", "echo", "dead"} /\ state[t] \in {"check", "wait", "echo"}
      /\ state' = [state EXCEPT ![t] = s] /\ local' \in [Threads -> Nat]
      /\ \A u \in Threads : u # t => local'[u] = local[u]
      /\ UNCHANGED <<owner, failing, starts, stop, tcpSocket, udpSocket, open, bound, joined,
                     timedOut, shown, threads, conns>>
  BY DEF Moves, ownerVars
<1>1. /\ state' \in [Threads -> ThreadStates]
      /\ state'[t] = s /\ \A u \in Threads : u # t => state'[u] = state[u]
  BY <1>0 DEF TypeOK, ThreadStates
<1>2. /\ starts \in 1..MaxStarts
      /\ timedOut \/ (owner \notin {"idle"} \cup Binding /\ ~ failing)
  BY <1>0, Running DEF Live
<1>3. TypeOK'
  <2>1. \A u \in TcpLoops \cup UdpLoops : state'[u] = "wait" => local'[u] # None
    <3> SUFFICES ASSUME NEW u \in TcpLoops \cup UdpLoops, state'[u] = "wait"
                 PROVE  local'[u] # None
      OBVIOUS
    <3>1. u \in Threads /\ u \notin Handlers
      BY ThreadNames
    <3>2. CASE u = t
      BY <1>1, <3>1, <3>2 DEF Moves
    <3>3. CASE u # t
      BY <1>0, <1>1, <3>1, <3>3 DEF TypeOK
    <3> QED
      BY <3>2, <3>3
  <2>2. reports' \subseteq LoopExits \X Threads \X {"fault", "closed"}
    <3>1. reports \subseteq LoopExits \X Threads \X {"fault", "closed"}
      BY DEF TypeOK
    <3>2. CASE UNCHANGED reports
      BY <3>1, <3>2
    <3>3. CASE \E what \in LoopExits, cause \in {"fault", "closed"} :
                  reports' = reports \cup {<<what, t, cause>>}
      BY <3>1, <3>3
    <3> QED
      BY <3>2, <3>3 DEF Tells
  <2>3. sent' \in 0..MaxData /\ stats' \in [DOMAIN NoStats -> Nat]
    BY DEF Counts
  <2>4. silent' \subseteq Handlers
    BY DEF Tells, TypeOK
  <2> QED
    BY <1>0, <1>1, <2>1, <2>2, <2>3, <2>4, Zenon DEF TypeOK
<1>4. OwnerOK'
  BY <1>0, <1>2 DEF OwnerOK
<1>5. SocketsOK'
  BY <1>0 DEF SocketsOK
<1>6. BornOK'
  <2>1. \A u \in Threads : state[u] = "unborn" => state'[u] = "unborn"
    BY <1>0, <1>1
  <2>2. \A u \in Threads :
           state'[u] = "spawned" => u \in TcpLoops /\ local'[u] \in 1..MaxConns
    BY <1>0, <1>1 DEF BornOK
  <2>3. /\ \A g \in 1..MaxStarts : <<"tcp", g>> \in Threads /\ <<"udp", g>> \in Threads
        /\ \A c \in 1..MaxConns : <<"conn", c>> \in Threads
        /\ UdpLoops \subseteq Threads
    BY ThreadNames
  <2> QED
    BY <1>0, <1>2, <2>1, <2>2, <2>3 DEF BornOK
<1>7. ListedOK'
  <2>1. \A a \in TcpLoops :
           state[a] = "spawned" => state'[a] = "spawned" /\ local'[a] = local[a]
    BY <1>0, <1>1, ThreadNames
  <2>2. \A u : ToBeJoined(u) => ToBeJoined(u)'
    BY <1>0, <2>1 DEF ToBeJoined
  <2>3. LiveThreads' \subseteq LiveThreads
    BY <1>0, <1>1 DEF LiveThreads, Live
  <2> QED
    BY <1>0, <2>2, <2>3 DEF ListedOK
<1>8. QuietOK'
  BY <1>0, <1>2 DEF QuietOK
<1>9. HeldOpen'
  <2> SUFFICES ASSUME ~ timedOut, ~ stop, NEW u \in TcpLoops \cup UdpLoops,
                      state'[u] \in {"wait", "echo"}
               PROVE  <<u[1], local'[u]>> \in open
    BY <1>0 DEF HeldOpen
  <2>1. u \in Threads /\ u \notin Handlers
    BY ThreadNames
  <2>2. CASE u = t
    BY <1>1, <2>1, <2>2 DEF Moves
  <2>3. CASE u # t
    BY <1>0, <1>1, <2>1, <2>3 DEF HeldOpen
  <2> QED
    BY <2>2, <2>3
<1>10. ReportedOK'
  <2>1. reports \subseteq reports' /\ (~ timedOut => \A r \in reports' : r[3] = "fault")
    <3>1. ~ timedOut => \A r \in reports : r[3] = "fault"
      BY DEF ReportedOK
    <3>2. CASE UNCHANGED reports
      BY <3>1, <3>2
    <3>3. CASE \E what, cause : reports' = reports \cup {<<what, t, cause>>}
                                /\ (~ timedOut => cause = "fault")
      BY <3>1, <3>3
    <3> QED
      BY <3>2, <3>3 DEF Tells
  <2>2. ASSUME owner \in Up, NEW u \in {<<"tcp", starts>>, <<"udp", starts>>},
               u \in Threads, state'[u] = "dead"
        PROVE  \E r \in reports' : r[2] = u
    <3>1. CASE u = t
      <4>1. u \notin Handlers /\ u[2] = starts
        BY <1>2, ThreadNames
      <4> QED
        BY <1>1, <2>2, <3>1, <4>1 DEF Tells
    <3>2. CASE u # t
      BY <1>1, <2>1, <2>2, <3>2 DEF ReportedOK
    <3> QED
      BY <3>1, <3>2
  <2> QED
    BY <1>0, <2>1, <2>2 DEF ReportedOK
<1>11. EchoesOK'
  BY MovesEchoes
<1> QED
  BY <1>3, <1>4, <1>5, <1>6, <1>7, <1>8, <1>9, <1>10, <1>11

\* accept() hands a connection to a thread of its own ...
LEMMA AcceptInv ==
    ASSUME BackendInv, NEW t \in TcpLoops, Accept(t)
    PROVE  BackendInv'
<1> USE DEF BackendInv
<1> DEFINE n == <<"conn", conns + 1>>
<1>0. /\ state[t] = "wait" /\ conns < MaxConns /\ conns' = conns + 1
      /\ stats' = [stats EXCEPT !["connections"] = @ + 1]
      /\ state' = [state EXCEPT ![t] = "spawned", ![n] = "check"]
      /\ local' = [local EXCEPT ![t] = conns + 1]
      /\ UNCHANGED <<owner, failing, starts, stop, tcpSocket, udpSocket, open, bound, joined,
                     timedOut, shown, threads, sent, reports, silent>>
  BY DEF Accept, ownerVars
<1>1. /\ conns \in Nat /\ MaxConns \in Nat /\ conns + 1 \in 1..MaxConns
      /\ conns + 1 \in 0..MaxConns /\ conns + 1 \in Nat
  BY <1>0, Numbers
<1>2. t \in Threads /\ n \in Handlers /\ n \in Threads /\ n # t /\ t \notin Handlers
  BY <1>1, ThreadNames
<1>3. state[n] = "unborn"
  BY <1>1 DEF BornOK
<1> HIDE DEF n
<1>4. /\ state' \in [Threads -> ThreadStates] /\ state'[t] = "spawned" /\ state'[n] = "check"
      /\ \A u \in Threads : u # t /\ u # n => state'[u] = state[u]
  BY <1>0, <1>2 DEF TypeOK, ThreadStates
<1>5. /\ local' \in [Threads -> Nat] /\ local'[t] = conns + 1
      /\ \A u \in Threads : u # t => local'[u] = local[u]
  BY <1>0, <1>1, <1>2 DEF TypeOK
<1>6. /\ stats' \in [DOMAIN NoStats -> Nat] /\ Received' = Received /\ Echoed' = Echoed
  BY <1>0, CountLemma, CounterNames DEF TypeOK, Received, Echoed
<1>7. /\ starts \in 1..MaxStarts
      /\ timedOut \/ (owner \notin {"idle"} \cup Binding /\ ~ failing)
  BY <1>0, <1>2, Running DEF Live
<1>8. TypeOK'
  <2>1. \A u \in TcpLoops \cup UdpLoops : state'[u] = "wait" => local'[u] # None
    <3>1. \A u \in TcpLoops \cup UdpLoops : u \in Threads /\ u # n
      BY <1>2, ThreadNames
    <3> QED
      BY <1>4, <1>5, <3>1 DEF TypeOK
  <2> QED
    BY <1>0, <1>1, <1>4, <1>5, <1>6, <2>1, Zenon DEF TypeOK
<1>9. OwnerOK' /\ SocketsOK'
  BY <1>0 DEF OwnerOK, SocketsOK
<1>10. BornOK'
  <2>1. \A u \in Threads : state[u] = "unborn" /\ u # n => state'[u] = "unborn"
    BY <1>0, <1>4
  <2>2. \A u \in Threads :
           state'[u] = "spawned" => u \in TcpLoops /\ local'[u] \in 1..MaxConns
    BY <1>1, <1>4, <1>5 DEF BornOK
  <2>3. /\ \A g \in 1..MaxStarts : /\ <<"tcp", g>> \in Threads /\ <<"tcp", g>> # n
                                  /\ <<"udp", g>> \in Threads /\ <<"udp", g>> # n
        /\ \A u \in UdpLoops : u \in Threads /\ u # n
    BY <1>2, ThreadNames
  <2>4. \A c \in 1..MaxConns : c > conns + 1 => state'[<<"conn", c>>] = "unborn"
    <3> SUFFICES ASSUME NEW c \in 1..MaxConns, c > conns + 1
                 PROVE  state'[<<"conn", c>>] = "unborn"
      OBVIOUS
    <3>1. <<"conn", c>> # n /\ <<"conn", c>> \in Threads
      BY <1>1, ThreadNames DEF n
    <3>2. state[<<"conn", c>>] = "unborn"
      BY <1>1 DEF BornOK
    <3> QED
      BY <2>1, <3>1, <3>2
  <2> QED
    BY <1>0, <1>7, <2>1, <2>2, <2>3, <2>4 DEF BornOK
<1>11. ListedOK'
  <2> SUFFICES ASSUME ~ timedOut, NEW u \in Threads, Live(u)' PROVE ToBeJoined(u)'
    BY <1>0 DEF ListedOK, LiveThreads
  <2>1. CASE u = n
    BY <1>4, <1>5, <2>1 DEF ToBeJoined, n
  <2>2. CASE u # n
    <3>1. ToBeJoined(u)
      BY <1>0, <1>4, <2>2 DEF ListedOK, LiveThreads, Live
    <3>2. \A a \in TcpLoops :
             state[a] = "spawned" => state'[a] = "spawned" /\ local'[a] = local[a]
      BY <1>0, <1>3, <1>4, <1>5, ThreadNames
    <3> QED
      BY <1>0, <3>1, <3>2 DEF ToBeJoined
  <2> QED
    BY <2>1, <2>2
<1>12. QuietOK'
  BY <1>0, <1>7 DEF QuietOK
<1>13. HeldOpen'
  <2>1. \A u \in TcpLoops \cup UdpLoops : u \in Threads /\ u # n
    BY <1>2, ThreadNames
  <2> QED
    BY <1>0, <1>4, <1>5, <2>1 DEF HeldOpen
<1>14. ReportedOK'
  BY <1>0, <1>4 DEF ReportedOK
<1>15. EchoesOK'
  <2>1. \A u \in Handlers : u \in Threads /\ u # t
    BY <1>2, ThreadNames
  <2>2. Echoing' = Echoing /\ ReportedEchoes' = ReportedEchoes
    BY <1>0, <1>3, <1>4, <2>1 DEF Echoing, ReportedEchoes
  <2>3. /\ \A r \in ReportedEchoes : r[2] \in Handlers /\ state'[r[2]] = "dead"
        /\ \A u \in silent : state'[u] = "dead"
    BY <1>3, <1>4, <2>1 DEF EchoesOK, TypeOK
  <2> QED
    BY <1>0, <1>6, <2>2, <2>3 DEF EchoesOK, Received, Echoed
<1> QED
  BY <1>8, <1>9, <1>10, <1>11, <1>12, <1>13, <1>14, <1>15

\* ... and lists it.
LEMMA AppendInv ==
    ASSUME BackendInv, NEW t \in TcpLoops, AcceptAppend(t)
    PROVE  BackendInv'
<1> USE DEF BackendInv
<1> DEFINE n == <<"conn", local[t]>>
<1>0. /\ state[t] = "spawned" /\ threads' = Append(threads, n)
      /\ state' = [state EXCEPT ![t] = "check"] /\ local' = [local EXCEPT ![t] = None]
      /\ UNCHANGED <<owner, failing, starts, stop, tcpSocket, udpSocket, open, bound, joined,
                     timedOut, shown, conns, sent, stats, reports, silent>>
  BY DEF AcceptAppend, Goto, ownerVars
<1>1. t \in Threads /\ t \notin Handlers /\ n \in Threads
  BY <1>0, ThreadNames DEF BornOK
<1> HIDE DEF n
<1>2. /\ threads' \in Seq(Threads)
      /\ Len(threads) \in Nat /\ Len(threads') = Len(threads) + 1
      /\ \A i \in 1..Len(threads) : threads'[i] = threads[i]
      /\ threads'[Len(threads) + 1] = n
  <2>1. threads \in Seq(Threads)
    BY DEF TypeOK
  <2> QED
    BY <1>0, <1>1, <2>1
<1>3. /\ state' \in [Threads -> ThreadStates] /\ state'[t] = "check"
      /\ \A u \in Threads : u # t => state'[u] = state[u]
  BY <1>0, <1>1 DEF TypeOK, ThreadStates
<1>4. /\ local' \in [Threads -> Nat] /\ \A u \in Threads : u # t => local'[u] = local[u]
  BY <1>0, <1>1 DEF TypeOK, None
<1>5. /\ starts \in 1..MaxStarts
      /\ timedOut \/ (owner \notin {"idle"} \cup Binding /\ ~ failing)
  BY <1>0, <1>1, Running DEF Live
<1>6. joined \in Nat /\ joined <= Len(threads)
  BY Numbers DEF OwnerOK
<1>7. TypeOK'
  <2>1. \A u \in TcpLoops \cup UdpLoops : state'[u] = "wait" => local'[u] # None
    <3>1. \A u \in TcpLoops \cup UdpLoops : u \in Threads
      BY ThreadNames
    <3> QED
      BY <1>3, <1>4, <3>1 DEF TypeOK
  <2> QED
    BY <1>0, <1>2, <1>3, <1>4, <2>1, Zenon DEF TypeOK
<1>8. OwnerOK'
  <2>1. joined' <= Len(threads')
    BY <1>0, <1>2, <1>6
  <2> QED
    BY <1>0, <2>1 DEF OwnerOK
<1>9. SocketsOK'
  BY <1>0 DEF SocketsOK
<1>10. BornOK'
  <2>1. \A u \in Threads : state[u] = "unborn" => state'[u] = "unborn"
    BY <1>0, <1>3
  <2>2. \A u \in Threads :
           state'[u] = "spawned" => u \in TcpLoops /\ local'[u] \in 1..MaxConns
    BY <1>3, <1>4 DEF BornOK
  <2>3. /\ \A g \in 1..MaxStarts : <<"tcp", g>> \in Threads /\ <<"udp", g>> \in Threads
        /\ \A c \in 1..MaxConns : <<"conn", c>> \in Threads
        /\ UdpLoops \subseteq Threads
    BY ThreadNames
  <2> QED
    BY <1>0, <1>5, <2>1, <2>2, <2>3 DEF BornOK
<1>11. ListedOK'
  <2> SUFFICES ASSUME ~ timedOut, NEW u \in Threads, Live(u)' PROVE ToBeJoined(u)'
    BY <1>0 DEF ListedOK, LiveThreads
  <2>1. ToBeJoined(u)
    BY <1>0, <1>1, <1>3 DEF ListedOK, LiveThreads, Live
  <2>2. CASE u = n
    <3>1. Len(threads) + 1 \in 1..Len(threads') /\ Len(threads) + 1 > joined'
      BY <1>0, <1>2, <1>6
    <3> QED
      BY <1>2, <2>2, <3>1 DEF ToBeJoined
  <2>3. CASE \E i \in 1..Len(threads) : i > joined /\ threads[i] = u
    <3>1. \E i \in 1..Len(threads') : i > joined' /\ threads'[i] = u
      BY <1>0, <1>2, <2>3
    <3> QED
      BY <3>1 DEF ToBeJoined
  <2>4. CASE \E a \in TcpLoops : a # t /\ state[a] = "spawned" /\ u = <<"conn", local[a]>>
    <3>1. \A a \in TcpLoops : a # t => state'[a] = state[a] /\ local'[a] = local[a]
      BY <1>3, <1>4, ThreadNames
    <3> QED
      BY <2>4, <3>1 DEF ToBeJoined
  <2> QED
    BY <2>1, <2>2, <2>3, <2>4 DEF ToBeJoined, n
<1>12. QuietOK'
  BY <1>0, <1>5 DEF QuietOK
<1>13. HeldOpen'
  <2>1. \A u \in TcpLoops \cup UdpLoops : u \in Threads
    BY ThreadNames
  <2> QED
    BY <1>0, <1>3, <1>4, <2>1 DEF HeldOpen
<1>14. ReportedOK'
  BY <1>0, <1>3 DEF ReportedOK
<1>15. EchoesOK'
  <2>1. \A u \in Handlers : u \in Threads /\ u # t
    BY <1>1, ThreadNames
  <2>2. Echoing' = Echoing /\ ReportedEchoes' = ReportedEchoes
    BY <1>0, <1>3, <2>1 DEF Echoing, ReportedEchoes
  <2>3. /\ \A r \in ReportedEchoes : r[2] \in Handlers /\ state'[r[2]] = "dead"
        /\ \A u \in silent : state'[u] = "dead"
    BY <1>3, <2>1 DEF EchoesOK, TypeOK
  <2> QED
    BY <1>0, <2>2, <2>3 DEF EchoesOK
<1> QED
  BY <1>7, <1>8, <1>9, <1>10, <1>11, <1>12, <1>13, <1>14, <1>15

\* Any step of any thread.
LEMMA ThreadInv ==
    ASSUME BackendInv, NEW t \in Threads, ThreadStep(t)
    PROVE  BackendInv'
<1>1. /\ \A what \in {"TCP accept loop", "UDP receive loop"} :
            what \in LoopExits /\ what # "TCP echo"
      /\ \A u \in TcpLoops : u \notin UdpLoops
      /\ \A u \in UdpLoops : u \notin TcpLoops
  BY ThreadNames DEF LoopExits
<1>2. CASE t \in TcpLoops /\ AcceptLoop(t)
  <2>1. CASE Accept(t)
    BY <1>2, <2>1, AcceptInv
  <2>2. CASE AcceptAppend(t)
    BY <1>2, <2>2, AppendInv
  <2>3. CASE AcceptHead(t) \/ LoopTimeout(t) \/ LoopError(t, "TCP accept loop")
    <3>1. \E s : Moves(t, s) /\ Tells(t, s) /\ Counts(t, s)
      BY <1>1, <1>2, <2>3, LoopSteps, Zenon DEF AcceptHead
    <3> QED
      BY <3>1, MovesInv
  <2> QED
    BY <1>2, <2>1, <2>2, <2>3 DEF AcceptLoop
<1>3. CASE t \in UdpLoops /\ UdpLoop(t)
  <2>1. CASE UdpHead(t) \/ LoopTimeout(t) \/ LoopError(t, "UDP receive loop")
    <3>1. \E s : Moves(t, s) /\ Tells(t, s) /\ Counts(t, s)
      BY <1>1, <1>3, <2>1, LoopSteps, Zenon DEF UdpHead
    <3> QED
      BY <3>1, MovesInv
  <2>2. CASE UdpReceive(t) \/ UdpEcho(t)
    <3>1. \E s : Moves(t, s) /\ Tells(t, s) /\ Counts(t, s)
      BY <1>3, <2>2, DatagramSteps
    <3> QED
      BY <3>1, MovesInv
  <2> QED
    BY <1>3, <2>1, <2>2 DEF UdpLoop
<1>4. CASE t \in Handlers /\ HandleTcp(t)
  <2>1. \E s : Moves(t, s) /\ Tells(t, s) /\ Counts(t, s)
    BY <1>4, HandlerSteps
  <2> QED
    BY <2>1, MovesInv
<1> QED
  BY <1>2, <1>3, <1>4 DEF ThreadStep

-----------------------------------------------------------------------------
(***************************************************************************)
(* The theorems.                                                           *)
(***************************************************************************)

LEMMA NextBackendInv == BackendInv /\ [Next]_vars => BackendInv'
<1> SUFFICES ASSUME BackendInv, [Next]_vars PROVE BackendInv'
  OBVIOUS
<1>1. CASE Start
  BY <1>1, BindInv, SpawnInv DEF Start
<1>2. CASE StopCalled \/ Stop
  BY <1>2, StopInv
<1>3. CASE \E t \in Threads : ThreadStep(t)
  BY <1>3, ThreadInv
<1>4. CASE UNCHANGED vars
  <2> USE <1>4 DEF vars, BackendInv
  <2>1. LiveThreads' = LiveThreads /\ Echoing' = Echoing /\ ReportedEchoes' = ReportedEchoes
    BY QuietThreads DEF ReportedEchoes
  <2>2. TypeOK' /\ OwnerOK' /\ SocketsOK' /\ BornOK'
    BY DEF TypeOK, OwnerOK, SocketsOK, BornOK
  <2>3. ListedOK' /\ QuietOK'
    BY <2>1 DEF ListedOK, QuietOK, ToBeJoined
  <2>4. HeldOpen' /\ ReportedOK'
    BY DEF HeldOpen, ReportedOK
  <2>5. EchoesOK'
    BY <2>1 DEF EchoesOK
  <2> QED
    BY <2>2, <2>3, <2>4, <2>5
<1> QED
  BY <1>1, <1>2, <1>3, <1>4 DEF Next, Finished

\* The inductive invariant holds in every reachable state of the backend.
THEOREM InvariantHolds == Spec => []BackendInv
BY InitBackendInv, NextBackendInv, PTL DEF Spec

\* When start() or stop() has returned to an idle owner, both sockets are closed
\* and, unless a join timed out, every thread has ended; and a start() whose bind
\* failed has run no thread.
THEOREM StopReleasesAll == Spec => []StopReleasesEverything
<1>1. BackendInv => StopReleasesEverything
  <2> SUFFICES ASSUME BackendInv PROVE StopReleasesEverything
    OBVIOUS
  <2> USE DEF BackendInv
  <2>1. owner = "idle" => open = {} /\ tcpSocket = None /\ udpSocket = None
    BY DEF SocketsOK
  <2>2. owner = "idle" /\ ~ timedOut => LiveThreads = {} /\ threads = <<>>
    BY DEF QuietOK
  <2>3. failing => state[<<"tcp", starts>>] = "unborn" /\ state[<<"udp", starts>>] = "unborn"
    <3> HAVE failing
    <3>1. starts \in 1..MaxStarts
      BY Numbers DEF OwnerOK
    <3> QED
      BY <3>1 DEF BornOK
  <2> QED
    BY <2>1, <2>2, <2>3, Zenon DEF StopReleasesEverything
<1> QED
  BY <1>1, InvariantHolds, PTL

\* A loop that has ended while the backend serves has been reported, and stop()
\* itself is never reported as a failure.
THEOREM DeathsAreReported == Spec => []DeathIsReported
<1>1. BackendInv => DeathIsReported
  <2> SUFFICES ASSUME BackendInv PROVE DeathIsReported
    OBVIOUS
  <2> USE DEF BackendInv
  <2>1. owner = "serving" => starts \in 1..MaxStarts /\ owner \in Up
    BY Numbers DEF Up
  <2>2. owner = "serving" => <<"tcp", starts>> \in Threads /\ <<"udp", starts>> \in Threads
    BY <2>1, ThreadNames
  <2> QED
    BY <2>1, <2>2 DEF DeathIsReported, ReportedOK
<1> QED
  BY <1>1, InvariantHolds, PTL

\* A chunk that was received and not echoed is being echoed, was reported, or was
\* lost in silence by an echo that failed with the stop event set, which cannot
\* have happened before the first stop(); and what the panel shows is final.
THEOREM ShortfallsAreExplained == Spec => []ShortfallIsExplained
<1>1. BackendInv => ShortfallIsExplained
  <2> SUFFICES ASSUME BackendInv PROVE ShortfallIsExplained
    OBVIOUS
  <2> USE DEF BackendInv
  <2>1. /\ stats.received = stats.echoed + Cardinality(Echoing)
                               + Cardinality(ReportedEchoes) + Cardinality(silent)
        /\ starts <= 1 /\ ~ stop => silent = {}
    BY DEF EchoesOK
  <2>2. owner = "idle" /\ ~ timedOut => shown = stats
    BY DEF QuietOK
  <2> QED
    BY <2>1, <2>2, Zenon DEF ShortfallIsExplained, Echoing
<1> QED
  BY <1>1, InvariantHolds, PTL
=============================================================================
