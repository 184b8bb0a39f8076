------------------------ MODULE RunControllerProofs ------------------------
(***************************************************************************)
(* Proofs about the GUI's run (RunController), for every set of tests, any *)
(* number of runs and every combination of faults.                         *)
(***************************************************************************)
EXTENDS RunController, PytestChildProofs, FiniteSetTheorems

-----------------------------------------------------------------------------
(***************************************************************************)
(* The inductive invariant.                                                *)
(***************************************************************************)

\* The result in memory is the reading of exactly the lines the offsets say
\* were read: the worst verdict of each test, and every event line in order.
ResultOK ==
    /\ reportOffset <= Complete
    /\ eventsOffset <= CompletePackets
    /\ tests = WorstOver(reportLog, reportOffset)
    /\ Lists(packets, EventLines(0, eventsOffset))

\* While a process is held the run has not been stopped, recorded or closed.
HeldOK ==
    process = "running" =>
       ~ stopped /\ ~ launchFailed /\ ~ saved.present /\ pill # "all passed"

\* Before the first click there is nothing on disk and nothing in memory.
FreshOK ==
    runs = 0 => /\ process = "none" /\ tests = Unseen /\ ~ saved.present
                /\ reportLog = <<>> /\ reportTorn = FALSE

\* The invariant every slot and every step of the child preserves.
ControllerInv ==
    /\ ButtonsTellTheTruth
    /\ TornOK /\ EndedOK
    /\ ResultOK
    /\ HeldOK
    /\ FreshOK
    /\ SavedIsThisRun
    /\ GreenIsClean

-----------------------------------------------------------------------------
(***************************************************************************)
(* The drains.                                                             *)
(***************************************************************************)

\* EventSeq does list the event lines it is asked for: the number of event
\* lines before a line tells them apart, so every rank is taken.
LEMMA EventSeqLemma ==
    ASSUME NEW a \in Nat, NEW b \in Nat
    PROVE  /\ EventSeq(a, b) \in Seq(Nat)
           /\ Lists(EventSeq(a, b), EventLines(a, b))
<1> DEFINE events == EventLines(a, b)
           n == Cardinality(events)
           Before(i) == {j \in events : j < i}
           rank == [i \in events |-> Cardinality(Before(i)) + 1]
           s == EventSeq(a, b)
<1>1. /\ IsFiniteSet(events) /\ n \in Nat
      /\ events \subseteq Nat
      /\ \A i : Before(i) \in SUBSET events
  <2>1. IsFiniteSet(a+1..b) /\ events \in SUBSET (a+1..b)
    BY FS_Interval DEF EventLines
  <2>2. IsFiniteSet(events)
    BY <2>1, FS_Subset
  <2>3. events \subseteq Nat
    BY <2>1
  <2> QED
    BY <2>2, <2>3, FS_CardinalityType
<1>2. ASSUME NEW i \in events
      PROVE  /\ IsFiniteSet(Before(i)) /\ Cardinality(Before(i)) \in Nat
             /\ Cardinality(Before(i)) < n
  <2>1. IsFiniteSet(Before(i)) /\ Cardinality(Before(i)) <= n
    BY <1>1, FS_Subset
  <2>2. Cardinality(Before(i)) \in Nat
    BY <2>1, FS_CardinalityType
  <2>3. Cardinality(Before(i)) # n
    <3>1. i \in Nat /\ i \notin Before(i)
      BY <1>1
    <3> QED
      BY <1>1, <3>1, FS_Subset
  <2> QED
    BY <1>1, <2>1, <2>2, <2>3
<1>3. ASSUME NEW i \in events, NEW j \in events, i < j
      PROVE  Cardinality(Before(i)) < Cardinality(Before(j))
  <2>1. Before(i) \in SUBSET Before(j) /\ i \in Before(j) /\ i \notin Before(i)
    BY <1>1, <1>3
  <2>2. /\ Cardinality(Before(i)) <= Cardinality(Before(j))
        /\ Cardinality(Before(j)) # Cardinality(Before(i))
    BY <1>2, <2>1, FS_Subset
  <2> QED
    BY <1>2, <2>2
<1> HIDE DEF events, Before
<1>4. rank \in [events -> 1..n]
  BY <1>1, <1>2
<1>5. rank \in Injection(events, 1..n)
  <2>1. ASSUME NEW i \in events, NEW j \in events, i # j
        PROVE  rank[i] # rank[j]
    <3>1. i < j \/ j < i
      BY <1>1, <2>1
    <3> QED
      BY <1>2, <1>3, <3>1
  <2> QED
    BY <1>4, <2>1 DEF Injection, IsInjective
<1>6. rank \in Surjection(events, 1..n)
  <2>1. IsFiniteSet(1..n) /\ Cardinality(1..n) = n
    BY <1>1, FS_Interval
  <2> QED
    BY <1>5, <2>1, FS_Injection
<1>7. s = [k \in 1..n |-> CHOOSE i \in events : Cardinality(Before(i)) = k - 1]
  BY DEF EventSeq, events, Before
<1>8. ASSUME NEW k \in 1..n
      PROVE  s[k] \in events /\ Cardinality(Before(s[k])) = k - 1
  <2>1. PICK i \in events : rank[i] = k
    BY <1>6 DEF Surjection
  <2>2. Cardinality(Before(i)) = k - 1
    BY <1>2, <2>1
  <2> QED
    BY <1>7, <2>2
<1> HIDE DEF n
<1>9. s \in Seq(Nat) /\ Len(s) = n
  <2>1. s = [k \in 1..n |-> s[k]]
    BY <1>7
  <2>2. \A k \in 1..n : s[k] \in Nat
    BY <1>1, <1>8
  <2> HIDE DEF s
  <2>3. s \in [1..n -> Nat]
    BY <2>1, <2>2
  <2> QED
    BY <1>1, <2>3
<1>10. \A k, l \in 1..n : k < l => s[k] < s[l]
  <2> SUFFICES ASSUME NEW k \in 1..n, NEW l \in 1..n, k < l, ~ (s[k] < s[l])
               PROVE  FALSE
    OBVIOUS
  <2>1. s[k] \in Nat /\ s[l] \in Nat
    BY <1>1, <1>8
  <2>2. s[l] < s[k] \/ s[l] = s[k]
    BY <2>1
  <2>3. /\ Cardinality(Before(s[k])) = k - 1 /\ Cardinality(Before(s[l])) = l - 1
        /\ s[k] \in events /\ s[l] \in events
    BY <1>8
  <2>4. CASE s[l] < s[k]
    <3>1. l - 1 < k - 1
      BY <1>3, <2>3, <2>4
    <3> QED
      BY <1>1, <3>1
  <2>5. CASE s[l] = s[k]
    BY <1>1, <2>3, <2>5
  <2> QED
    BY <2>2, <2>4, <2>5
<1>11. {s[k] : k \in 1..n} = events
  <2>1. ASSUME NEW i \in events PROVE \E k \in 1..n : s[k] = i
    <3>1. rank[i] \in 1..n /\ Cardinality(Before(i)) = rank[i] - 1
      BY <1>2, <1>4
    <3>2. s[rank[i]] \in events /\ Cardinality(Before(s[rank[i]])) = Cardinality(Before(i))
      BY <1>8, <3>1
    <3>3. s[rank[i]] = i
      <4>1. s[rank[i]] \in Nat /\ i \in Nat
        BY <1>1, <3>2
      <4> QED
        BY <1>2, <1>3, <3>2, <4>1
    <3> QED
      BY <3>1, <3>3
  <2> QED
    BY <1>8, <2>1
<1> QED
  BY <1>9, <1>10, <1>11 DEF Lists, events

\* A list of the first lines, continued by a list of the next ones, is a list
\* of them all.
LEMMA ListsConcat ==
    ASSUME NEW a \in Nat, NEW b \in Nat, a <= b,
           NEW p \in Seq(Nat), Lists(p, EventLines(0, a)),
           NEW q \in Seq(Nat), Lists(q, EventLines(a, b))
    PROVE  p \o q \in Seq(Nat) /\ Lists(p \o q, EventLines(0, b))
<1> DEFINE r == p \o q
           m == Len(p)
           n == Len(q)
<1>1. /\ r \in Seq(Nat) /\ Len(r) = m + n
      /\ m \in Nat /\ n \in Nat
      /\ \A i \in 1..m : r[i] = p[i]
      /\ \A i \in 1..m+n : i > m => r[i] = q[i - m]
  OBVIOUS
<1>2. /\ \A i, j \in 1..m : i < j => p[i] < p[j]
      /\ \A i, j \in 1..n : i < j => q[i] < q[j]
      /\ \A i \in 1..m : p[i] \in EventLines(0, a)
      /\ \A i \in 1..n : q[i] \in EventLines(a, b)
      /\ \A e \in EventLines(0, a) : \E i \in 1..m : p[i] = e
      /\ \A e \in EventLines(a, b) : \E i \in 1..n : q[i] = e
  BY DEF Lists
<1>3. /\ EventLines(0, b) = EventLines(0, a) \cup EventLines(a, b)
      /\ \A e \in EventLines(0, a) : e \in Nat /\ e <= a
      /\ \A e \in EventLines(a, b) : e \in Nat /\ a < e
  BY DEF EventLines
<1> HIDE DEF r, m, n
<1>4. /\ \A i \in 1..m+n : i \in 1..m \/ (i > m /\ i - m \in 1..n)
      /\ \A i \in 1..n : m + i \in 1..m+n /\ m + i > m /\ (m + i) - m = i
  BY <1>1
<1>5. ASSUME NEW i \in 1..m+n, NEW j \in 1..m+n, i < j
      PROVE  r[i] < r[j]
  <2>1. CASE j \in 1..m
    <3>1. i \in 1..m
      BY <1>1, <1>5, <2>1
    <3> QED
      BY <1>1, <1>2, <1>5, <2>1, <3>1
  <2>2. CASE i \in 1..m /\ j > m
    <3>1. r[i] \in EventLines(0, a)
      BY <1>1, <1>2, <2>2
    <3>2. j - m \in 1..n /\ r[j] = q[j - m]
      BY <1>1, <2>2
    <3> QED
      BY <1>2, <1>3, <3>1, <3>2
  <2>3. CASE i > m /\ j > m
    <3>1. /\ i - m \in 1..n /\ r[i] = q[i - m]
          /\ j - m \in 1..n /\ r[j] = q[j - m]
          /\ i - m < j - m
      <4>1. i - m \in 1..n /\ j - m \in 1..n /\ i - m < j - m
        BY <1>1, <1>5, <2>3
      <4> QED
        BY <1>1, <2>3, <4>1
    <3> QED
      BY <1>2, <3>1
  <2> QED
    BY <1>1, <1>4, <1>5, <2>1, <2>2, <2>3
<1>6. ASSUME NEW i \in 1..m+n PROVE r[i] \in EventLines(0, b)
  <2>1. CASE i \in 1..m
    BY <1>1, <1>2, <1>3, <2>1
  <2>2. CASE i > m /\ i - m \in 1..n
    BY <1>1, <1>2, <1>3, <2>2
  <2> QED
    BY <1>4, <2>1, <2>2
<1>7. ASSUME NEW e \in EventLines(0, b) PROVE \E i \in 1..m+n : r[i] = e
  <2>1. CASE e \in EventLines(0, a)
    <3>1. PICK i \in 1..m : p[i] = e
      BY <1>2, <2>1
    <3>2. i \in 1..m+n /\ r[i] = p[i]
      BY <1>1
    <3> QED
      BY <3>1, <3>2
  <2>2. CASE e \in EventLines(a, b)
    <3>1. PICK i \in 1..n : q[i] = e
      BY <1>2, <2>2
    <3>2. m + i \in 1..m+n /\ r[m + i] = q[i]
      BY <1>1, <1>4
    <3> QED
      BY <3>1, <3>2
  <2> QED
    BY <1>3, <2>1, <2>2
<1>8. Lists(r, EventLines(0, b))
  BY <1>1, <1>5, <1>6, <1>7 DEF Lists
<1> QED
  BY <1>1, <1>8 DEF r

\* RunController._drain: whatever was read before, afterwards the result shows
\* every complete line of both files, and no verdict has improved.
LEMMA DrainLemma ==
    ASSUME ChildTypeOK, TornOK, ResultOK, packets \in Seq(Nat),
           reportOffset \in Nat, eventsOffset \in Nat, Drain
    PROVE  /\ reportOffset' = Complete /\ eventsOffset' = CompletePackets
           /\ tests' = WorstOver(reportLog, Complete)
           /\ tests' \in [Tests -> VerdictOrNone]
           /\ \A n \in Tests : tests'[n] = tests[n] \/ Worsens(tests[n], tests'[n])
           /\ packets' \in Seq(Nat)
           /\ Lists(packets', EventLines(0, CompletePackets))
<1>1. /\ Complete \in Nat /\ CompletePackets \in Nat
      /\ \A i \in 1..Complete : reportLog[i] \in Lines
  BY CompleteFacts
<1>2. /\ ReadNewLines(reportLog, reportTorn, reportOffset) = Complete
      /\ ReadNewLines(packetLog, packetTorn, eventsOffset) = CompletePackets
  BY <1>1 DEF ReadNewLines, Complete, CompletePackets, ResultOK
<1>3. /\ reportOffset' = Complete /\ eventsOffset' = CompletePackets
      /\ tests' = DrainedTests(Complete)
      /\ packets' = DrainedPackets(CompletePackets)
  BY <1>2 DEF Drain
<1>4. ASSUME NEW n \in Tests
      PROVE  /\ DrainedTests(Complete)[n] = WorstOver(reportLog, Complete)[n]
             /\ DrainedTests(Complete)[n] \in VerdictOrNone
             /\ \/ DrainedTests(Complete)[n] = tests[n]
                \/ Worsens(tests[n], DrainedTests(Complete)[n])
  <2> DEFINE A == {NoVerdict} \cup VerdictsOf(reportLog, reportOffset, n)
             I == {j \in reportOffset+1..Complete : reportLog[j].nodeid = n}
             N == {ParseReportLogLine(reportLog[i]) : i \in I}
  <2>1. \A i \in I : LineAt(i) = reportLog[i]
    BY <1>1 DEF LineAt, Complete
  <2>2. {ParseReportLogLine(LineAt(i)) : i \in I} = N
    BY <2>1
  <2>3. DrainedTests(Complete)[n] = WorstOf({tests[n]} \cup N)
    BY <2>2 DEF DrainedTests, Seen
  <2>4. \A i \in 1..reportOffset : reportLog[i] \in Lines
    BY <1>1 DEF ResultOK
  <2>5. /\ tests[n] \in A
        /\ \A w \in A : ~ Worsens(tests[n], w)
    BY <2>4, WorstOverLemma DEF ResultOK
  <2>6. A \subseteq VerdictOrNone
    BY <2>4, VerdictsOfType DEF VerdictOrNone
  <2>7. N \subseteq VerdictOrNone
    BY <1>1, ParseType
  <2>8. A \cup N = {NoVerdict} \cup VerdictsOf(reportLog, Complete, n)
    <3>1. {j \in 1..Complete : reportLog[j].nodeid = n}
             = {j \in 1..reportOffset : reportLog[j].nodeid = n} \cup I
      BY <1>1 DEF ResultOK
    <3> QED
      BY <3>1 DEF VerdictsOf
  <2> HIDE DEF A, N
  <2>9. /\ WorstOf({tests[n]} \cup N) = WorstOf(A \cup N)
        /\ WorstOf(A \cup N) \in VerdictOrNone
        /\ WorstOf(A \cup N) = tests[n] \/ Worsens(tests[n], WorstOf(A \cup N))
    BY <2>5, <2>6, <2>7, WorstOfMerge
  <2> QED
    BY <2>3, <2>8, <2>9 DEF WorstOver
<1>5. /\ DrainedTests(Complete) = WorstOver(reportLog, Complete)
      /\ DrainedTests(Complete) \in [Tests -> VerdictOrNone]
  BY <1>4 DEF DrainedTests, WorstOver
<1>6. /\ DrainedPackets(CompletePackets) \in Seq(Nat)
      /\ Lists(DrainedPackets(CompletePackets), EventLines(0, CompletePackets))
  BY <1>1, EventSeqLemma, ListsConcat DEF DrainedPackets, ResultOK
<1> QED
  BY <1>3, <1>4, <1>5, <1>6

-----------------------------------------------------------------------------
(***************************************************************************)
(* Every step preserves the invariant.                                     *)
(***************************************************************************)

\* Before the first click.
LEMMA InitControllerInv == Init => ControllerInv
<1> SUFFICES ASSUME Init PROVE ControllerInv
  OBVIOUS
<1> USE DEF Init
<1>1. ChildTypeOK /\ TornOK /\ EndedOK /\ Complete = 0 /\ CompletePackets = 0
  BY ChildInitLemma
<1>2. Unseen \in [Tests -> Verdicts \cup {NoVerdict}]
  BY DEF Unseen
<1>3. NotSaved \in [present : BOOLEAN, tests : [Tests -> Verdicts \cup {NoVerdict}],
                    packets : Seq(Nat), code : ExitCodes \cup {NoCode}]
  BY <1>2 DEF NotSaved
<1>4. TypeOK
  <2>1. packets \in Seq(Nat) /\ runs \in 0..MaxRuns /\ reportOffset \in Nat
          /\ eventsOffset \in Nat
    BY GuiAssumption
  <2> QED
    BY <1>1, <1>2, <1>3, <2>1, Zenon DEF TypeOK, Pills, Summaries
<1>5. ButtonsTellTheTruth
  BY <1>4 DEF ButtonsTellTheTruth, ChildInit, Alive
<1>6. ResultOK
  <2>1. EventLines(0, 0) = {}
    BY DEF EventLines
  <2> QED
    BY <1>1, <2>1, WorstOverNothing DEF ResultOK, Lists
<1>7. HeldOK /\ FreshOK /\ SavedIsThisRun /\ GreenIsClean
  BY DEF HeldOK, FreshOK, SavedIsThisRun, GreenIsClean, NotSaved, ChildInit
<1> QED
  BY <1>1, <1>5, <1>6, <1>7 DEF ControllerInv

\* The parts of the invariant about the files and the result, when a step
\* leaves them alone.
LEMMA QuietRun ==
    ASSUME ControllerInv,
           UNCHANGED <<code, reportLog, reportTorn, packetLog, packetTorn, remaining,
                       current, tests, packets, reportOffset, eventsOffset>>,
           child' \in {child, "terminating"}
    PROVE  /\ ChildTypeOK' /\ TornOK' /\ ResultOK'
           /\ Complete' = Complete /\ CompletePackets' = CompletePackets
           /\ EndedOK'
           /\ EventLines(0, CompletePackets)' = EventLines(0, CompletePackets)
<1>1. ChildTypeOK /\ TornOK /\ EndedOK /\ ResultOK
  BY DEF ControllerInv, ButtonsTellTheTruth, TypeOK
<1>2. ChildTypeOK' /\ TornOK'
  BY <1>1 DEF ChildTypeOK, TornOK
<1>3. Complete' = Complete /\ CompletePackets' = CompletePackets
  BY DEF Complete, CompletePackets
<1>4. EndedOK'
  BY <1>1 DEF EndedOK
<1>5. EventLines(0, CompletePackets)' = EventLines(0, CompletePackets)
  BY <1>3 DEF EventLines
<1>6. ResultOK'
  BY <1>1, <1>3 DEF ResultOK, EventLines
<1> QED
  BY <1>2, <1>3, <1>4, <1>5, <1>6

\* A click on Run that gets no further than the preflight or the run directory,
\* and a click on Stop or on the window's close button.
LEMMA ClickInv ==
    ASSUME ControllerInv,
           RunBlocked \/ RunWithoutDirectory \/ StopClicked \/ CloseWindow
    PROVE  ControllerInv'
<1> USE DEF ControllerInv
<1>0. TypeOK /\ (runEnabled <=> process = "none") /\ (stopEnabled <=> process = "running")
      /\ (timer <=> process = "running") /\ (runEnabled => ~ Alive)
  BY DEF ButtonsTellTheTruth
<1>1. /\ UNCHANGED <<code, reportLog, reportTorn, packetLog, packetTorn, remaining,
                     current, tests, packets, reportOffset, eventsOffset, saved,
                     process>>
      /\ child' \in {child, "terminating"}
  BY DEF RunBlocked, RunWithoutDirectory, StopClicked, CloseWindow, controllerVars,
         windowVars, childVars, Killed
<1>2. /\ ChildTypeOK' /\ TornOK' /\ ResultOK' /\ EndedOK'
      /\ Complete' = Complete /\ CompletePackets' = CompletePackets
      /\ EventLines(0, CompletePackets)' = EventLines(0, CompletePackets)
  BY <1>1, QuietRun
<1>3. CASE RunBlocked \/ RunWithoutDirectory
  <2>1. /\ process = "none" /\ runs' = runs + 1 /\ runs < MaxRuns
        /\ launchFailed' \in BOOLEAN /\ stopped' = FALSE
        /\ pill' \in {"preflight", "could not start"} /\ summary' = "none"
        /\ UNCHANGED <<child, timer, stopping, window, footer>>
        /\ runEnabled' = TRUE /\ stopEnabled' = FALSE
    BY <1>0, <1>3 DEF RunBlocked, RunWithoutDirectory, controllerVars, childVars,
                      SetRunning, TypeOK
  <2>a. runs' \in 0..MaxRuns /\ runs' # 0
    <3>1. runs \in 0..MaxRuns
      BY <1>0 DEF TypeOK
    <3>2. runs' = runs + 1 /\ runs < MaxRuns
      BY <2>1
    <3>3. MaxRuns \in Nat
      BY GuiAssumption
    <3> QED
      BY <3>1, <3>2, <3>3
  <2>2. TypeOK'
    BY <1>0, <1>1, <1>2, <2>1, <2>a DEF TypeOK, Pills, Summaries
  <2>3. ButtonsTellTheTruth'
    BY <1>0, <1>1, <2>1, <2>2 DEF ButtonsTellTheTruth, Alive
  <2>4. HeldOK' /\ FreshOK'
    BY <1>1, <2>1, <2>a DEF HeldOK, FreshOK
  <2>5. SavedIsThisRun'
    BY <1>1, <1>2, <2>1 DEF SavedIsThisRun
  <2>6. GreenIsClean'
    BY <1>1, <1>2, <2>1 DEF GreenIsClean, NoFailureLogged
  <2> QED
    BY <1>2, <2>3, <2>4, <2>5, <2>6
<1>4. CASE StopClicked
  <2>1. /\ process = "running"
        /\ stopping' = TRUE /\ UNCHANGED <<timer, windowVars>>
    BY <1>0, <1>4 DEF StopClicked
  <2>2. TypeOK'
    BY <1>0, <1>1, <1>2, <2>1 DEF TypeOK, windowVars
  <2>3. ButtonsTellTheTruth'
    BY <1>0, <1>1, <2>1, <2>2 DEF ButtonsTellTheTruth, windowVars
  <2>4. HeldOK' /\ FreshOK' /\ SavedIsThisRun' /\ GreenIsClean'
    BY <1>1, <1>2, <2>1 DEF HeldOK, FreshOK, SavedIsThisRun, GreenIsClean, windowVars
  <2> QED
    BY <1>2, <2>3, <2>4
<1>5. CASE CloseWindow
  <2>1. /\ window' = "closed" /\ child' = Killed
        /\ UNCHANGED <<controllerVars, runs, runEnabled, stopEnabled, launchFailed,
                       stopped, footer, pill, summary>>
    BY <1>5 DEF CloseWindow
  <2>2. TypeOK'
    BY <1>0, <1>2, <2>1 DEF TypeOK, controllerVars
  <2>3. runEnabled => child' = child
    BY <1>0, <2>1 DEF Alive, Killed
  <2>4. ButtonsTellTheTruth'
    BY <1>0, <2>1, <2>2, <2>3 DEF ButtonsTellTheTruth, controllerVars, Alive
  <2>5. HeldOK' /\ FreshOK' /\ SavedIsThisRun'
    BY <1>1, <1>2, <2>1 DEF HeldOK, FreshOK, SavedIsThisRun, controllerVars
  <2>6. GreenIsClean'
    BY <1>1, <1>2, <2>1 DEF GreenIsClean, NoFailureLogged, controllerVars
  <2> QED
    BY <1>2, <2>4, <2>5, <2>6
<1> QED
  BY <1>3, <1>4, <1>5

\* controller.start: a new result against a new directory.
LEMMA LaunchInv ==
    ASSUME ControllerInv, RunClicked \/ RunFailsToStart
    PROVE  ControllerInv'
<1> USE DEF ControllerInv
<1>1. /\ NewRun /\ TypeOK
      /\ ChildTypeOK' /\ TornOK' /\ EndedOK' /\ Complete' = 0 /\ CompletePackets' = 0
  BY ChildStartLemma DEF RunClicked, RunFailsToStart, ButtonsTellTheTruth
<1>2. /\ runs < MaxRuns /\ runs' = runs + 1 /\ runs \in Nat /\ MaxRuns \in Nat
      /\ reportOffset' = 0 /\ eventsOffset' = 0
      /\ stopping' = FALSE /\ stopped' = FALSE
      /\ tests' = Unseen /\ packets' = <<>>
      /\ window' = window
  BY <1>1, GuiAssumption DEF NewRun, StartOffset, TypeOK
<1>a. runs' \in 0..MaxRuns /\ packets' \in Seq(Nat) /\ reportOffset' \in Nat
        /\ eventsOffset' \in Nat
  BY <1>2
<1>3. /\ Unseen \in [Tests -> Verdicts \cup {NoVerdict}]
      /\ NotSaved \in [present : BOOLEAN, tests : [Tests -> Verdicts \cup {NoVerdict}],
                        packets : Seq(Nat), code : ExitCodes \cup {NoCode}]
      /\ NotSaved.code = NoCode /\ NotSaved.tests = Unseen /\ NotSaved.packets = <<>>
      /\ NotSaved.present = FALSE
  BY DEF Unseen, NotSaved
<1>4. ResultOK'
  <2>1. EventLines(0, 0)' = {}
    BY DEF EventLines
  <2>2. WorstOver(reportLog', 0) = Unseen
    BY WorstOverNothing
  <2> QED
    BY <1>1, <1>2, <2>1, <2>2 DEF ResultOK, Lists
<1>5. FreshOK'
  BY <1>2 DEF FreshOK
<1>6. CASE RunClicked
  <2>1. /\ launchFailed' = FALSE /\ pill' = "running" /\ summary' = "none"
        /\ runEnabled' = FALSE /\ stopEnabled' = TRUE /\ timer' = TRUE
        /\ process' = "running" /\ saved' = NotSaved /\ footer' = footer
    BY <1>6 DEF RunClicked, SetRunning
  <2>2. TypeOK'
    BY <1>1, <1>2, <1>3, <1>a, <2>1, Zenon DEF TypeOK, Pills, Summaries
  <2>3. ButtonsTellTheTruth'
    BY <2>1, <2>2 DEF ButtonsTellTheTruth
  <2>4. HeldOK' /\ SavedIsThisRun' /\ GreenIsClean'
    BY <1>2, <1>3, <2>1 DEF HeldOK, SavedIsThisRun, GreenIsClean
  <2> QED
    BY <1>1, <1>4, <1>5, <2>3, <2>4
<1>7. CASE RunFailsToStart
  <2>1. /\ launchFailed' = TRUE /\ pill' = "could not start" /\ summary' = "none"
        /\ runEnabled' = TRUE /\ stopEnabled' = FALSE /\ timer' = FALSE
        /\ process' = "none" /\ child' = "unborn"
        /\ footer' = Footer(tests', NoCode)
        /\ saved' \in {NotSaved, [NotSaved EXCEPT !.present = TRUE]}
    BY <1>7 DEF RunFailsToStart, SetRunning, TimerAfterError, Verdict, ChildNeverStarts
  <2>2. footer' = "bad"
    BY <1>2, <2>1 DEF Footer, NothingRan, Unseen
  <2>3. /\ saved' \in [present : BOOLEAN, tests : [Tests -> Verdicts \cup {NoVerdict}],
                        packets : Seq(Nat), code : ExitCodes \cup {NoCode}]
        /\ saved'.code = NoCode /\ saved'.tests = Unseen /\ saved'.packets = <<>>
    BY <1>3, <2>1
  <2>4. TypeOK'
    BY <1>1, <1>2, <1>3, <1>a, <2>1, <2>2, <2>3, Zenon DEF TypeOK, Pills, Summaries
  <2>5. ButtonsTellTheTruth'
    BY <2>1, <2>4 DEF ButtonsTellTheTruth, Alive
  <2>6. HeldOK' /\ GreenIsClean'
    BY <2>1, <2>2 DEF HeldOK, GreenIsClean
  <2>7. SavedIsThisRun'
    BY <1>1, <1>2, <1>4, <2>1, <2>3 DEF SavedIsThisRun, ResultOK
  <2> QED
    BY <1>1, <1>4, <1>5, <2>5, <2>6, <2>7
<1> QED
  BY <1>6, <1>7

\* _poll: the result catches up with the files.
LEMMA PollInv ==
    ASSUME ControllerInv, PollTimer
    PROVE  ControllerInv'
<1> USE DEF ControllerInv
<1>1. /\ TypeOK /\ ChildTypeOK /\ packets \in Seq(Nat)
      /\ reportOffset \in Nat /\ eventsOffset \in Nat /\ process = "running"
      /\ Drain /\ UNCHANGED <<childVars, process, timer, stopping, saved, windowVars>>
  BY DEF ButtonsTellTheTruth, TypeOK, PollTimer
<1>2. /\ reportOffset' = Complete /\ eventsOffset' = CompletePackets
      /\ tests' = WorstOver(reportLog, Complete)
      /\ tests' \in [Tests -> VerdictOrNone]
      /\ packets' \in Seq(Nat)
      /\ Lists(packets', EventLines(0, CompletePackets))
  BY <1>1, DrainLemma
<1>3. /\ Complete \in Nat /\ CompletePackets \in Nat
      /\ Complete' = Complete /\ CompletePackets' = CompletePackets
  BY <1>1, CompleteFacts DEF childVars, Complete, CompletePackets
<1>4. TypeOK'
  BY <1>1, <1>2, <1>3 DEF TypeOK, ChildTypeOK, childVars, windowVars, VerdictOrNone
<1>5. ButtonsTellTheTruth'
  BY <1>1, <1>4 DEF ButtonsTellTheTruth, childVars, windowVars, Alive
<1>6. TornOK' /\ EndedOK'
  BY <1>1 DEF TornOK, EndedOK, childVars
<1>7. ResultOK'
  BY <1>1, <1>2, <1>3 DEF ResultOK, EventLines, childVars
<1>8. HeldOK' /\ SavedIsThisRun' /\ GreenIsClean'
  BY <1>1 DEF HeldOK, SavedIsThisRun, GreenIsClean, windowVars
<1>9. FreshOK'
  BY <1>1 DEF FreshOK, windowVars
<1> QED
  BY <1>5, <1>6, <1>7, <1>8, <1>9

\* `finished`: the last drain, results.json and what the window then says.
LEMMA FinishedInv ==
    ASSUME ControllerInv, ProcessFinished
    PROVE  ControllerInv'
<1> USE DEF ControllerInv
<1> DEFINE wasStopped == stopping \/ CrashExit
           rc == IF wasStopped THEN NoCode ELSE code
<1>1. /\ TypeOK /\ ChildTypeOK /\ packets \in Seq(Nat)
      /\ reportOffset \in Nat /\ eventsOffset \in Nat
      /\ process = "running" /\ child = "exited" /\ code \in ExitCodes
      /\ stopping \in BOOLEAN
      /\ ~ stopped /\ launchFailed = FALSE /\ ~ saved.present
  BY DEF ButtonsTellTheTruth, TypeOK, ProcessFinished, HeldOK, EndedOK
<1>2. /\ Drain /\ process' = "none" /\ timer' = FALSE /\ stopping' = FALSE
      /\ stopped' = (stopped \/ wasStopped)
      /\ Finalize(rc) /\ OnFinished(rc, stopped')
      /\ UNCHANGED <<childVars, runs, window, launchFailed>>
  BY DEF ProcessFinished
<1>3. /\ reportOffset' = Complete /\ eventsOffset' = CompletePackets
      /\ tests' = WorstOver(reportLog, Complete)
      /\ tests' \in [Tests -> VerdictOrNone]
      /\ packets' \in Seq(Nat)
      /\ Lists(packets', EventLines(0, CompletePackets))
  BY <1>1, <1>2, DrainLemma
<1>4. /\ Complete \in Nat /\ CompletePackets \in Nat /\ Complete <= Len(reportLog)
      /\ Complete' = Complete /\ CompletePackets' = CompletePackets
      /\ \A i \in 1..Complete : reportLog[i] \in Lines
      /\ EventLines(0, CompletePackets)' = EventLines(0, CompletePackets)
  BY <1>1, <1>2, CompleteFacts DEF childVars, Complete, CompletePackets, EventLines
<1>5. /\ wasStopped \in BOOLEAN
      /\ rc \in ExitCodes \cup {NoCode}
      /\ rc # NoCode => rc = code /\ code >= 0 /\ ~ wasStopped
      /\ rc = NoCode => wasStopped
  BY <1>1 DEF CrashExit, ExitCodes, NoCode, KilledCode, CrashedCode
<1> HIDE DEF wasStopped, rc
<1>6. stopped' = wasStopped
  BY <1>1, <1>2, <1>5
<1>7. /\ runEnabled' = TRUE /\ stopEnabled' = FALSE
      /\ footer' = Footer(tests', rc)
      /\ pill' = Verdict(tests', rc, wasStopped, FALSE)
      /\ summary' = Summary(tests', rc, wasStopped)
  BY <1>1, <1>2, <1>6 DEF OnFinished, SetRunning
<1>8. \/ saved' = [present |-> TRUE, tests |-> tests', packets |-> packets', code |-> rc]
      \/ saved' = saved
  BY <1>2 DEF Finalize
<1>9. TypeOK'
  <2>1. saved' \in [present : BOOLEAN, tests : [Tests -> Verdicts \cup {NoVerdict}],
                    packets : Seq(Nat), code : ExitCodes \cup {NoCode}]
    <3>1. CASE saved' = saved
      BY <1>1, <3>1 DEF TypeOK
    <3>2. CASE saved' = [present |-> TRUE, tests |-> tests', packets |-> packets',
                         code |-> rc]
      BY <1>3, <1>5, <3>2 DEF VerdictOrNone
    <3> QED
      BY <1>8, <3>1, <3>2
  <2>2. /\ pill' \in Pills /\ summary' \in Summaries
        /\ footer' \in {"idle", "ok", "bad"}
    BY <1>5, <1>7 DEF Verdict, Summary, Footer, Pills, Summaries
  <2>3. ChildTypeOK' /\ runs' \in 0..MaxRuns
    BY <1>1, <1>2 DEF ChildTypeOK, childVars, TypeOK
  <2>4. tests' \in [Tests -> Verdicts \cup {NoVerdict}]
    BY <1>3 DEF VerdictOrNone
  <2> QED
    BY <1>1, <1>2, <1>3, <1>4, <1>5, <1>6, <1>7, <2>1, <2>2, <2>3, <2>4 DEF TypeOK
<1>10. ButtonsTellTheTruth'
  BY <1>1, <1>2, <1>7, <1>9 DEF ButtonsTellTheTruth, Alive, childVars
<1>11. TornOK' /\ EndedOK'
  BY <1>2 DEF TornOK, EndedOK, childVars
<1>12. ResultOK'
  BY <1>2, <1>3, <1>4 DEF ResultOK, childVars
<1>13. HeldOK' /\ FreshOK'
  BY <1>1, <1>2 DEF HeldOK, FreshOK
<1>14. SavedIsThisRun'
  <2>1. CASE saved' = saved
    BY <1>1, <2>1 DEF SavedIsThisRun
  <2>2. CASE saved' = [present |-> TRUE, tests |-> tests', packets |-> packets', code |-> rc]
    <3>1. rc # NoCode => pill' # "stopped" /\ ~ stopped'
      BY <1>5, <1>6, <1>7 DEF Verdict
    <3> QED
      BY <1>2, <1>3, <1>4, <1>5, <2>2, <3>1 DEF SavedIsThisRun, childVars
  <2> QED
    BY <1>8, <2>1, <2>2
<1>15. ASSUME \A n \in Tests : ~ Failing(tests'[n])
       PROVE  NoFailureLogged /\ NoFailureLogged'
  <2>1. \A i \in 1..Complete : ~ Failing(ParseReportLogLine(reportLog[i]))
    BY <1>3, <1>4, <1>15, CleanReading
  <2> QED
    BY <1>2, <1>4, <2>1 DEF NoFailureLogged, childVars
<1>16. GreenIsClean'
  <2>1. footer' = "ok" => NoFailureLogged'
    BY <1>7, <1>15 DEF Footer
  <2>2. ASSUME pill' = "all passed"
        PROVE  /\ code = 0 /\ remaining = {} /\ current = Between
               /\ NoFailureLogged'
    <3>1. /\ ~ wasStopped /\ ~ Errored(rc) /\ ~ NothingRan(tests')
          /\ \A n \in Tests : ~ Failing(tests'[n])
      BY <1>5, <1>7, <2>2 DEF Verdict
    <3>2. rc = code /\ code \in {0, 1}
      BY <1>1, <1>5, <3>1 DEF Errored, ExitCodes, KilledCode, CrashedCode, NoCode
    <3>3. remaining = {} /\ current = Between
      BY <1>1, <3>2 DEF EndedOK
    <3>4. code # 1
      <4> SUFFICES ASSUME code = 1 PROVE FALSE
        OBVIOUS
      <4>1. PICK i \in 1..Len(reportLog) : reportLog[i].outcome = "failed"
        BY <1>1 DEF EndedOK
      <4>2. ~ reportTorn
        BY <3>3 DEF TornOK
      <4>3. Complete = Len(reportLog)
        BY <4>2 DEF Complete, CompleteLines
      <4>4. Failing(ParseReportLogLine(reportLog[i]))
        BY <1>4, <4>1, <4>3, FailedReportFails DEF EndedOK
      <4> QED
        BY <1>15, <3>1, <4>3, <4>4 DEF NoFailureLogged
    <3> QED
      BY <1>15, <3>1, <3>2, <3>3, <3>4
  <2> QED
    BY <1>2, <2>1, <2>2 DEF GreenIsClean, childVars
<1> QED
  BY <1>10, <1>11, <1>12, <1>13, <1>14, <1>16

\* A step of the subprocess: it is possible only while the controller holds a
\* process, and leaves every line that was read as it was read.
LEMMA ChildInv ==
    ASSUME ControllerInv, ChildStep
    PROVE  ControllerInv'
<1> USE DEF ControllerInv
<1>1. UNCHANGED <<controllerVars, windowVars>> /\ AnyChildStep
  BY DEF ChildStep, AnyChildStep
<1>2. TypeOK /\ ChildTypeOK /\ reportOffset \in Nat /\ eventsOffset \in Nat
  BY DEF ButtonsTellTheTruth, TypeOK
<1>3. ChildGuarantee
  BY <1>1, <1>2, ChildLemma
<1>4. /\ process = "running" /\ runs # 0
  <2>1. Alive
    BY <1>3 DEF ChildGuarantee, Alive
  <2>2. process = "running"
    BY <2>1 DEF ButtonsTellTheTruth, TypeOK
  <2> QED
    BY <2>2 DEF HeldOK, FreshOK
<1>5. ChildTypeOK' /\ TornOK' /\ EndedOK'
  BY <1>3 DEF ChildGuarantee
<1>6. TypeOK'
  BY <1>1, <1>2, <1>5 DEF TypeOK, controllerVars, windowVars
<1>7. ButtonsTellTheTruth'
  BY <1>1, <1>4, <1>6 DEF ButtonsTellTheTruth, controllerVars, windowVars
<1>8. HeldOK' /\ FreshOK' /\ SavedIsThisRun' /\ GreenIsClean'
  BY <1>1, <1>4 DEF HeldOK, FreshOK, SavedIsThisRun, GreenIsClean, controllerVars,
                    windowVars
<1>9. ResultOK'
  <2>1. /\ Complete \in Nat /\ CompletePackets \in Nat
        /\ Complete' \in Nat /\ CompletePackets' \in Nat
    BY <1>2, <1>5, CompleteFacts, CompleteType DEF ChildTypeOK, TornOK, Complete,
       CompletePackets
  <2>2. Complete <= Complete' /\ CompletePackets <= CompletePackets'
    BY <1>3, <2>1 DEF ChildGuarantee
  <2>3. reportOffset' <= Complete' /\ eventsOffset' <= CompletePackets'
    BY <1>1, <1>2, <2>1, <2>2 DEF ResultOK, controllerVars
  <2>4. \A i \in 1..reportOffset : reportLog'[i] = reportLog[i]
    BY <1>2, <1>3, <2>1 DEF ResultOK, ChildGuarantee
  <2>5. WorstOver(reportLog', reportOffset) = WorstOver(reportLog, reportOffset)
    BY <2>4, WorstOverPrefix
  <2>6. \A i \in 1..eventsOffset : packetLog'[i] = packetLog[i]
    BY <1>2, <1>3, <2>1 DEF ResultOK, ChildGuarantee
  <2>7. EventLines(0, eventsOffset)' = EventLines(0, eventsOffset)
    BY <1>1, <1>2, <2>6 DEF EventLines, controllerVars
  <2> QED
    BY <1>1, <2>3, <2>5, <2>7 DEF ResultOK, controllerVars
<1> QED
  BY <1>5, <1>7, <1>8, <1>9

\* Every step of the specification preserves the invariant.
LEMMA NextControllerInv == ControllerInv /\ [Next]_vars => ControllerInv'
<1> SUFFICES ASSUME ControllerInv, [Next]_vars PROVE ControllerInv'
  OBVIOUS
<1>1. CASE Operator
  BY <1>1, ClickInv, LaunchInv DEF Operator
<1>2. CASE EventLoop
  BY <1>2, PollInv, FinishedInv DEF EventLoop
<1>3. CASE ChildStep
  BY <1>3, ChildInv
<1>4. CASE UNCHANGED vars
  <2>1. UNCHANGED <<childVars, controllerVars, windowVars>>
    BY <1>4 DEF vars
  <2>2. /\ ChildTypeOK' /\ TornOK' /\ ResultOK' /\ EndedOK'
        /\ Complete' = Complete /\ CompletePackets' = CompletePackets
        /\ EventLines(0, CompletePackets)' = EventLines(0, CompletePackets)
    BY <2>1, QuietRun DEF childVars, controllerVars
  <2>3. TypeOK'
    BY <2>1, <2>2 DEF ControllerInv, ButtonsTellTheTruth, TypeOK, controllerVars,
                      windowVars
  <2>4. ButtonsTellTheTruth'
    BY <2>1, <2>3 DEF ControllerInv, ButtonsTellTheTruth, controllerVars, windowVars,
                      childVars, Alive
  <2>5. HeldOK' /\ FreshOK' /\ SavedIsThisRun'
    BY <2>1, <2>2 DEF ControllerInv, HeldOK, FreshOK, SavedIsThisRun, controllerVars,
                      windowVars, childVars
  <2>6. GreenIsClean'
    BY <2>1, <2>2 DEF ControllerInv, GreenIsClean, NoFailureLogged, controllerVars,
                      windowVars, childVars
  <2> QED
    BY <2>2, <2>4, <2>5, <2>6 DEF ControllerInv
<1> QED
  BY <1>1, <1>2, <1>3, <1>4 DEF Next, Idle, Gone

-----------------------------------------------------------------------------
(***************************************************************************)
(* The theorems.                                                           *)
(***************************************************************************)

\* The inductive invariant holds of every behaviour of the GUI.
THEOREM InvariantHolds == Spec => []ControllerInv
BY InitControllerInv, NextControllerInv, PTL DEF Spec

\* Run and Stop are offered exactly when they are meant to be, and no run is
\* ever started while the child of the last one may still write.
THEOREM ButtonsAreTruthful == Spec => []ButtonsTellTheTruth
<1>1. ControllerInv => ButtonsTellTheTruth
  BY DEF ControllerInv
<1> QED
  BY <1>1, InvariantHolds, PTL

\* results.json is the whole of this run's logs, and carries a return code
\* only if pytest chose it.
THEOREM SavedIsExact == Spec => []SavedIsThisRun
<1>1. ControllerInv => SavedIsThisRun
  BY DEF ControllerInv
<1> QED
  BY <1>1, InvariantHolds, PTL

\* Green means clean, whatever failures preceded it and however the run ended.
THEOREM GreenMeansClean == Spec => []GreenIsClean
<1>1. ControllerInv => GreenIsClean
  BY DEF ControllerInv
<1> QED
  BY <1>1, InvariantHolds, PTL

-----------------------------------------------------------------------------
(***************************************************************************)
(* The controller implements the run lifecycle.                            *)
(***************************************************************************)

\* The abstract state, as the refinement mapping of Lifecycle gives it.
Status == IF process = "running" /\ window = "open" THEN "open"
          ELSE IF runs = 0 THEN "idle" ELSE "closed"
Record == IF saved.present THEN saved.tests ELSE [n \in {} |-> NoVerdict]

\* The abstract specification reads the log as the controller does.
LEMMA SameReading ==
    /\ \A log, k : Lifecycle!WorstOver(log, k) = WorstOver(log, k)
    /\ \A u, v : Lifecycle!Worsens(u, v) <=> Worsens(u, v)
    /\ Lifecycle!Unseen = Unseen
    /\ Lifecycle!NoRecord = [n \in {} |-> NoVerdict]
BY DEF Lifecycle!WorstOver, WorstOver, Lifecycle!WorstOf, WorstOf, Lifecycle!VerdictsOf,
       VerdictsOf, Lifecycle!ParseReportLogLine, ParseReportLogLine,
       Lifecycle!Worsens, Worsens, Lifecycle!Severity, Severity,
       Lifecycle!NoVerdict, NoVerdict, Lifecycle!Unseen, Unseen, Lifecycle!NoRecord

\* The lifecycle's actions in terms of the mapped state.
LEMMA MappedActions ==
    /\ Status # "open" /\ Status' = "open" /\ Log' = <<>> /\ tests' = Unseen
          /\ Record' = [n \in {} |-> NoVerdict] => Lifecycle!Open
    /\ Status' = "closed" /\ Log' = <<>> /\ tests' = Unseen
          /\ Record' \in {[n \in {} |-> NoVerdict], Unseen} => Lifecycle!Refuse
    /\ Len(Log') = Len(Log) + 1 /\ SubSeq(Log', 1, Len(Log)) = Log
          /\ UNCHANGED <<Status, tests, Record>> => Lifecycle!LogGrows
    /\ Status = "open" /\ UNCHANGED <<Status, Log, Record>>
          /\ (\E k \in 0..Len(Log) : tests' = WorstOver(Log, k))
          /\ (\A n \in Tests : tests'[n] = tests[n] \/ Worsens(tests[n], tests'[n]))
          => Lifecycle!Observe
    /\ Status = "open" /\ Status' = "closed" /\ UNCHANGED Log
          /\ (\E k \in 0..Len(Log) : tests' = WorstOver(Log, k))
          /\ (\A n \in Tests : tests'[n] = tests[n] \/ Worsens(tests[n], tests'[n]))
          /\ Record' \in {[n \in {} |-> NoVerdict], tests'}
          => Lifecycle!Finish
    /\ UNCHANGED <<Status, Log, tests, Record>> => UNCHANGED Lifecycle!lifecycleVars
BY SameReading, Zenon
   DEF Lifecycle!Open, Lifecycle!Refuse, Lifecycle!LogGrows, Lifecycle!Observe,
       Lifecycle!Finish, Lifecycle!lifecycleVars, Lifecycle!Shown,
       Lifecycle!NeverImproves, Status, Log, Record

\* Every step of the controller, the window, the operator and the child is a
\* step of the lifecycle, or one it does not see.
LEMMA StepImplements ==
    ControllerInv /\ [Next]_vars
       => [Lifecycle!LifecycleNext]_(Lifecycle!lifecycleVars)
<1> SUFFICES ASSUME ControllerInv, [Next]_vars
             PROVE  Lifecycle!LifecycleNext \/ UNCHANGED Lifecycle!lifecycleVars
  OBVIOUS
<1> USE DEF ControllerInv
<1>0. /\ TypeOK /\ ChildTypeOK /\ packets \in Seq(Nat)
      /\ reportOffset \in Nat /\ eventsOffset \in Nat
      /\ runEnabled <=> process = "none"
      /\ timer <=> process = "running"
  BY DEF ButtonsTellTheTruth, TypeOK
<1>b. runs \in Nat
  <2>1. runs \in 0..MaxRuns /\ MaxRuns \in Nat
    BY <1>0, GuiAssumption DEF TypeOK
  <2> QED
    BY <2>1
<1>a. /\ Complete \in Nat /\ Len(Log) = Complete
      /\ \A k \in 0..Complete : WorstOver(Log, k) = WorstOver(reportLog, k)
  BY <1>0, LogFacts
<1>1. CASE RunBlocked \/ RunWithoutDirectory
  <2>1. /\ process = "none" /\ runs' # 0
        /\ UNCHANGED <<childVars, controllerVars, window>>
    <3>1. runEnabled /\ runs' = runs + 1 /\ UNCHANGED <<childVars, controllerVars, window>>
      BY <1>1, Zenon DEF RunBlocked, RunWithoutDirectory
    <3>2. process = "none"
      BY <1>0, <3>1, Zenon
    <3> QED
      BY <1>b, <3>1, <3>2
  <2>2. Log' = Log /\ tests' = tests /\ Record' = Record /\ Status' = "closed"
    BY <2>1, QuietLog DEF Record, Status, childVars, controllerVars
  <2>3. CASE runs = 0
    <3>1. Log = <<>> /\ tests = Unseen /\ Record = [n \in {} |-> NoVerdict]
      BY <2>3 DEF FreshOK, Log, Record, Complete, CompleteLines
    <3> QED
      BY <2>2, <3>1, MappedActions DEF Lifecycle!LifecycleNext
  <2>4. CASE runs # 0
    BY <2>1, <2>2, <2>4, MappedActions DEF Status
  <2> QED
    BY <2>3, <2>4
<1>2. CASE RunClicked \/ RunFailsToStart
  <2>1. /\ NewRun /\ runs' # 0 /\ process = "none" /\ window' = "open"
        /\ tests' = Unseen /\ reportLog' = <<>> /\ Complete' = 0
    <3>1. /\ NewRun /\ runEnabled /\ runs' = runs + 1 /\ window' = "open"
          /\ tests' = Unseen /\ reportLog' = <<>>
      BY <1>2, Zenon DEF RunClicked, RunFailsToStart, NewRun, ChildStarts, ChildNeverStarts
    <3>2. process = "none"
      BY <1>0, <3>1, Zenon
    <3>3. Complete' = 0
      BY <1>2, ChildStartLemma DEF RunClicked, RunFailsToStart
    <3> QED
      BY <1>b, <3>1, <3>2, <3>3
  <2>2. Log' = <<>>
    BY <2>1 DEF Log
  <2>3. CASE RunClicked
    <3>1. Status # "open" /\ Status' = "open" /\ Record' = [n \in {} |-> NoVerdict]
      BY <2>1, <2>3 DEF RunClicked, Status, Record, NotSaved
    <3> QED
      BY <2>1, <2>2, <3>1, MappedActions DEF Lifecycle!LifecycleNext
  <2>4. CASE RunFailsToStart
    <3>1. Status' = "closed"
      BY <2>1, <2>4 DEF RunFailsToStart, Status
    <3>2. Record' \in {[n \in {} |-> NoVerdict], Unseen}
      BY <2>4 DEF RunFailsToStart, Record, NotSaved
    <3> QED
      BY <2>1, <2>2, <3>1, <3>2, MappedActions DEF Lifecycle!LifecycleNext
  <2> QED
    BY <1>2, <2>3, <2>4
<1>3. CASE PollTimer
  <2>1. /\ process = "running" /\ window = "open" /\ Drain
        /\ UNCHANGED <<childVars, process, saved, windowVars>>
    BY <1>0, <1>3 DEF PollTimer
  <2>2. /\ tests' = WorstOver(reportLog, Complete)
        /\ \A n \in Tests : tests'[n] = tests[n] \/ Worsens(tests[n], tests'[n])
    BY <1>0, <2>1, DrainLemma
  <2>3. Status = "open" /\ UNCHANGED <<Status, Log, Record>>
    BY <2>1, QuietLog DEF Status, Record, childVars, windowVars
  <2>4. \E k \in 0..Len(Log) : tests' = WorstOver(Log, k)
    BY <1>a, <2>2
  <2> QED
    BY <2>2, <2>3, <2>4, MappedActions DEF Lifecycle!LifecycleNext
<1>4. CASE ProcessFinished
  <2>1. /\ process = "running" /\ window = "open" /\ process' = "none" /\ Drain
        /\ UNCHANGED <<childVars, runs, window>>
        /\ saved' = saved \/ (saved'.present /\ saved'.tests = tests')
    <3>1. PICK rc : Finalize(rc)
      BY <1>4 DEF ProcessFinished
    <3>2. saved' = saved \/ (saved'.present /\ saved'.tests = tests')
      BY <3>1 DEF Finalize
    <3> QED
      BY <1>4, <3>2 DEF ProcessFinished
  <2>2. /\ tests' = WorstOver(reportLog, Complete)
        /\ \A n \in Tests : tests'[n] = tests[n] \/ Worsens(tests[n], tests'[n])
    BY <1>0, <2>1, DrainLemma
  <2>3. runs # 0 /\ ~ saved.present
    BY <2>1 DEF FreshOK, HeldOK
  <2>4. Status = "open" /\ Status' = "closed" /\ UNCHANGED Log
    BY <2>1, <2>3, QuietLog DEF Status, childVars
  <2>5. Record' \in {[n \in {} |-> NoVerdict], tests'}
    BY <2>1, <2>3 DEF Record
  <2>6. \E k \in 0..Len(Log) : tests' = WorstOver(Log, k)
    BY <1>a, <2>2
  <2> QED
    BY <2>2, <2>4, <2>5, <2>6, MappedActions DEF Lifecycle!LifecycleNext
<1>5. CASE StopClicked
  <2>1. UNCHANGED <<reportLog, reportTorn, tests, saved, process, windowVars>>
    BY <1>5 DEF StopClicked
  <2>2. UNCHANGED <<Status, Log, tests, Record>>
    BY <2>1, QuietLog DEF Status, Record, windowVars
  <2> QED
    BY <2>2, MappedActions
<1>6. CASE CloseWindow
  <2>1. /\ window = "open" /\ window' = "closed"
        /\ UNCHANGED <<reportLog, reportTorn, controllerVars, runs>>
    BY <1>6 DEF CloseWindow
  <2>2. Log' = Log /\ tests' = tests /\ Record' = Record
    BY <2>1, QuietLog DEF Record, controllerVars
  <2>3. CASE process = "running"
    <3>1. /\ Status = "open" /\ Status' = "closed"
          /\ Record' \in {[n \in {} |-> NoVerdict], tests'}
      BY <2>1, <2>2, <2>3 DEF Status, Record, FreshOK, HeldOK, controllerVars
    <3>2. \E k \in 0..Len(Log) : tests' = WorstOver(Log, k)
      BY <1>0, <1>a, <2>2 DEF ResultOK
    <3> QED
      BY <2>2, <3>1, <3>2, MappedActions DEF Lifecycle!LifecycleNext
  <2>4. CASE process # "running"
    <3>1. Status' = Status
      BY <2>1, <2>4 DEF Status, controllerVars
    <3> QED
      BY <2>2, <3>1, MappedActions
  <2> QED
    BY <2>3, <2>4
<1>7. CASE ChildStep
  <2>1. UNCHANGED <<controllerVars, windowVars>> /\ AnyChildStep
    BY <1>7 DEF ChildStep, AnyChildStep
  <2>2. ChildGuarantee
    BY <1>0, <2>1, ChildLemma
  <2>3. UNCHANGED <<Status, tests, Record>>
    BY <2>1 DEF Status, Record, controllerVars, windowVars
  <2>4. \/ Log' = Log
        \/ Len(Log') = Len(Log) + 1 /\ SubSeq(Log', 1, Len(Log)) = Log
    BY <1>0, <2>2, LogLemma DEF Log
  <2> QED
    BY <2>3, <2>4, MappedActions DEF Lifecycle!LifecycleNext
<1>8. CASE UNCHANGED vars
  <2>1. UNCHANGED <<Status, Log, tests, Record>>
    BY <1>8 DEF vars, childVars, controllerVars, windowVars, Status, Log, Record, Complete
  <2> QED
    BY <2>1, MappedActions
<1> QED
  BY <1>1, <1>2, <1>3, <1>4, <1>5, <1>6, <1>7, <1>8
     DEF Next, Operator, EventLoop, Idle, Gone

\* Whatever the operator, Qt and pytest do, the GUI's runs are runs of
\* RunLifecycle, one after another.
THEOREM ControllerRefines == Spec => ImplementsLifecycle
<1>1. Init => Lifecycle!LifecycleInit
  <2> SUFFICES ASSUME Init PROVE Lifecycle!LifecycleInit
    OBVIOUS
  <2>1. Status = "idle" /\ Log = <<>> /\ tests = Unseen
          /\ Record = [n \in {} |-> NoVerdict]
    BY DEF Init, ChildInit, Status, Log, Record, NotSaved, Complete, CompleteLines
  <2> QED
    BY <2>1, SameReading DEF Lifecycle!LifecycleInit, Status, Log, Record
<1> QED
  BY <1>1, StepImplements, InvariantHolds, PTL
     DEF Spec, ImplementsLifecycle, Lifecycle!Lifecycle
=============================================================================
