------------------------- MODULE PytestChildProofs -------------------------
(***************************************************************************)
(* Lemmas that the proofs about both front ends rest on: the report-log    *)
(* parser and the worst-wins merge (ReportLog), and what every step of the *)
(* pytest subprocess guarantees the process that reads its files           *)
(* (PytestChild).                                                          *)
(***************************************************************************)
EXTENDS PytestChild, TLAPS

VerdictOrNone == Verdicts \cup {NoVerdict}

(***************************************************************************)
(* Lemmas on the report-log parser and the worst-wins upsert.              *)
(***************************************************************************)

\* parse_report_log_line is total: every line yields a verdict or none.
LEMMA ParseType ==
    ASSUME NEW line \in Lines
    PROVE  ParseReportLogLine(line) \in VerdictOrNone
BY DEF ParseReportLogLine, Lines, VerdictOrNone, Verdicts, NoVerdict, Phases,
       OutcomeStrings

\* The order behind _SEVERITY is total: of two different verdicts one is worse.
LEMMA WorsensTotal ==
    ASSUME NEW v \in VerdictOrNone, NEW w \in VerdictOrNone, v # w
    PROVE  Worsens(v, w) \/ Worsens(w, v)
BY DEF Worsens, Severity, VerdictOrNone, Verdicts, NoVerdict

\* A verdict that covers a line still covers it after it has become worse.
LEMMA WorsensCovers ==
    ASSUME NEW u \in VerdictOrNone, NEW v \in VerdictOrNone, NEW w \in VerdictOrNone,
           ~ Worsens(u, w), v = u \/ Worsens(u, v)
    PROVE  ~ Worsens(v, w)
BY DEF Worsens, Severity, VerdictOrNone, Verdicts, NoVerdict

\* drain_test_events' upsert: it keeps the type, it only worsens, what it
\* writes is the line's own verdict, and afterwards the line is covered.
LEMMA UpsertLemma ==
    ASSUME NEW t \in [Tests -> VerdictOrNone], NEW line \in Lines
    PROVE  /\ Upsert(t, line) \in [Tests -> VerdictOrNone]
           /\ \A n \in Tests : 
                \/ Upsert(t, line)[n] = t[n]
                \/ /\ Worsens(t[n], Upsert(t, line)[n])
                   /\ n = line.nodeid
                   /\ Upsert(t, line)[n] = ParseReportLogLine(line)
           /\ ~ Worsens(Upsert(t, line)[line.nodeid], ParseReportLogLine(line))
<1>1. ParseReportLogLine(line) \in VerdictOrNone
  BY ParseType
<1>2. line.nodeid \in Tests
  BY DEF Lines
<1>3. ~ Worsens(ParseReportLogLine(line), ParseReportLogLine(line))
  BY <1>1 DEF Worsens, Severity, VerdictOrNone, Verdicts, NoVerdict
<1> QED
  BY <1>1, <1>2, <1>3 DEF Upsert

\* The worst of a set of verdicts is the one no other worsens.
LEMMA WorstOfUnique ==
    ASSUME NEW S, S \subseteq VerdictOrNone, NEW v \in S,
           \A w \in S : ~ Worsens(v, w)
    PROVE  WorstOf(S) = v
<1>1. WorstOf(S) \in S /\ \A w \in S : ~ Worsens(WorstOf(S), w)
  BY DEF WorstOf
<1> QED
  BY <1>1, WorsensTotal

\* A set of verdicts that is not empty has a worst one, and WorstOf picks it.
LEMMA WorstOfExists ==
    ASSUME NEW S, S \subseteq VerdictOrNone, S # {}
    PROVE  /\ WorstOf(S) \in S
           /\ \A w \in S : ~ Worsens(WorstOf(S), w)
<1>1. \E v \in S : \A w \in S : ~ Worsens(v, w)
  <2>1. CASE "error" \in S
    BY <2>1 DEF Worsens, Severity, VerdictOrNone, Verdicts, NoVerdict
  <2>2. CASE "failed" \in S /\ "error" \notin S
    BY <2>2 DEF Worsens, Severity, VerdictOrNone, Verdicts, NoVerdict
  <2>3. CASE "skipped" \in S /\ "failed" \notin S /\ "error" \notin S
    BY <2>3 DEF Worsens, Severity, VerdictOrNone, Verdicts, NoVerdict
  <2>4. CASE S \subseteq {"passed", NoVerdict} /\ "passed" \in S
    BY <2>4 DEF Worsens, Severity, VerdictOrNone, Verdicts, NoVerdict
  <2>5. CASE S \subseteq {NoVerdict}
    BY <2>5 DEF Worsens
  <2> QED
    BY <2>1, <2>2, <2>3, <2>4, <2>5 DEF VerdictOrNone, Verdicts
<1> QED
  BY <1>1 DEF WorstOf

\* Merging new verdicts into the worst of the old ones gives the worst of all,
\* and that is the old worst one or a worse one.
LEMMA WorstOfMerge ==
    ASSUME NEW A, A \subseteq VerdictOrNone, NEW N, N \subseteq VerdictOrNone,
           NEW v \in A, \A w \in A : ~ Worsens(v, w)
    PROVE  /\ WorstOf({v} \cup N) = WorstOf(A \cup N)
           /\ WorstOf(A \cup N) \in VerdictOrNone
           /\ WorstOf(A \cup N) = v \/ Worsens(v, WorstOf(A \cup N))
<1> DEFINE u == WorstOf({v} \cup N)
<1>1. u \in {v} \cup N /\ \A w \in {v} \cup N : ~ Worsens(u, w)
  BY WorstOfExists
<1> HIDE DEF u
<1>2. u \in VerdictOrNone /\ v \in VerdictOrNone /\ u \in A \cup N
  BY <1>1
<1>3. u = v \/ Worsens(v, u)
  BY <1>1, <1>2, WorsensTotal
<1>4. \A w \in A \cup N : ~ Worsens(u, w)
  BY <1>1, <1>2, <1>3, WorsensCovers
<1>5. WorstOf(A \cup N) = u
  BY <1>2, <1>4, WorstOfUnique
<1> QED
  BY <1>2, <1>3, <1>5 DEF u

-----------------------------------------------------------------------------
(***************************************************************************)
(* The child.                                                              *)
(***************************************************************************)

\* The number of complete lines is a natural number within the file.
LEMMA CompleteType ==
    ASSUME NEW R, NEW log \in Seq(R), NEW torn \in BOOLEAN, torn => log # <<>>
    PROVE  /\ CompleteLines(log, torn) \in Nat
           /\ CompleteLines(log, torn) <= Len(log)
           /\ Len(log) <= CompleteLines(log, torn) + 1
BY DEF CompleteLines

\* Every step the subprocess can take, whichever faults a front end enables.
AnyChildStep == ChildProgress \/ ChildAborts \/ ChildCrashes \/ ChildTerminated

\* How a child that ended left its files.  A torn line is the one of the phase
\* in progress; 0, 1 and 5 are pytest's own codes for a selection that was run
\* to its end, and 1 means that a report carries a failure.
EndedOK ==
    /\ \A i \in 1..Len(reportLog) : reportLog[i].when # "other"
    /\ child = "exited" => code \in ExitCodes
    /\ child = "exited" /\ code \in {0, 1, 5} => remaining = {} /\ current = Between
    /\ child = "exited" /\ code = 1 =>
          \E i \in 1..Len(reportLog) : reportLog[i].outcome = "failed"

\* What any step of the child guarantees its reader: the files only grow, by
\* at most one complete line, and complete lines are never rewritten.
ChildGuarantee ==
    /\ ChildTypeOK' /\ TornOK'
    /\ EndedOK => EndedOK'
    /\ Complete' = Complete \/ Complete' = Complete + 1
    /\ \A i \in 1..Complete : reportLog'[i] = reportLog[i]
    /\ CompletePackets <= CompletePackets'
    /\ \A i \in 1..CompletePackets : packetLog'[i] = packetLog[i]
    /\ child \in {"running", "terminating"}
    /\ child' # "unborn"
    /\ child' = "exited" => code' # NoCode

\* Every line of the report log, and every line of the packet log, as a number.
LEMMA CompleteFacts ==
    ASSUME ChildTypeOK, TornOK
    PROVE  /\ Complete \in Nat /\ Complete <= Len(reportLog)
           /\ CompletePackets \in Nat /\ CompletePackets <= Len(packetLog)
           /\ \A i \in 1..Complete : reportLog[i] \in Lines
BY CompleteType DEF ChildTypeOK, TornOK, Complete, CompletePackets

\* Every step pytest can take gives the guarantee: a fragment is not a
\* complete line, its newline makes one, and the end of the process makes none.
LEMMA ChildLemma ==
    ASSUME ChildTypeOK, TornOK, AnyChildStep
    PROVE  ChildGuarantee
<1>a. /\ Len(reportLog) \in Nat /\ Len(packetLog) \in Nat
      /\ reportLog # <<>> => Len(reportLog) > 0
      /\ packetLog # <<>> => Len(packetLog) > 0
      /\ Complete \in Nat /\ CompletePackets \in Nat
      /\ Complete <= Len(reportLog) /\ CompletePackets <= Len(packetLog)
  BY CompleteFacts DEF ChildTypeOK
<1>b. /\ reportTorn => Complete = Len(reportLog) - 1
      /\ ~ reportTorn => Complete = Len(reportLog)
      /\ packetTorn => CompletePackets = Len(packetLog) - 1
      /\ ~ packetTorn => CompletePackets = Len(packetLog)
      /\ reportTorn' => Complete' = Len(reportLog') - 1
      /\ ~ reportTorn' => Complete' = Len(reportLog')
      /\ packetTorn' => CompletePackets' = Len(packetLog') - 1
      /\ ~ packetTorn' => CompletePackets' = Len(packetLog')
  BY DEF Complete, CompletePackets, CompleteLines
<1>1. CASE NextTest
  <2>1. PICK n \in remaining : /\ remaining' = remaining \ {n}
                               /\ current' = [test |-> n, phase |-> "setup"]
    BY <1>1 DEF NextTest
  <2>2. /\ remaining' \subseteq Tests
        /\ current' \in [test : Tests, phase : Phases \ {"other"}]
        /\ current' # Between
    BY <2>1 DEF ChildTypeOK, Phases, Between
  <2>3. Alive /\ UNCHANGED <<child, code, reportLog, reportTorn, packetLog, packetTorn>>
    BY <1>1 DEF NextTest
  <2>4. Complete' = Complete /\ CompletePackets' = CompletePackets
    BY <2>3 DEF Complete, CompletePackets
  <2>5. ChildTypeOK' /\ TornOK' /\ (EndedOK => EndedOK')
    BY <2>2, <2>3 DEF ChildTypeOK, TornOK, EndedOK, Alive
  <2> QED
    BY <1>a, <2>3, <2>4, <2>5 DEF ChildGuarantee, Alive
<1>2. CASE ReportFragment
  <2>1. PICK outcome \in PhaseOutcomes(current.phase) :
           reportLog' = Append(reportLog, [nodeid |-> current.test,
                                           when |-> current.phase,
                                           outcome |-> outcome])
    BY <1>2 DEF ReportFragment
  <2>2. /\ Alive /\ current # Between /\ ~ reportTorn /\ reportTorn' = TRUE
        /\ UNCHANGED <<child, code, packetLog, packetTorn, remaining, current>>
    BY <1>2 DEF ReportFragment
  <2>3. /\ current.test \in Tests /\ current.phase \in Phases \ {"other"}
        /\ outcome \in OutcomeStrings
    BY <2>2 DEF ChildTypeOK, PhaseOutcomes, Phases, OutcomeStrings
  <2> DEFINE line == [nodeid |-> current.test, when |-> current.phase, outcome |-> outcome]
  <2>4. line \in Lines /\ line.when # "other"
    BY <2>3 DEF Lines
  <2> HIDE DEF line
  <2>5. /\ reportLog' \in Seq(Lines)
        /\ reportLog' # <<>>
        /\ Len(reportLog') = Len(reportLog) + 1
        /\ \A i \in 1..Len(reportLog) : reportLog'[i] = reportLog[i]
        /\ reportLog'[Len(reportLog) + 1] = line
    BY <2>1, <2>4 DEF ChildTypeOK, line
  <2>6. Complete' = Complete /\ CompletePackets' = CompletePackets
    BY <1>a, <1>b, <2>2, <2>5 DEF CompletePackets
  <2>7. ChildTypeOK' /\ TornOK'
    BY <2>2, <2>5 DEF ChildTypeOK, TornOK
  <2>8. ASSUME EndedOK PROVE EndedOK'
    <3>1. \A i \in 1..Len(reportLog') : reportLog'[i].when # "other"
      BY <1>a, <2>4, <2>5, <2>8 DEF EndedOK
    <3> QED
      BY <2>2, <2>8, <3>1 DEF EndedOK, Alive
  <2> QED
    BY <1>a, <2>2, <2>5, <2>6, <2>7, <2>8 DEF ChildGuarantee, Alive
<1>3. CASE ReportNewline
  <2>1. /\ Alive /\ reportTorn = TRUE /\ reportTorn' = FALSE
        /\ UNCHANGED <<child, code, reportLog, packetLog, packetTorn, remaining>>
    BY <1>3 DEF ReportNewline, ChildTypeOK
  <2>2. current \in [test : Tests, phase : {"setup", "call", "teardown"}]
    BY <2>1 DEF TornOK, ChildTypeOK, Phases
  <2>3. current' \in {Between} \cup [test : Tests, phase : Phases \ {"other"}]
    <3> DEFINE next == NextPhase(reportLog[Len(reportLog)].outcome)
    <3>1. next \in Phases
      BY <2>2, Zenon DEF NextPhase, Phases
    <3>2. current' = IF next = "other" THEN Between
                     ELSE [current EXCEPT !.phase = next]
      BY <1>3 DEF ReportNewline
    <3> HIDE DEF next
    <3> QED
      BY <2>2, <3>1, <3>2 DEF Phases
  <2>4. Complete' = Complete + 1 /\ CompletePackets' = CompletePackets
    BY <1>a, <1>b, <2>1 DEF CompletePackets
  <2>5. ChildTypeOK' /\ TornOK' /\ (EndedOK => EndedOK')
    BY <2>1, <2>3 DEF ChildTypeOK, TornOK, EndedOK, Alive
  <2> QED
    BY <1>a, <2>1, <2>4, <2>5 DEF ChildGuarantee, Alive
<1>4. CASE PacketFragment
  <2>1. /\ Alive /\ current # Between /\ ~ packetTorn /\ packetTorn' = TRUE
        /\ UNCHANGED <<child, code, reportLog, reportTorn, remaining, current>>
    BY <1>4 DEF PacketFragment
  <2>2. PICK kind \in {"event", "garbage"} : packetLog' = Append(packetLog, kind)
    BY <1>4 DEF PacketFragment
  <2>3. /\ packetLog' \in Seq({"event", "garbage"})
        /\ packetLog' # <<>>
        /\ Len(packetLog') = Len(packetLog) + 1
        /\ \A i \in 1..Len(packetLog) : packetLog'[i] = packetLog[i]
    BY <2>2 DEF ChildTypeOK
  <2>4. Complete' = Complete /\ CompletePackets' = CompletePackets
    BY <1>a, <1>b, <2>1, <2>3 DEF Complete
  <2>5. ChildTypeOK' /\ TornOK' /\ (EndedOK => EndedOK')
    BY <2>1, <2>3 DEF ChildTypeOK, TornOK, EndedOK, Alive
  <2> QED
    BY <1>a, <2>1, <2>3, <2>4, <2>5 DEF ChildGuarantee, Alive
<1>5. CASE PacketNewline
  <2>1. /\ Alive /\ packetTorn = TRUE /\ packetTorn' = FALSE
        /\ UNCHANGED <<child, code, reportLog, reportTorn, packetLog, remaining, current>>
    BY <1>5 DEF PacketNewline, ChildTypeOK
  <2>2. Complete' = Complete /\ CompletePackets' = CompletePackets + 1
    BY <1>a, <1>b, <2>1 DEF Complete
  <2>3. ChildTypeOK' /\ TornOK' /\ (EndedOK => EndedOK')
    BY <2>1 DEF ChildTypeOK, TornOK, EndedOK, Alive
  <2> QED
    BY <1>a, <2>1, <2>2, <2>3 DEF ChildGuarantee, Alive
<1>6. CASE ChildExits \/ ChildAborts \/ ChildCrashes \/ ChildTerminated
  <2>1. PICK rc \in ExitCodes :
           /\ EndsWith(rc) /\ Alive
           /\ rc \in {0, 1, 5} => remaining = {} /\ current = Between
           /\ rc = 1 => \E i \in 1..Len(reportLog) : reportLog[i].outcome = "failed"
    BY <1>6 DEF ChildExits, ChildAborts, ChildCrashes, ChildTerminated, Alive,
                ExitCodes, KilledCode, CrashedCode
  <2>2. Complete' = Complete /\ CompletePackets' = CompletePackets
    BY <2>1 DEF EndsWith, Complete, CompletePackets
  <2>3. ChildTypeOK' /\ TornOK' /\ (EndedOK => EndedOK')
    BY <2>1 DEF EndsWith, ChildTypeOK, TornOK, EndedOK
  <2>4. rc # NoCode
    BY DEF ExitCodes, NoCode, KilledCode, CrashedCode
  <2> QED
    BY <1>a, <2>1, <2>2, <2>3, <2>4 DEF EndsWith, ChildGuarantee, Alive
<1> QED
  BY <1>1, <1>2, <1>3, <1>4, <1>5, <1>6 DEF AnyChildStep, ChildProgress

\* A launch leaves an empty pair of files, and so does one that failed.
LEMMA ChildStartLemma ==
    ASSUME ChildStarts \/ ChildNeverStarts
    PROVE  ChildTypeOK' /\ TornOK' /\ EndedOK' /\ Complete' = 0 /\ CompletePackets' = 0
<1>1. /\ reportLog' = <<>> /\ packetLog' = <<>>
      /\ reportTorn' = FALSE /\ packetTorn' = FALSE
      /\ child' \in {"unborn", "running"} /\ code' = NoCode
      /\ remaining' \subseteq Tests /\ current' = Between
  BY DEF ChildStarts, ChildNeverStarts
<1>2. Complete' = 0 /\ CompletePackets' = 0
  BY <1>1 DEF Complete, CompletePackets, CompleteLines
<1>3. ChildTypeOK'
  <2>1. reportLog' \in Seq(Lines) /\ packetLog' \in Seq({"event", "garbage"})
    BY <1>1
  <2> QED
    BY <1>1, <2>1, Zenon DEF ChildTypeOK
<1>4. TornOK' /\ EndedOK'
  BY <1>1 DEF TornOK, EndedOK
<1> QED
  BY <1>2, <1>3, <1>4

\* The files of a run that was never launched are empty.
LEMMA ChildInitLemma ==
    ASSUME ChildInit
    PROVE  ChildTypeOK /\ TornOK /\ EndedOK /\ Complete = 0 /\ CompletePackets = 0
<1>1. Complete = 0 /\ CompletePackets = 0
  BY DEF ChildInit, Complete, CompletePackets, CompleteLines
<1>2. reportLog \in Seq(Lines) /\ packetLog \in Seq({"event", "garbage"})
  BY DEF ChildInit
<1>3. ChildTypeOK
  BY <1>2, Zenon DEF ChildInit, ChildTypeOK
<1>4. TornOK /\ EndedOK
  BY DEF ChildInit, TornOK, EndedOK
<1> QED
  BY <1>1, <1>3, <1>4

-----------------------------------------------------------------------------
(***************************************************************************)
(* The reference definition: the worst verdict over a prefix of the log.   *)
(***************************************************************************)

\* The verdicts a prefix of the log carries for one test are verdicts.
LEMMA VerdictsOfType ==
    ASSUME NEW log, NEW k, NEW n, \A i \in 1..k : log[i] \in Lines
    PROVE  VerdictsOf(log, k, n) \subseteq VerdictOrNone
BY ParseType DEF VerdictsOf

\* WorstOver maps every test to a verdict one of its lines carries, or to
\* none, and none of its lines is worse.
LEMMA WorstOverLemma ==
    ASSUME NEW log, NEW k, \A i \in 1..k : log[i] \in Lines
    PROVE  /\ WorstOver(log, k) \in [Tests -> VerdictOrNone]
           /\ \A n \in Tests :
                 /\ WorstOver(log, k)[n] \in {NoVerdict} \cup VerdictsOf(log, k, n)
                 /\ \A w \in {NoVerdict} \cup VerdictsOf(log, k, n) :
                       ~ Worsens(WorstOver(log, k)[n], w)
<1>1. ASSUME NEW n \in Tests
      PROVE  /\ {NoVerdict} \cup VerdictsOf(log, k, n) \subseteq VerdictOrNone
             /\ WorstOf({NoVerdict} \cup VerdictsOf(log, k, n))
                   \in {NoVerdict} \cup VerdictsOf(log, k, n)
             /\ \A w \in {NoVerdict} \cup VerdictsOf(log, k, n) :
                   ~ Worsens(WorstOf({NoVerdict} \cup VerdictsOf(log, k, n)), w)
  <2>1. {NoVerdict} \cup VerdictsOf(log, k, n) \subseteq VerdictOrNone
    BY VerdictsOfType DEF VerdictOrNone
  <2> QED
    BY <2>1, WorstOfExists
<1> QED
  BY <1>1 DEF WorstOver

\* Nothing read, nothing shown.
LEMMA WorstOverNothing ==
    ASSUME NEW log
    PROVE  WorstOver(log, 0) = Unseen
<1>1. ASSUME NEW n \in Tests
      PROVE  WorstOf({NoVerdict} \cup VerdictsOf(log, 0, n)) = NoVerdict
  <2>1. {NoVerdict} \cup VerdictsOf(log, 0, n) = {NoVerdict}
    BY DEF VerdictsOf
  <2>2. WorstOf({NoVerdict}) = NoVerdict
    BY WorstOfUnique DEF VerdictOrNone, Worsens
  <2> QED
    BY <2>1, <2>2
<1> QED
  BY <1>1 DEF WorstOver, Unseen

\* Only the prefix matters: lines appended later do not change the reading of
\* the lines already complete.
LEMMA WorstOverPrefix ==
    ASSUME NEW log, NEW longer, NEW k, \A i \in 1..k : longer[i] = log[i]
    PROVE  WorstOver(longer, k) = WorstOver(log, k)
<1>1. ASSUME NEW n \in Tests
      PROVE  VerdictsOf(longer, k, n) = VerdictsOf(log, k, n)
  BY DEF VerdictsOf
<1> QED
  BY <1>1 DEF WorstOver

\* A reading of the log without a failing verdict is one of lines of which none
\* carries a failure: worst-wins hides no failure, whatever follows it.
LEMMA CleanReading ==
    ASSUME NEW log, NEW k, \A i \in 1..k : log[i] \in Lines,
           \A n \in Tests : ~ Failing(WorstOver(log, k)[n])
    PROVE  \A i \in 1..k : ~ Failing(ParseReportLogLine(log[i]))
<1> SUFFICES ASSUME NEW i \in 1..k
             PROVE  ~ Failing(ParseReportLogLine(log[i]))
  OBVIOUS
<1> DEFINE n == log[i].nodeid
           v == WorstOver(log, k)[n]
           w == ParseReportLogLine(log[i])
<1>1. n \in Tests /\ w \in VerdictOrNone
  BY ParseType DEF Lines
<1>2. w \in VerdictsOf(log, k, n)
  BY DEF VerdictsOf
<1>3. v \in VerdictOrNone /\ ~ Worsens(v, w) /\ ~ Failing(v)
  BY <1>1, <1>2, WorstOverLemma
<1> HIDE DEF v, w, n
<1>4. ~ Failing(w)
  BY <1>1, <1>3 DEF Worsens, Failing, Severity, VerdictOrNone, Verdicts, NoVerdict
<1> QED
  BY <1>4 DEF w

\* Every report of a failed phase parses to a failing verdict.
LEMMA FailedReportFails ==
    ASSUME NEW line \in Lines, line.when # "other", line.outcome = "failed"
    PROVE  Failing(ParseReportLogLine(line))
BY DEF ParseReportLogLine, Lines, Failing, Phases

-----------------------------------------------------------------------------
(***************************************************************************)
(* The log of the abstract lifecycle: the complete lines of the file.      *)
(***************************************************************************)

Log == SubSeq(reportLog, 1, Complete)

\* The first k elements of a sequence.
LEMMA PrefixLemma ==
    ASSUME NEW R, NEW s \in Seq(R), NEW k \in 0..Len(s)
    PROVE  /\ SubSeq(s, 1, k) \in Seq(R)
           /\ Len(SubSeq(s, 1, k)) = k
           /\ \A i \in 1..k : SubSeq(s, 1, k)[i] = s[i]
OBVIOUS

\* Two sequences with the same first k elements have the same prefix.
LEMMA SamePrefix ==
    ASSUME NEW R, NEW s \in Seq(R), NEW t \in Seq(R),
           NEW k \in 0..Len(s), k <= Len(t), \A i \in 1..k : t[i] = s[i]
    PROVE  SubSeq(t, 1, k) = SubSeq(s, 1, k)
OBVIOUS

\* What a step of the child is to someone who sees complete lines only: nothing,
\* or one line more.
LEMMA LogLemma ==
    ASSUME ChildTypeOK, TornOK, ChildGuarantee
    PROVE  \/ SubSeq(reportLog, 1, Complete)' = SubSeq(reportLog, 1, Complete)
           \/ /\ Len(SubSeq(reportLog, 1, Complete)')
                    = Len(SubSeq(reportLog, 1, Complete)) + 1
              /\ SubSeq(SubSeq(reportLog, 1, Complete)', 1,
                         Len(SubSeq(reportLog, 1, Complete)))
                    = SubSeq(reportLog, 1, Complete)
<1> DEFINE c == Complete
           d == Complete'
           s == reportLog
           t == reportLog'
<1>1. /\ s \in Seq(Lines) /\ t \in Seq(Lines)
      /\ c \in 0..Len(s) /\ d \in 0..Len(t)
      /\ d = c \/ d = c + 1
      /\ \A i \in 1..c : t[i] = s[i]
  <2>1. s \in Seq(Lines) /\ t \in Seq(Lines)
    BY DEF ChildGuarantee, ChildTypeOK
  <2>2. c \in 0..Len(s) /\ d \in 0..Len(t)
    <3>1. c \in Nat /\ c <= Len(s)
      BY CompleteFacts
    <3>2. reportTorn' \in BOOLEAN /\ (reportTorn' => t # <<>>)
      BY DEF ChildGuarantee, ChildTypeOK, TornOK
    <3>3. d = CompleteLines(t, reportTorn')
      BY DEF Complete
    <3>4. d \in Nat /\ d <= Len(t)
      BY <2>1, <3>2, <3>3, CompleteType
    <3>5. Len(s) \in Nat /\ Len(t) \in Nat
      BY <2>1
    <3> QED
      BY <3>1, <3>4, <3>5
  <2>3. /\ d = c \/ d = c + 1
        /\ \A i \in 1..c : t[i] = s[i]
    BY CompleteFacts, CompleteType DEF ChildGuarantee
  <2> QED
    BY <2>1, <2>2, <2>3
<1> HIDE DEF c, d, s, t
<1>2. c \in Nat /\ d \in Nat /\ c <= Len(t)
  BY <1>1
<1>3. /\ SubSeq(s, 1, c) \in Seq(Lines) /\ Len(SubSeq(s, 1, c)) = c
      /\ SubSeq(t, 1, d) \in Seq(Lines) /\ Len(SubSeq(t, 1, d)) = d
      /\ \A i \in 1..c : SubSeq(s, 1, c)[i] = s[i]
      /\ \A i \in 1..d : SubSeq(t, 1, d)[i] = t[i]
  BY <1>1, PrefixLemma
<1>4. CASE d = c
  <2>1. SubSeq(t, 1, c) = SubSeq(s, 1, c)
    BY <1>1, <1>2, SamePrefix
  <2> QED
    BY <1>4, <2>1 DEF c, d, s, t
<1>5. CASE d = c + 1
  <2> DEFINE L == SubSeq(s, 1, c)
             M == SubSeq(t, 1, d)
  <2>1. /\ L \in Seq(Lines) /\ M \in Seq(Lines) /\ Len(L) = c /\ Len(M) = c + 1
        /\ \A i \in 1..c : M[i] = L[i]
    BY <1>1, <1>2, <1>3, <1>5
  <2> HIDE DEF L, M
  <2>2. SubSeq(M, 1, c) = SubSeq(L, 1, c)
    BY <1>2, <2>1, SamePrefix
  <2>3. SubSeq(L, 1, c) = L
    BY <1>2, <2>1
  <2>4. Len(M) = Len(L) + 1 /\ SubSeq(M, 1, Len(L)) = L
    BY <2>1, <2>2, <2>3
  <2> QED
    BY <2>4 DEF L, M, c, d, s, t
<1> QED
  BY <1>1, <1>4, <1>5

\* The lifecycle's log holds the complete lines, and reads the same.
LEMMA LogFacts ==
    ASSUME ChildTypeOK, TornOK
    PROVE  /\ Complete \in Nat /\ Len(Log) = Complete
           /\ \A k \in 0..Complete : WorstOver(Log, k) = WorstOver(reportLog, k)
<1>1. Complete \in 0..Len(reportLog) /\ Complete \in Nat /\ reportLog \in Seq(Lines)
  BY CompleteFacts DEF ChildTypeOK
<1>2. Len(Log) = Complete /\ \A i \in 1..Complete : Log[i] = reportLog[i]
  BY <1>1, PrefixLemma DEF Log
<1>3. ASSUME NEW k \in 0..Complete
      PROVE  WorstOver(Log, k) = WorstOver(reportLog, k)
  <2>1. \A i \in 1..k : Log[i] = reportLog[i]
    BY <1>1, <1>2
  <2> QED
    BY <2>1, WorstOverPrefix
<1> QED
  BY <1>1, <1>2, <1>3

\* A step that leaves the report log's complete lines alone leaves Log alone.
LEMMA QuietLog ==
    ASSUME UNCHANGED <<reportLog, reportTorn>>
    PROVE  Log' = Log
BY DEF Log, Complete

-----------------------------------------------------------------------------
(***************************************************************************)
(* The upsert against the reference definition.                            *)
(***************************************************************************)

\* One upsert turns the reading of k lines into the reading of k + 1, and a
\* line that was read before changes nothing: reading a batch again after an
\* exception is harmless.
LEMMA UpsertReads ==
    ASSUME NEW log, NEW k \in Nat, NEW i \in 1..(k + 1),
           \A j \in 1..k : log[j] \in Lines, log[i] \in Lines
    PROVE  /\ i = k + 1 => Upsert(WorstOver(log, k), log[i]) = WorstOver(log, k + 1)
           /\ i # k + 1 => Upsert(WorstOver(log, k), log[i]) = WorstOver(log, k)
<1> DEFINE t == WorstOver(log, k)
           n == log[i].nodeid
           w == ParseReportLogLine(log[i])
           A(m) == {NoVerdict} \cup VerdictsOf(log, k, m)
<1>1. n \in Tests /\ w \in VerdictOrNone
  BY ParseType DEF Lines
<1>2. /\ t \in [Tests -> VerdictOrNone]
      /\ \A m \in Tests : t[m] \in A(m) /\ \A v \in A(m) : ~ Worsens(t[m], v)
  BY WorstOverLemma
<1>3. Upsert(t, log[i]) = IF Worsens(t[n], w) THEN [t EXCEPT ![n] = w] ELSE t
  BY DEF Upsert
<1>4. ASSUME i # k + 1 PROVE Upsert(t, log[i]) = t
  <2>1. i \in 1..k
    BY <1>4
  <2>2. w \in A(n)
    BY <2>1 DEF VerdictsOf
  <2> QED
    BY <1>1, <1>2, <1>3, <2>2
<1>5. ASSUME i = k + 1 PROVE Upsert(t, log[i]) = WorstOver(log, k + 1)
  <2>1. ASSUME NEW m \in Tests
        PROVE  Upsert(t, log[i])[m] = WorstOver(log, k + 1)[m]
    <3> DEFINE N == IF m = n THEN {w} ELSE {}
    <3>1. {NoVerdict} \cup VerdictsOf(log, k + 1, m) = A(m) \cup N
      <4>1. {j \in 1..(k + 1) : log[j].nodeid = m}
               = {j \in 1..k : log[j].nodeid = m} \cup (IF m = n THEN {k + 1} ELSE {})
        BY <1>5
      <4> QED
        BY <1>5, <4>1 DEF VerdictsOf
    <3>2. A(m) \subseteq VerdictOrNone /\ N \subseteq VerdictOrNone
      BY <1>1, VerdictsOfType DEF VerdictOrNone
    <3>3. t[m] \in A(m) /\ \A v \in A(m) : ~ Worsens(t[m], v)
      BY <1>2
    <3>4. WorstOver(log, k + 1)[m] = WorstOf({t[m]} \cup N)
      <4> HIDE DEF A, N, t
      <4>1. WorstOf({t[m]} \cup N) = WorstOf(A(m) \cup N)
        BY <3>2, <3>3, WorstOfMerge
      <4> QED
        BY <3>1, <4>1 DEF WorstOver
    <3>5. Upsert(t, log[i])[m] \in {t[m]} \cup N
      BY <1>1, <1>2, <1>3
    <3>6. \A v \in {t[m]} \cup N : ~ Worsens(Upsert(t, log[i])[m], v)
      <4>1. Upsert(t, log[i])[m] = IF m = n /\ Worsens(t[m], w) THEN w ELSE t[m]
        BY <1>1, <1>2, <1>3
      <4>2. t[m] \in VerdictOrNone
        BY <1>2
      <4>3. ~ Worsens(w, w) /\ ~ Worsens(t[m], t[m])
            /\ (Worsens(t[m], w) => ~ Worsens(w, t[m]))
        <5> HIDE DEF t, w
        <5> QED
          BY <1>1, <4>2 DEF Worsens, Severity, VerdictOrNone, Verdicts, NoVerdict
      <4> QED
        BY <4>1, <4>3
    <3>7. {t[m]} \cup N \subseteq VerdictOrNone
      BY <1>2, <3>2
    <3> HIDE DEF N, t
    <3>8. WorstOf({t[m]} \cup N) = Upsert(t, log[i])[m]
      BY <3>5, <3>6, <3>7, WorstOfUnique
    <3> QED
      BY <3>4, <3>8
  <2>2. Upsert(t, log[i]) \in [Tests -> VerdictOrNone]
    BY <1>1, <1>2, <1>3
  <2>3. WorstOver(log, k + 1) = [m \in Tests |-> WorstOver(log, k + 1)[m]]
    BY DEF WorstOver
  <2> HIDE DEF t
  <2> QED
    BY <2>1, <2>2, <2>3
<1> QED
  BY <1>4, <1>5
=============================================================================
