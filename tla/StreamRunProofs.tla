-------------------------- MODULE StreamRunProofs --------------------------
(***************************************************************************)
(* Proofs about StreamRun, for every set of tests, every bound and every   *)
(* combination of faults.                                                  *)
(***************************************************************************)
EXTENDS StreamRun, PytestChildProofs

-----------------------------------------------------------------------------
(***************************************************************************)
(* The inductive invariant.                                                *)
(***************************************************************************)

\* Before the first step stream_run has read nothing and saved nothing.
LEMMA InitIInv == Init => IInv
<1> SUFFICES ASSUME Init PROVE IInv
  OBVIOUS
<1> USE DEF Init, ChildInit
<1>1. TypeOK
  <2>1. ChildTypeOK
    <3>1. reportLog \in Seq(Lines) /\ packetLog \in Seq({"event", "garbage"})
      OBVIOUS
    <3>2. /\ child \in {"unborn", "running", "terminating", "exited"}
          /\ code \in ExitCodes \cup {NoCode}
          /\ remaining \subseteq Tests
          /\ current \in {Between} \cup [test : Tests, phase : Phases \ {"other"}]
      OBVIOUS
    <3> QED
      BY <3>1, <3>2 DEF ChildTypeOK
  <2>2. Unseen \in [Tests -> Verdicts \cup {NoVerdict}]
    BY DEF Unseen
  <2>3. NotSaved \in [present : BOOLEAN, tests : [Tests -> Verdicts \cup {NoVerdict}],
                      packets : Seq(Nat), code : ExitCodes \cup {NoCode}]
    BY <2>2 DEF NotSaved
  <2> QED
    BY <2>1, <2>2, <2>3 DEF TypeOK, Pcs, Stages, Errors, NoError
<1>2. TornOK /\ ControlOK
  BY DEF TornOK, ControlOK, NotSaved
<1>3. Complete = 0 /\ CompletePackets = 0
  BY DEF Complete, CompletePackets, CompleteLines
<1>4. OffsetsOK
  BY <1>3 DEF OffsetsOK
<1>5. VerdictsFaithful
  BY <1>3 DEF VerdictsFaithful, Covers, Grounded, Consumed, Unseen
<1>6. FinalDrainOK /\ SavedOK
  BY DEF FinalDrainOK, SavedOK, NotSaved
<1> QED
  BY <1>1, <1>2, <1>4, <1>5, <1>6 DEF IInv

\* A step of the child preserves it: what was read stays as it was read, and
\* a child whose return code is known takes no step.
LEMMA ChildIInv ==
    ASSUME IInv, ChildStep
    PROVE  IInv'
<1> USE DEF IInv
<1>1. ChildGuarantee
  BY ChildLemma DEF TypeOK, ChildStep, AnyChildStep
<1>2. UNCHANGED parentVars
  BY DEF ChildStep
<1> USE DEF parentVars
<1>3. /\ Complete \in Nat /\ Complete' \in Nat
      /\ CompletePackets \in Nat
      /\ CompletePackets' \in Nat
      /\ Complete <= Len(reportLog) /\ Complete' <= Len(reportLog')
  BY <1>1, CompleteType DEF ChildGuarantee, TypeOK, ChildTypeOK, TornOK, Complete,
                            CompletePackets
<1>4. TypeOK'
  BY <1>1, <1>2 DEF ChildGuarantee, TypeOK
<1>5. TornOK'
  BY <1>1 DEF ChildGuarantee
<1>6. ControlOK'
  BY <1>1, <1>2 DEF ChildGuarantee, ControlOK
<1>7. OffsetsOK'
  BY <1>1, <1>2, <1>3 DEF ChildGuarantee, OffsetsOK, TypeOK
<1>8. returncode = NoCode /\ ~ (saved.present /\ saved.code # NoCode)
  BY <1>1 DEF ChildGuarantee, FinalDrainOK, SavedOK
<1>9. FinalDrainOK' /\ SavedOK'
  BY <1>1, <1>2, <1>8 DEF ChildGuarantee, FinalDrainOK, SavedOK
<1>10. VerdictsFaithful'
  <2>1. Consumed' = Consumed /\ Consumed \in Nat /\ Consumed <= Complete
    BY <1>2, <1>3 DEF Consumed, OffsetsOK, TypeOK
  <2>2. \A i \in 1..Complete : i \in 1..Complete' /\ reportLog'[i] = reportLog[i]
    BY <1>1, <1>3 DEF ChildGuarantee
  <2>3. Covers(tests, Consumed)'
    BY <1>2, <1>3, <2>1, <2>2 DEF VerdictsFaithful, Covers
  <2>4. Grounded(tests)'
    BY <1>2, <1>3, <2>2 DEF VerdictsFaithful, Grounded
  <2> QED
    BY <2>3, <2>4 DEF VerdictsFaithful
<1> QED
  BY <1>4, <1>5, <1>6, <1>7, <1>9, <1>10

\* Facts every step that leaves the child and its files alone shares.
LEMMA QuietChild ==
    ASSUME IInv, UNCHANGED childVars
    PROVE  /\ Complete \in Nat /\ Complete' = Complete
           /\ CompletePackets \in Nat
           /\ CompletePackets' = CompletePackets
           /\ Complete <= Len(reportLog)
           /\ ChildTypeOK' /\ TornOK'
           /\ saved' = saved => SavedOK'
<1> USE DEF IInv, childVars
<1>1. /\ Complete \in Nat /\ Complete <= Len(reportLog)
      /\ CompletePackets \in Nat
  BY CompleteType DEF TypeOK, ChildTypeOK, TornOK, Complete, CompletePackets
<1>2. /\ Complete' = Complete
      /\ CompletePackets' = CompletePackets
  BY DEF Complete, CompletePackets
<1>3. ChildTypeOK' /\ TornOK'
  BY DEF TypeOK, ChildTypeOK, TornOK
<1>4. saved' = saved => SavedOK'
  BY <1>2 DEF SavedOK, Covers, Grounded
<1> QED
  BY <1>1, <1>2, <1>3, <1>4

\* The verdicts stay faithful if they and the log stay as they are and no
\* more of the log counts as consumed.
LEMMA QuietVerdicts ==
    ASSUME IInv, UNCHANGED <<reportLog, reportTorn, tests>>,
           Consumed' \in Nat, Consumed \in Nat, Consumed' <= Consumed
    PROVE  VerdictsFaithful'
<1>1. Complete' = Complete
  BY DEF Complete, CompletePackets
<1> QED
  BY <1>1 DEF IInv, VerdictsFaithful, Covers, Grounded

\* Steps of the polling loop and the final drain other than the upsert.
LEMMA LoopIInv ==
    ASSUME IInv,
           Poll \/ ReadTests \/ TestsDrained \/ ReadPackets
                \/ PacketsDrained \/ Sleep \/ Wait \/ EmitResults
    PROVE  IInv'
<1> USE DEF IInv
<1>1. UNCHANGED <<childVars, tests, saved>>
  BY DEF Poll, ReadTests, TestsDrained, ReadPackets, PacketsDrained, Sleep, Wait,
         EmitResults, result
<1>2. /\ Complete \in Nat /\ Complete' = Complete
      /\ CompletePackets \in Nat
      /\ CompletePackets' = CompletePackets
      /\ ChildTypeOK' /\ TornOK' /\ SavedOK'
  BY <1>1, QuietChild
<1>3. /\ reportOffset \in Nat /\ eventsOffset \in Nat /\ cursor \in Nat
      /\ batchEnd \in Nat
      /\ ReadNewLines(reportLog, reportTorn, reportOffset) = Complete
      /\ ReadNewLines(packetLog, packetTorn, eventsOffset)
            = CompletePackets
  BY <1>2 DEF TypeOK, OffsetsOK, ReadNewLines, Complete, CompletePackets
<1> USE DEF result, offsets, batch, childVars, EnterFinally
<1>4. CASE Poll
  <2>1. TypeOK'
    BY <1>1, <1>2, <1>4 DEF Poll, TypeOK, ChildTypeOK, Pcs, Stages, Errors, NoError
  <2>2. ControlOK' /\ OffsetsOK' /\ FinalDrainOK'
    BY <1>2, <1>4 DEF Poll, ControlOK, OffsetsOK, FinalDrainOK
  <2>3. VerdictsFaithful'
    BY <1>3, <1>4, QuietVerdicts DEF Poll, Consumed
  <2> QED
    BY <1>2, <2>1, <2>2, <2>3
<1>5. CASE ReadTests
  <2>1. TypeOK'
    BY <1>1, <1>2, <1>3, <1>5 DEF ReadTests, TypeOK, Pcs
  <2>2. ControlOK' /\ OffsetsOK' /\ FinalDrainOK'
    BY <1>2, <1>3, <1>5 DEF ReadTests, ControlOK, OffsetsOK, FinalDrainOK
  <2>3. VerdictsFaithful'
    BY <1>3, <1>5, QuietVerdicts DEF ReadTests, Consumed
  <2> QED
    BY <1>2, <2>1, <2>2, <2>3
<1>6. CASE TestsDrained
  <2>1. TypeOK'
    BY <1>1, <1>2, <1>3, <1>6 DEF TestsDrained, TypeOK, Pcs
  <2>2. ControlOK' /\ OffsetsOK' /\ FinalDrainOK'
    BY <1>2, <1>3, <1>6 DEF TestsDrained, ControlOK, OffsetsOK, FinalDrainOK
  <2>3. VerdictsFaithful'
    BY <1>3, <1>6, QuietVerdicts DEF TestsDrained, Consumed
  <2> QED
    BY <1>2, <2>1, <2>2, <2>3
<1>7. CASE ReadPackets
  <2>1. TypeOK'
    BY <1>1, <1>2, <1>3, <1>7 DEF ReadPackets, TypeOK, Pcs
  <2>2. ControlOK' /\ OffsetsOK' /\ FinalDrainOK'
    BY <1>2, <1>3, <1>7 DEF ReadPackets, ControlOK, OffsetsOK, FinalDrainOK
  <2>3. VerdictsFaithful'
    BY <1>3, <1>7, QuietVerdicts DEF ReadPackets, Consumed
  <2> QED
    BY <1>2, <2>1, <2>2, <2>3
<1>8. CASE PacketsDrained
  <2>1. TypeOK'
    BY <1>1, <1>2, <1>3, <1>8 DEF PacketsDrained, TypeOK, Pcs
  <2>2. ControlOK' /\ OffsetsOK' /\ FinalDrainOK'
    BY <1>2, <1>3, <1>8 DEF PacketsDrained, ControlOK, OffsetsOK, FinalDrainOK
  <2>3. VerdictsFaithful'
    BY <1>3, <1>8, QuietVerdicts DEF PacketsDrained, Consumed
  <2> QED
    BY <1>2, <2>1, <2>2, <2>3
<1>9. CASE Sleep
  <2>1. TypeOK'
    BY <1>1, <1>2, <1>9 DEF Sleep, TypeOK, Pcs
  <2>2. ControlOK' /\ OffsetsOK' /\ FinalDrainOK'
    BY <1>2, <1>9 DEF Sleep, ControlOK, OffsetsOK, FinalDrainOK
  <2>3. VerdictsFaithful'
    BY <1>3, <1>9, QuietVerdicts DEF Sleep, Consumed
  <2> QED
    BY <1>2, <2>1, <2>2, <2>3
<1>10. CASE Wait
  <2>1. TypeOK'
    BY <1>1, <1>2, <1>10 DEF Wait, TypeOK, ChildTypeOK, Pcs, Stages, Errors
  <2>2. ControlOK' /\ OffsetsOK' /\ FinalDrainOK'
    BY <1>2, <1>10 DEF Wait, ControlOK, OffsetsOK, FinalDrainOK
  <2>3. VerdictsFaithful'
    BY <1>3, <1>10, QuietVerdicts DEF Wait, Consumed
  <2> QED
    BY <1>2, <2>1, <2>2, <2>3
<1>11. CASE EmitResults
  <2>1. TypeOK'
    BY <1>1, <1>2, <1>11 DEF EmitResults, Errored, TypeOK, Pcs, ExitCodes,
                             KilledCode, CrashedCode, NoCode
  <2>2. ControlOK' /\ OffsetsOK' /\ FinalDrainOK'
    BY <1>2, <1>11 DEF EmitResults, ControlOK, OffsetsOK, FinalDrainOK
  <2>3. VerdictsFaithful'
    BY <1>3, <1>11, QuietVerdicts DEF EmitResults, Consumed
  <2> QED
    BY <1>2, <2>1, <2>2, <2>3
<1> QED
  BY <1>4, <1>5, <1>6, <1>7, <1>8, <1>9, <1>10, <1>11

\* The upsert of one line: it covers that line, keeps every earlier one
\* covered and writes nothing but the line's own verdict, also when the
\* callback raises right after it.
LEMMA ApplyLineIInv ==
    ASSUME IInv, ApplyLine
    PROVE  IInv'
<1> USE DEF IInv
<1> DEFINE line == reportLog[cursor + 1]
<1>1. UNCHANGED <<childVars, saved, interrupts, packets, reportOffset, eventsOffset,
                  batchEnd, returncode>>
  BY DEF ApplyLine, offsets
<1>2. /\ Complete \in Nat /\ Complete' = Complete
      /\ CompletePackets \in Nat
      /\ CompletePackets' = CompletePackets
      /\ Complete <= Len(reportLog)
      /\ ChildTypeOK' /\ TornOK' /\ SavedOK'
  BY <1>1, QuietChild
<1>3. /\ pc = "tests" /\ cursor \in Nat /\ batchEnd \in Nat /\ reportOffset \in Nat
      /\ cursor < batchEnd /\ cursor' = cursor + 1
      /\ cursor + 1 \in 1..Complete
      /\ Consumed = cursor
  BY <1>2 DEF ApplyLine, TypeOK, OffsetsOK, Consumed
<1>4. line \in Lines /\ LineAt(cursor + 1) = line
  BY <1>2, <1>3 DEF TypeOK, ChildTypeOK, LineAt, Complete
<1>5. tests \in [Tests -> VerdictOrNone] /\ tests' = Upsert(tests, line)
  BY <1>4 DEF ApplyLine, TypeOK, VerdictOrNone
<1> HIDE DEF line
<1>6. /\ tests' \in [Tests -> VerdictOrNone]
      /\ \A n \in Tests : \/ tests'[n] = tests[n]
                          \/ /\ Worsens(tests[n], tests'[n])
                             /\ n = line.nodeid
                             /\ tests'[n] = ParseReportLogLine(line)
      /\ ~ Worsens(tests'[line.nodeid], ParseReportLogLine(line))
  BY <1>4, <1>5, UpsertLemma
<1>7. \/ UNCHANGED <<pc, stage, raised, exitStatus>>
      \/ /\ stage = "try" /\ stage' = "finally" /\ pc' = "readTests"
         /\ raised' = "CallbackError" /\ exitStatus' = exitStatus
      \/ /\ stage = "finally" /\ stage' = "after" /\ pc' = "done"
         /\ raised' = "CallbackError" /\ exitStatus' = 1
  BY DEF ApplyLine, Raise, EnterFinally, Fail, ExitOn
<1>8. TypeOK'
  BY <1>1, <1>2, <1>3, <1>6, <1>7 DEF TypeOK, Pcs, Stages, Errors, VerdictOrNone,
       childVars
<1>9. ControlOK' /\ OffsetsOK' /\ FinalDrainOK'
  BY <1>1, <1>2, <1>3, <1>7 DEF ControlOK, OffsetsOK, FinalDrainOK, childVars
<1>10. VerdictsFaithful'
  <2>1. Consumed' \in Nat /\ Consumed' <= cursor + 1
    BY <1>1, <1>3, <1>7 DEF Consumed, OffsetsOK
  <2>2. reportLog' = reportLog
    BY <1>1 DEF childVars
  <2>3. ASSUME NEW i \in 1..(cursor + 1)
        PROVE  ~ Worsens(tests'[reportLog[i].nodeid], ParseReportLogLine(reportLog[i]))
    <3>1. CASE i = cursor + 1
      BY <1>6, <3>1 DEF line
    <3>2. CASE i # cursor + 1
      <4>1. i \in 1..cursor /\ i \in 1..Len(reportLog)
        BY <1>2, <1>3, <3>2
      <4>a. reportLog[i] \in Lines
        BY <4>1 DEF TypeOK, ChildTypeOK
      <4>2. reportLog[i] \in Lines /\ reportLog[i].nodeid \in Tests
        BY <4>a DEF Lines
      <4>3. ~ Worsens(tests[reportLog[i].nodeid], ParseReportLogLine(reportLog[i]))
        BY <1>3, <4>1 DEF VerdictsFaithful, Covers
      <4>4. /\ tests[reportLog[i].nodeid] \in VerdictOrNone
            /\ tests'[reportLog[i].nodeid] \in VerdictOrNone
            /\ ParseReportLogLine(reportLog[i]) \in VerdictOrNone
        BY <1>5, <1>6, <4>2, ParseType
      <4>5. \/ tests'[reportLog[i].nodeid] = tests[reportLog[i].nodeid]
            \/ Worsens(tests[reportLog[i].nodeid], tests'[reportLog[i].nodeid])
        BY <1>6, <4>2
      <4> QED
        BY <4>3, <4>4, <4>5, WorsensCovers
    <3> QED
      BY <3>1, <3>2
  <2>4. Covers(tests, Consumed)'
    BY <1>3, <2>1, <2>2, <2>3 DEF Covers
  <2>5. ASSUME NEW n \in Tests, tests'[n] # NoVerdict
        PROVE  \E i \in 1..Complete : /\ reportLog[i].nodeid = n
                                      /\ ParseReportLogLine(reportLog[i]) = tests'[n]
    <3>1. CASE tests'[n] = tests[n]
      BY <2>5, <3>1 DEF VerdictsFaithful, Grounded
    <3>2. CASE tests'[n] # tests[n]
      <4>1. n = line.nodeid /\ tests'[n] = ParseReportLogLine(line)
        BY <1>6, <3>2
      <4> QED
        BY <1>3, <4>1 DEF line
    <3> QED
      BY <3>1, <3>2
  <2>6. Grounded(tests)'
    BY <1>2, <2>2, <2>5 DEF Grounded
  <2> QED
    BY <2>4, <2>6 DEF VerdictsFaithful
<1> QED
  BY <1>2, <1>8, <1>9, <1>10

\* One packet line.
LEMMA ApplyPacketIInv ==
    ASSUME IInv, ApplyPacket
    PROVE  IInv'
<1> USE DEF IInv
<1>1. UNCHANGED <<childVars, saved, pc, stage, raised, interrupts, tests, reportOffset,
                  eventsOffset, batchEnd, returncode, exitStatus>>
  BY DEF ApplyPacket, offsets
<1>2. /\ Complete \in Nat /\ Complete' = Complete
      /\ CompletePackets \in Nat
      /\ CompletePackets' = CompletePackets
      /\ ChildTypeOK' /\ TornOK' /\ SavedOK'
  BY <1>1, QuietChild
<1>3. /\ pc = "packets" /\ cursor \in Nat /\ batchEnd \in Nat /\ eventsOffset \in Nat
      /\ cursor < batchEnd /\ cursor' = cursor + 1
  BY DEF ApplyPacket, TypeOK
<1>4. packets' \in Seq(Nat)
  BY <1>3 DEF ApplyPacket, TypeOK
<1>5. TypeOK'
  BY <1>1, <1>2, <1>3, <1>4 DEF TypeOK
<1>6. ControlOK' /\ OffsetsOK' /\ FinalDrainOK'
  BY <1>1, <1>2, <1>3 DEF ControlOK, OffsetsOK, FinalDrainOK, childVars
<1>7. VerdictsFaithful'
  BY <1>1, <1>3, QuietVerdicts DEF Consumed, TypeOK, childVars
<1> QED
  BY <1>2, <1>5, <1>6, <1>7

\* Creating the run directory and launching the child: nothing has been read
\* yet, so the empty files of the new run are covered.
LEMMA StartIInv ==
    ASSUME IInv, CreateRun \/ Popen
    PROVE  IInv'
<1> USE DEF IInv, result, offsets, batch
<1>1. CASE CreateRun
  <2>1. UNCHANGED <<childVars, tests, saved>>
    BY <1>1 DEF CreateRun
  <2>2. /\ Complete \in Nat /\ Complete' = Complete
        /\ CompletePackets' = CompletePackets
        /\ ChildTypeOK' /\ TornOK' /\ SavedOK'
    BY <2>1, QuietChild
  <2>3. TypeOK'
    BY <1>1, <2>1, <2>2 DEF CreateRun, Fail, ExitOn, TypeOK, Pcs, Stages, Errors
  <2>4. ControlOK' /\ OffsetsOK' /\ FinalDrainOK'
    BY <1>1, <2>1, <2>2 DEF CreateRun, Fail, ControlOK, OffsetsOK, FinalDrainOK,
         childVars
  <2>5. VerdictsFaithful'
    BY <1>1, <2>1, QuietVerdicts DEF CreateRun, Fail, Consumed, TypeOK, childVars
  <2> QED
    BY <2>2, <2>3, <2>4, <2>5
<1>2. CASE Popen /\ ~ ChildStarts
  <2>1. UNCHANGED <<childVars, tests, saved>>
    BY <1>2 DEF Popen
  <2>2. /\ Complete \in Nat /\ Complete' = Complete
        /\ CompletePackets' = CompletePackets
        /\ ChildTypeOK' /\ TornOK' /\ SavedOK'
    BY <2>1, QuietChild
  <2>3. TypeOK'
    BY <1>2, <2>1, <2>2 DEF Popen, Fail, ExitOn, TypeOK, Pcs, Stages, Errors
  <2>4. ControlOK' /\ OffsetsOK' /\ FinalDrainOK'
    BY <1>2, <2>1, <2>2 DEF Popen, Fail, ControlOK, OffsetsOK, FinalDrainOK, childVars
  <2>5. VerdictsFaithful'
    BY <1>2, <2>1, QuietVerdicts DEF Popen, Fail, Consumed, TypeOK, childVars
  <2> QED
    BY <2>2, <2>3, <2>4, <2>5
<1>3. CASE Popen /\ ChildStarts
  <2>1. /\ pc = "popen" /\ UNCHANGED <<interrupts, tests, packets, reportOffset,
             eventsOffset, cursor, batchEnd, returncode, saved>>
    BY <1>3 DEF Popen
  <2>2. /\ stage = "before" /\ tests = Unseen /\ reportOffset = 0 /\ eventsOffset = 0
        /\ returncode = NoCode /\ ~ saved.present
    BY <2>1 DEF ControlOK
  <2>3. /\ child' = "running" /\ code' = NoCode
        /\ reportLog' = <<>> /\ reportTorn' = FALSE
        /\ packetLog' = <<>> /\ packetTorn' = FALSE
        /\ remaining' \subseteq Tests /\ current' = Between
    BY <1>3 DEF ChildStarts
  <2>4. Complete' = 0 /\ CompletePackets' = 0
    BY <2>3 DEF Complete, CompletePackets, CompleteLines
  <2>5. ChildTypeOK' /\ TornOK'
    <3>1. reportLog' \in Seq(Lines) /\ packetLog' \in Seq({"event", "garbage"})
      BY <2>3
    <3> QED
      BY <2>3, <3>1 DEF ChildTypeOK, TornOK
  <2>6. \/ /\ pc' = "poll" /\ stage' = "try" /\ UNCHANGED <<raised, exitStatus>>
        \/ /\ pc' = "done" /\ stage' = "after" /\ raised' = "OSError" /\ exitStatus' = 1
    BY <1>3 DEF Popen, Fail, ExitOn
  <2>7. TypeOK'
    BY <2>1, <2>5, <2>6 DEF TypeOK, Pcs, Stages, Errors
  <2>8. ControlOK' /\ OffsetsOK' /\ FinalDrainOK' /\ SavedOK'
    BY <2>1, <2>2, <2>3, <2>4, <2>6 DEF ControlOK, OffsetsOK, FinalDrainOK, SavedOK
  <2>9. VerdictsFaithful'
    BY <2>1, <2>2, <2>4, <2>6 DEF VerdictsFaithful, Consumed, Covers, Grounded, Unseen
  <2> QED
    BY <2>5, <2>7, <2>8, <2>9
<1> QED
  BY <1>1, <1>2, <1>3

\* Ctrl+C, wherever it lands, and the terminate() of its handler: no return
\* code is known yet unless the final drain has begun, and that keeps it.
LEMMA InterruptIInv ==
    ASSUME IInv, Interrupt \/ Terminate
    PROVE  IInv'
<1> USE DEF IInv, result, offsets, batch
<1>1. CASE Interrupt
  <2>1. UNCHANGED <<childVars, tests, saved>>
    BY <1>1 DEF Interrupt
  <2>2. /\ Complete \in Nat /\ Complete' = Complete
        /\ CompletePackets' = CompletePackets
        /\ ChildTypeOK' /\ TornOK' /\ SavedOK'
    BY <2>1, QuietChild
  <2>3. TypeOK'
    BY <1>1, <2>1, <2>2 DEF Interrupt, EnterFinally, Fail, ExitOn, TypeOK, Pcs,
                            Stages, Errors
  <2>4. ControlOK' /\ OffsetsOK'
    BY <1>1, <2>1, <2>2 DEF Interrupt, EnterFinally, Fail, ControlOK, OffsetsOK,
         childVars
  <2>5. FinalDrainOK'
    BY <1>1, <2>1, <2>2 DEF Interrupt, EnterFinally, Fail, ControlOK, FinalDrainOK,
         childVars
  <2>6. Consumed' = reportOffset /\ reportOffset \in Nat /\ Consumed \in Nat
           /\ reportOffset <= Consumed
    BY <1>1 DEF Interrupt, EnterFinally, Fail, Consumed, TypeOK, OffsetsOK
  <2>7. VerdictsFaithful'
    BY <2>1, <2>6, QuietVerdicts DEF childVars
  <2> QED
    BY <2>2, <2>3, <2>4, <2>5, <2>7
<1>2. CASE Terminate
  <2>1. /\ pc = "terminate" /\ stage = "except" /\ returncode = NoCode
        /\ ~ saved.present
    BY <1>2 DEF Terminate, ControlOK, FinalDrainOK
  <2>2. /\ UNCHANGED <<code, reportLog, reportTorn, packetLog, packetTorn, remaining,
                       current, stage, raised, interrupts, tests, packets,
                       reportOffset, eventsOffset, cursor, batchEnd, returncode,
                       saved, exitStatus>>
        /\ child' \in {child, "terminating"} /\ pc' = "wait"
    BY <1>2 DEF Terminate
  <2>3. /\ Complete' = Complete
        /\ CompletePackets' = CompletePackets
    BY <2>2 DEF Complete, CompletePackets
  <2>4. TypeOK' /\ TornOK'
    BY <2>2 DEF TypeOK, ChildTypeOK, TornOK, Pcs
  <2>5. ControlOK' /\ OffsetsOK' /\ FinalDrainOK' /\ SavedOK'
    BY <2>1, <2>2, <2>3 DEF ControlOK, OffsetsOK, FinalDrainOK, SavedOK
  <2>6. VerdictsFaithful'
    BY <2>1, <2>2, QuietVerdicts DEF Consumed, TypeOK
  <2> QED
    BY <2>4, <2>5, <2>6
<1> QED
  BY <1>1, <1>2

\* finalize_run: what is written shows the whole log if a return code is known.
LEMMA SaveIInv ==
    ASSUME IInv, Save
    PROVE  IInv'
<1> USE DEF IInv, result, offsets, batch
<1>1. pc = "save" /\ UNCHANGED <<childVars, tests, reportOffset, eventsOffset, cursor,
                                 batchEnd, returncode, interrupts, packets>>
  BY DEF Save
<1>2. /\ Complete \in Nat /\ Complete' = Complete
      /\ CompletePackets' = CompletePackets
      /\ ChildTypeOK' /\ TornOK'
      /\ saved' = saved => SavedOK'
  BY <1>1, QuietChild
<1>3. \/ saved' = saved
      \/ saved' = [present |-> TRUE, tests |-> tests, packets |-> packets,
                   code |-> returncode]
  BY DEF Save
<1>4. \/ pc' = "emit" /\ stage' = "after" /\ UNCHANGED <<raised, exitStatus>>
      \/ pc' = "done" /\ stage' = "after" /\ raised' = raised
           /\ exitStatus' \in {1, 130}
      \/ pc' = "done" /\ stage' = "after" /\ raised' = "RunArtifactError"
           /\ exitStatus' = 1
  BY DEF Save, Fail, ExitOn
<1>5. TypeOK'
  <2>1. saved' \in [present : BOOLEAN, tests : [Tests -> Verdicts \cup {NoVerdict}],
                    packets : Seq(Nat), code : ExitCodes \cup {NoCode}]
    <3>1. CASE saved' = saved
      BY <3>1 DEF TypeOK
    <3>2. CASE saved' = [present |-> TRUE, tests |-> tests, packets |-> packets,
                         code |-> returncode]
      BY <3>2 DEF TypeOK
    <3> QED
      BY <1>3, <3>1, <3>2
  <2> QED
    BY <1>1, <1>2, <1>4, <2>1 DEF TypeOK, Pcs, Stages, Errors
<1>6. ControlOK' /\ OffsetsOK' /\ FinalDrainOK'
  BY <1>1, <1>2, <1>4 DEF ControlOK, OffsetsOK, FinalDrainOK, childVars
<1>7. VerdictsFaithful'
  BY <1>1, <1>4, QuietVerdicts DEF Consumed, TypeOK, childVars
<1>8. SavedOK'
  <2>1. CASE saved' = [present |-> TRUE, tests |-> tests, packets |-> packets,
                       code |-> returncode]
    <3>1. SUFFICES ASSUME returncode # NoCode
                   PROVE  SavedOK'
      BY <2>1 DEF SavedOK
    <3>2. /\ child' = "exited" /\ returncode = code' /\ reportOffset = Complete
          /\ Consumed = reportOffset
      BY <1>1, <3>1 DEF FinalDrainOK, Consumed, childVars
    <3>3. Covers(saved.tests, Complete)' /\ Grounded(saved.tests)'
      BY <1>1, <1>2, <2>1, <3>2 DEF VerdictsFaithful, Covers, Grounded, childVars
    <3> QED
      BY <2>1, <3>2, <3>3 DEF SavedOK
  <2> QED
    BY <1>2, <1>3, <2>1
<1> QED
  BY <1>2, <1>5, <1>6, <1>7, <1>8

\* Every step of the specification preserves the invariant.
LEMMA NextIInv == IInv /\ [Next]_vars => IInv'
<1> SUFFICES ASSUME IInv, [Next]_vars PROVE IInv'
  OBVIOUS
<1>1. CASE ParentStep
  BY <1>1, LoopIInv, ApplyLineIInv, ApplyPacketIInv, StartIInv, InterruptIInv, SaveIInv
     DEF ParentStep, Drain
<1>2. CASE Interrupt
  BY <1>2, InterruptIInv
<1>3. CASE ChildStep
  BY <1>3, ChildIInv
<1>4. CASE UNCHANGED vars
  <2>1. UNCHANGED <<childVars, parentVars>>
    BY <1>4 DEF vars
  <2>2. /\ Complete' = Complete /\ ChildTypeOK' /\ TornOK' /\ SavedOK'
        /\ CompletePackets' = CompletePackets
    BY <2>1, QuietChild DEF parentVars
  <2>3. TypeOK' /\ ControlOK' /\ OffsetsOK' /\ FinalDrainOK'
    BY <2>1, <2>2 DEF parentVars, childVars, IInv, TypeOK, ControlOK, OffsetsOK,
                      FinalDrainOK
  <2>4. Consumed' = Consumed /\ Consumed \in Nat
    BY <2>1 DEF parentVars, Consumed, IInv, TypeOK
  <2>5. VerdictsFaithful'
    BY <2>1, <2>4, QuietVerdicts DEF parentVars, childVars
  <2> QED
    BY <2>2, <2>3, <2>5 DEF IInv
<1> QED
  BY <1>1, <1>2, <1>3, <1>4 DEF Next, Finished

\* The inductive invariant holds of every behaviour of stream_run.
THEOREM InvariantHolds == Spec => []IInv
BY InitIInv, NextIInv, PTL DEF Spec

\* Type correctness of stream_run's state.
THEOREM TypeCorrect == Spec => []TypeOK
<1>1. IInv => TypeOK
  BY DEF IInv
<1> QED
  BY <1>1, InvariantHolds, PTL

\* drain_test_events loses no verdict and makes none up, in any interleaving
\* with the child, after any exception and whatever the set of tests.
THEOREM VerdictsAreFaithful == Spec => []VerdictsFaithful
<1>1. IInv => VerdictsFaithful
  BY DEF IInv
<1> QED
  BY <1>1, InvariantHolds, PTL

\* A results.json with a return code holds the worst verdict of every test
\* over the whole report log.
THEOREM SavedVerdictsAreComplete == Spec => []SavedVerdictsComplete
<1>1. IInv => SavedVerdictsComplete
  <2> SUFFICES ASSUME IInv, saved.present, saved.code # NoCode
               PROVE  /\ child = "exited" /\ saved.code = code
                      /\ saved.tests = WorstOver(reportLog, Complete)
    BY DEF SavedVerdictsComplete
  <2> DEFINE S(n) == {NoVerdict} \cup VerdictsOf(reportLog, Complete, n)
  <2>1. child = "exited" /\ saved.code = code
    BY DEF IInv, SavedOK
  <2>2. /\ Complete \in Nat /\ Complete <= Len(reportLog)
        /\ saved.tests \in [Tests -> VerdictOrNone]
    BY CompleteType DEF IInv, TypeOK, ChildTypeOK, TornOK, Complete, VerdictOrNone
  <2>3. ASSUME NEW n \in Tests
        PROVE  saved.tests[n] = WorstOf(S(n))
    <3>1. \A i \in 1..Complete : reportLog[i] \in Lines
      BY <2>2 DEF IInv, TypeOK, ChildTypeOK
    <3>2. S(n) \subseteq VerdictOrNone
      BY <3>1, ParseType DEF VerdictsOf, VerdictOrNone
    <3>3. saved.tests[n] \in S(n)
      BY <2>2 DEF IInv, SavedOK, Grounded, VerdictsOf
    <3>4. ASSUME NEW w \in S(n) PROVE ~ Worsens(saved.tests[n], w)
      <4>1. CASE w = NoVerdict
        BY <4>1 DEF Worsens
      <4>2. CASE w # NoVerdict
        <5>1. PICK i \in 1..Complete : /\ reportLog[i].nodeid = n
                                       /\ w = ParseReportLogLine(reportLog[i])
          BY <4>2 DEF VerdictsOf
        <5> QED
          BY <5>1 DEF IInv, SavedOK, Covers
      <4> QED
        BY <4>1, <4>2
    <3> HIDE DEF S
    <3> QED
      BY <3>2, <3>3, <3>4, WorstOfUnique
  <2> QED
    BY <2>1, <2>2, <2>3 DEF WorstOver
<1> QED
  BY <1>1, InvariantHolds, PTL

-----------------------------------------------------------------------------
(***************************************************************************)
(* The exit status.                                                        *)
(***************************************************************************)

\* How exit status 0 comes about: without an exception the finally block runs
\* only after poll() saw the child's code, and the verdicts that decide the
\* status are the ones that were saved.
CleanInv ==
    /\ stage \in {"before", "try"} => raised = NoError
    /\ stage = "finally" /\ raised = NoError => returncode # NoCode
    /\ pc = "emit" => /\ saved.present
                      /\ saved.tests = tests
                      /\ saved.code # NoCode
    /\ exitStatus = 0 => /\ pc = "done"
                         /\ saved.present
                         /\ saved.code # NoCode
                         /\ \A n \in Tests : ~ Failing(saved.tests[n])

\* The steps that decide the exit status preserve CleanInv.
LEMMA NextCleanInv == IInv /\ CleanInv /\ [Next]_vars => CleanInv'
<1> SUFFICES ASSUME IInv, CleanInv, [Next]_vars PROVE CleanInv'
  OBVIOUS
<1> USE DEF IInv, CleanInv, result, offsets, batch, EnterFinally, Fail, ExitOn, NoError
<1>1. CASE CreateRun \/ Popen
  BY <1>1 DEF CreateRun, Popen, ControlOK
<1>2. CASE Poll \/ Wait
  BY <1>2 DEF Poll, Wait, ControlOK, FinalDrainOK
<1>3. CASE ReadTests \/ TestsDrained \/ ReadPackets \/ ApplyPacket \/ PacketsDrained
             \/ Sleep
  BY <1>3 DEF ReadTests, TestsDrained, ReadPackets, ApplyPacket, PacketsDrained, Sleep
<1>4. CASE ApplyLine
  BY <1>4 DEF ApplyLine, Raise
<1>5. CASE Interrupt \/ Terminate
  BY <1>5 DEF Interrupt, Terminate, ControlOK
<1>6. CASE Save
  <2>1. pc = "save" /\ stage = "finally" /\ exitStatus # 0
    BY <1>6 DEF Save, ControlOK
  <2> QED
    BY <1>6, <2>1 DEF Save
<1>7. CASE EmitResults
  <2>1. /\ pc = "emit" /\ pc' = "done" /\ stage = "after"
        /\ UNCHANGED <<stage, raised, tests, returncode, saved>>
        /\ saved.present /\ saved.tests = tests /\ saved.code # NoCode
    BY <1>7 DEF EmitResults, ControlOK
  <2>2. ASSUME exitStatus' = 0 PROVE \A n \in Tests : ~ Failing(tests[n])
    <3>1. CASE Errored(returncode)
      BY <1>7, <2>2, <3>1 DEF EmitResults, Errored, TypeOK, ExitCodes, KilledCode,
                              CrashedCode, NoCode
    <3>2. CASE ~ Errored(returncode)
      BY <1>7, <2>2, <3>2 DEF EmitResults
    <3> QED
      BY <3>1, <3>2
  <2> QED
    BY <2>1, <2>2
<1>8. CASE ChildStep \/ UNCHANGED vars
  BY <1>8 DEF ChildStep, parentVars, vars
<1> QED
  BY <1>1, <1>2, <1>3, <1>4, <1>5, <1>6, <1>7, <1>8
     DEF Next, ParentStep, Drain, Finished

\* A CLI that exits 0 saved a complete record of a log without a failing line.
THEOREM ExitZeroMeansClean == Spec => []ExitZeroIsClean
<1>1. Init => CleanInv
  BY DEF Init, CleanInv, NoExit, NoError
<1>2. IInv /\ CleanInv => ExitZeroIsClean
  <2> SUFFICES ASSUME IInv, CleanInv, exitStatus = 0
               PROVE  /\ saved.present /\ saved.code # NoCode
                      /\ child = "exited"
                      /\ \A i \in 1..Complete :
                            ~ Failing(ParseReportLogLine(reportLog[i]))
    BY DEF ExitZeroIsClean
  <2>1. saved.present /\ saved.code # NoCode /\ \A n \in Tests : ~ Failing(saved.tests[n])
    BY DEF CleanInv
  <2>2. child = "exited" /\ Covers(saved.tests, Complete)
    BY <2>1 DEF IInv, SavedOK
  <2>3. Complete \in Nat /\ Complete <= Len(reportLog)
    BY CompleteType DEF IInv, TypeOK, ChildTypeOK, TornOK, Complete, CompletePackets
  <2>4. ASSUME NEW i \in 1..Complete
        PROVE  ~ Failing(ParseReportLogLine(reportLog[i]))
    <3>1. reportLog[i] \in Lines
      BY <2>3 DEF IInv, TypeOK, ChildTypeOK
    <3>2. reportLog[i].nodeid \in Tests /\ ParseReportLogLine(reportLog[i]) \in VerdictOrNone
      BY <3>1, ParseType DEF Lines
    <3>3. saved.tests[reportLog[i].nodeid] \in VerdictOrNone
      BY <3>2 DEF IInv, TypeOK, VerdictOrNone
    <3>4. /\ ~ Worsens(saved.tests[reportLog[i].nodeid], ParseReportLogLine(reportLog[i]))
          /\ ~ Failing(saved.tests[reportLog[i].nodeid])
      BY <2>1, <2>2, <3>2 DEF Covers
    <3> QED
      BY <3>2, <3>3, <3>4 DEF Worsens, Failing, Severity, VerdictOrNone, Verdicts,
           NoVerdict
  <2> QED
    BY <2>1, <2>2, <2>4
<1> QED
  BY <1>1, <1>2, NextCleanInv, InvariantHolds, InitIInv, PTL DEF Spec

-----------------------------------------------------------------------------
\* Verdicts only worsen, offsets only advance, results.json and the return
\* code are written once.
THEOREM RunOnlyMovesForward == Spec => OnlyForward
<1>1. IInv /\ [Next]_vars => [Forward]_vars
  <2> SUFFICES ASSUME IInv, Next PROVE Forward
    BY DEF vars
  <2>0. /\ reportOffset \in Nat /\ eventsOffset \in Nat
        /\ cursor \in Nat /\ batchEnd \in Nat
    BY DEF IInv, TypeOK
  <2> USE DEF IInv, Forward, result, offsets, batch
  <2>1. CASE CreateRun \/ Popen \/ Interrupt \/ Terminate \/ EmitResults
    BY <2>0, <2>1 DEF CreateRun, Popen, Interrupt, Terminate, EmitResults
  <2>2. CASE Poll \/ Wait
    BY <2>0, <2>2 DEF Poll, Wait, ControlOK, FinalDrainOK
  <2>3. CASE ReadTests \/ ReadPackets \/ ApplyPacket \/ Sleep
    BY <2>0, <2>3 DEF ReadTests, ReadPackets, ApplyPacket, Sleep
  <2>4. CASE TestsDrained \/ PacketsDrained
    BY <2>0, <2>4 DEF TestsDrained, PacketsDrained, OffsetsOK
  <2>5. CASE ApplyLine
    <3>1. tests \in [Tests -> VerdictOrNone] /\ LineAt(cursor + 1) \in Lines
      <4>1. Complete \in Nat /\ Complete <= Len(reportLog)
        BY CompleteType DEF TypeOK, ChildTypeOK, TornOK, Complete, CompletePackets
      <4>2. cursor + 1 \in 1..Complete
        BY <2>0, <2>5, <4>1 DEF ApplyLine, OffsetsOK
      <4> QED
        BY <4>1, <4>2 DEF TypeOK, ChildTypeOK, LineAt, Complete, VerdictOrNone
    <3> QED
      BY <2>0, <2>5, <3>1, UpsertLemma DEF ApplyLine
  <2>6. CASE Save
    BY <2>0, <2>6 DEF Save, ControlOK
  <2>7. CASE ChildStep \/ Finished
    BY <2>0, <2>7 DEF ChildStep, Finished, parentVars, vars
  <2> QED
    BY <2>1, <2>2, <2>3, <2>4, <2>5, <2>6, <2>7 DEF Next, ParentStep, Drain
<1> QED
  BY <1>1, InvariantHolds, PTL DEF Spec, OnlyForward

-----------------------------------------------------------------------------
(***************************************************************************)
(* The packet events.                                                      *)
(***************************************************************************)

\* The packet lines whose event the result must already hold.
Taken == IF pc = "packets" THEN cursor ELSE eventsOffset

\* Every event line up to k is in the list p.
HoldsAll(p, k) ==
    \A i \in 1..k : packetLog[i] = "event" => \E j \in 1..Len(p) : p[j] = i

\* The list p is in the order of the file and names event lines up to k only.
InOrder(p, k) ==
    /\ \A i, j \in 1..Len(p) : i < j => p[i] < p[j]
    /\ \A j \in 1..Len(p) : p[j] \in 1..k /\ packetLog[p[j]] = "event"

\* drain_packet_events: nothing that was read is missing, and unless an
\* exception made a drain start over nothing is in the list twice.  Once the
\* return code is known the drain of the finally block covers the whole file.
PacketInv ==
    /\ HoldsAll(packets, Taken)
    /\ raised = NoError => InOrder(packets, Taken)
    /\ returncode # NoCode /\ pc = "packets" => batchEnd = CompletePackets
    /\ returncode # NoCode /\ pc = "save" => eventsOffset = CompletePackets
    /\ saved.present /\ saved.code # NoCode => HoldsAll(saved.packets, CompletePackets)
    /\ saved.present /\ raised = NoError =>
          /\ saved.code # NoCode
          /\ InOrder(saved.packets, CompletePackets)

\* drain_packet_events takes one line: the list then holds the events of one
\* line more, and a list in order stays in order.
LEMMA ApplyPacketLists ==
    ASSUME NEW k \in Nat, NEW p \in Seq(Nat), NEW q,
           q = IF packetLog[k + 1] = "event" THEN Append(p, k + 1) ELSE p
    PROVE  /\ HoldsAll(p, k) => HoldsAll(q, k + 1)
           /\ InOrder(p, k) => InOrder(q, k + 1)
<1> DEFINE m == Len(p)
<1>0. m \in Nat
  OBVIOUS
<1>1. CASE packetLog[k + 1] = "event"
  <2>1. /\ Len(q) = m + 1 /\ q[m + 1] = k + 1
        /\ \A j \in 1..m : q[j] = p[j]
    BY <1>1
  <2> HIDE DEF m
  <2>2. ASSUME HoldsAll(p, k) PROVE HoldsAll(q, k + 1)
    <3> SUFFICES ASSUME NEW i \in 1..(k + 1), packetLog[i] = "event"
                 PROVE  \E j \in 1..(m + 1) : q[j] = i
      BY <2>1 DEF HoldsAll
    <3>1. CASE i = k + 1
      BY <1>0, <2>1, <3>1
    <3>2. CASE i # k + 1
      <4>1. i \in 1..k
        BY <3>2
      <4>2. PICK j \in 1..m : p[j] = i
        BY <2>2, <4>1 DEF HoldsAll, m
      <4> QED
        BY <1>0, <2>1, <4>2
    <3> QED
      BY <3>1, <3>2
  <2>3. ASSUME InOrder(p, k) PROVE InOrder(q, k + 1)
    <3>1. /\ \A i, j \in 1..m : i < j => p[i] < p[j]
          /\ \A j \in 1..m : p[j] \in 1..k /\ packetLog[p[j]] = "event"
      BY <2>3 DEF InOrder, m
    <3>2. \A j \in 1..(m + 1) : q[j] \in 1..(k + 1) /\ packetLog[q[j]] = "event"
      BY <1>0, <1>1, <2>1, <3>1
    <3>3. ASSUME NEW i \in 1..(m + 1), NEW j \in 1..(m + 1), i < j
          PROVE  q[i] < q[j]
      <4>1. i \in 1..m
        BY <1>0, <3>3
      <4>2. CASE j = m + 1
        BY <2>1, <3>1, <4>1, <4>2
      <4>3. CASE j # m + 1
        <5>1. j \in 1..m
          BY <1>0, <4>3
        <5> QED
          BY <2>1, <3>1, <3>3, <4>1, <5>1
      <4> QED
        BY <4>2, <4>3
    <3> QED
      BY <2>1, <3>2, <3>3 DEF InOrder
  <2> QED
    BY <2>2, <2>3
<1>2. CASE packetLog[k + 1] # "event"
  <2>1. q = p
    BY <1>2
  <2>2. HoldsAll(p, k) => HoldsAll(p, k + 1)
    BY <1>2 DEF HoldsAll
  <2>3. InOrder(p, k) => InOrder(p, k + 1)
    BY DEF InOrder
  <2> QED
    BY <2>1, <2>2, <2>3
<1> QED
  BY <1>1, <1>2

\* Every step preserves the invariant on the packet events.
LEMMA NextPacketInv == IInv /\ CleanInv /\ PacketInv /\ [Next]_vars => PacketInv'
<1> SUFFICES ASSUME IInv, CleanInv, PacketInv, [Next]_vars PROVE PacketInv'
  OBVIOUS
<1> USE DEF IInv, PacketInv
<1>0. /\ CompletePackets \in Nat
      /\ Taken \in Nat /\ Taken <= CompletePackets
      /\ cursor \in Nat /\ eventsOffset \in Nat /\ batchEnd \in Nat
  BY CompleteFacts DEF TypeOK, Taken, OffsetsOK
<1>1. CASE CreateRun \/ Poll \/ ReadTests \/ ApplyLine \/ TestsDrained \/ ReadPackets
             \/ Sleep \/ Interrupt \/ Terminate \/ Wait \/ EmitResults \/ UNCHANGED vars
  <2> USE DEF result, offsets, batch, childVars, parentVars
  <2>1. UNCHANGED <<packetLog, packetTorn, packets, eventsOffset, saved>>
    BY <1>1 DEF CreateRun, Poll, ReadTests, ApplyLine, TestsDrained, ReadPackets, Sleep,
                Interrupt, Terminate, Wait, EmitResults, vars
  <2>2. CompletePackets' = CompletePackets
    BY <2>1 DEF CompletePackets
  <2>3. /\ raised' = NoError => raised = NoError
        /\ Taken' \in Nat /\ Taken' <= Taken
        /\ Taken' = Taken \/ raised' # NoError
        /\ pc' = "save" => pc = "save" /\ returncode' = returncode
    BY <1>0, <1>1 DEF CreateRun, Poll, ReadTests, ApplyLine, TestsDrained, ReadPackets,
         Sleep, Interrupt, Terminate, Wait, EmitResults, vars, Taken, CleanInv, Raise,
         EnterFinally, Fail, OffsetsOK, ControlOK, NoError
  <2>4. returncode' # NoCode /\ pc' = "packets" => batchEnd' = CompletePackets
    <3>1. CASE ReadPackets
      BY <1>0, <3>1 DEF ReadPackets, ReadNewLines, CompletePackets, OffsetsOK
    <3>2. CASE ~ ReadPackets
      BY <1>1, <3>2 DEF CreateRun, Poll, ReadTests, ApplyLine, TestsDrained, Sleep,
         Interrupt, Terminate, Wait, EmitResults, vars, EnterFinally, Fail, Raise
    <3> QED
      BY <3>1, <3>2
  <2>5. HoldsAll(packets, Taken)'
    BY <1>0, <2>1, <2>3 DEF HoldsAll
  <2>6. raised' = NoError => InOrder(packets, Taken)'
    BY <2>1, <2>3 DEF InOrder
  <2>7. /\ saved.present /\ saved.code # NoCode =>
              HoldsAll(saved.packets, CompletePackets)'
        /\ saved.present /\ raised' = NoError =>
              saved.code # NoCode /\ InOrder(saved.packets, CompletePackets)'
    BY <2>1, <2>2, <2>3 DEF HoldsAll, InOrder
  <2> QED
    BY <2>1, <2>2, <2>3, <2>4, <2>5, <2>6, <2>7
<1>2. CASE Popen
  <2>1. /\ Taken = 0 /\ Taken' = 0 /\ ~ saved.present /\ returncode = NoCode
        /\ UNCHANGED <<packets, saved, returncode>> /\ pc' # "packets"
        /\ raised' = NoError => raised = NoError
    BY <1>2 DEF Popen, Taken, ControlOK, Fail, result, offsets, NoError
  <2> QED
    BY <2>1 DEF HoldsAll, InOrder
<1>3. CASE ApplyPacket
  <2>1. /\ pc = "packets" /\ Taken = cursor /\ Taken' = cursor + 1
        /\ packets' = IF packetLog[cursor + 1] = "event"
                      THEN Append(packets, cursor + 1) ELSE packets
        /\ UNCHANGED <<packetLog, packetTorn, pc, raised, returncode, batchEnd, saved,
                       stage>>
    BY <1>3 DEF ApplyPacket, Taken, childVars
  <2>2. CompletePackets' = CompletePackets
    BY <2>1 DEF CompletePackets
  <2>3. /\ HoldsAll(packets', cursor + 1)
        /\ raised = NoError => InOrder(packets', cursor + 1)
    <3>1. packets \in Seq(Nat)
      BY DEF TypeOK
    <3> QED
      BY <1>0, <2>1, <3>1, ApplyPacketLists
  <2>4. HoldsAll(packets, Taken)' /\ (raised' = NoError => InOrder(packets, Taken)')
    BY <2>1, <2>3 DEF HoldsAll, InOrder
  <2>5. ~ saved.present
    BY <2>1 DEF ControlOK
  <2> QED
    BY <2>1, <2>2, <2>4, <2>5
<1>4. CASE PacketsDrained
  <2>1. /\ pc = "packets" /\ Taken = batchEnd /\ Taken' = batchEnd
        /\ eventsOffset' = batchEnd /\ pc' # "packets"
        /\ UNCHANGED <<packetLog, packetTorn, packets, raised, returncode, saved, stage>>
    BY <1>4 DEF PacketsDrained, Taken, childVars, result
  <2>2. CompletePackets' = CompletePackets
    BY <2>1 DEF CompletePackets
  <2>3. HoldsAll(packets, Taken)' /\ (raised' = NoError => InOrder(packets, Taken)')
    BY <2>1 DEF HoldsAll, InOrder
  <2>4. ~ saved.present
    BY <2>1 DEF ControlOK
  <2> QED
    BY <2>1, <2>2, <2>3, <2>4
<1>5. CASE Save
  <2>1. /\ pc = "save" /\ stage = "finally" /\ ~ saved.present
        /\ Taken = eventsOffset /\ Taken' = eventsOffset
        /\ pc' \notin {"packets", "save"}
        /\ UNCHANGED <<packetLog, packetTorn, packets, returncode>>
        /\ raised' = NoError => raised = NoError
    BY <1>5 DEF Save, ControlOK, Taken, Fail, childVars, result, offsets, NoError
  <2>2. CompletePackets' = CompletePackets
    BY <2>1 DEF CompletePackets
  <2>3. HoldsAll(packets, Taken)' /\ (raised' = NoError => InOrder(packets, Taken)')
    BY <2>1 DEF HoldsAll, InOrder
  <2>4. CASE saved' = saved
    BY <2>1, <2>3, <2>4
  <2>5. CASE saved' = [present |-> TRUE, tests |-> tests, packets |-> packets,
                       code |-> returncode]
    <3>1. raised = NoError => returncode # NoCode
      BY <2>1 DEF CleanInv
    <3>2. returncode # NoCode => HoldsAll(packets, CompletePackets)
      BY <2>1
    <3>3. raised = NoError => InOrder(packets, CompletePackets)
      BY <2>1, <3>1
    <3>4. /\ saved'.code # NoCode => HoldsAll(saved.packets, CompletePackets)'
          /\ raised' = NoError => /\ saved'.code # NoCode
                                  /\ InOrder(saved.packets, CompletePackets)'
      BY <2>1, <2>2, <2>5, <3>1, <3>2, <3>3 DEF HoldsAll, InOrder
    <3> QED
      BY <2>1, <2>3, <3>4
  <2> QED
    BY <1>5, <2>4, <2>5 DEF Save
<1>6. CASE ChildStep
  <2>1. ChildGuarantee /\ UNCHANGED parentVars
    BY <1>6, ChildLemma DEF TypeOK, ChildStep, AnyChildStep
  <2>2. returncode = NoCode /\ ~ (saved.present /\ saved.code # NoCode)
    BY <2>1 DEF ChildGuarantee, FinalDrainOK, SavedOK
  <2>3. /\ Taken' = Taken
        /\ \A i \in 1..Taken : packetLog'[i] = packetLog[i]
        /\ UNCHANGED <<packets, raised, saved, returncode, pc>>
    BY <1>0, <2>1 DEF ChildGuarantee, Taken, parentVars
  <2>4. HoldsAll(packets, Taken)'
    BY <2>3 DEF HoldsAll
  <2>5. raised = NoError => InOrder(packets, Taken)'
    BY <2>3 DEF InOrder
  <2> QED
    BY <2>2, <2>3, <2>4, <2>5
<1> QED
  BY <1>1, <1>2, <1>3, <1>4, <1>5, <1>6 DEF Next, ParentStep, Drain, Finished

\* results.json misses no packet event of a run whose return code is known, and
\* without an exception holds each once and in order.
THEOREM PacketsAreExact == Spec => []PacketsExact
<1>1. Init => CleanInv /\ PacketInv
  <2> SUFFICES ASSUME Init PROVE CleanInv /\ PacketInv
    OBVIOUS
  <2>1. CleanInv
    BY DEF Init, CleanInv, NoExit, NoError
  <2>2. HoldsAll(packets, Taken) /\ InOrder(packets, Taken)
    BY DEF Init, HoldsAll, InOrder, Taken
  <2> QED
    BY <2>1, <2>2 DEF Init, PacketInv, NotSaved
<1>2. IInv /\ PacketInv => PacketsExact
  <2> SUFFICES ASSUME IInv, PacketInv, saved.present PROVE PacketsExact
    BY DEF PacketsExact
  <2>1. saved.code # NoCode => HoldsAll(saved.packets, CompletePackets)
    BY DEF PacketInv
  <2>2. raised = NoError => /\ HoldsAll(saved.packets, CompletePackets)
                            /\ InOrder(saved.packets, CompletePackets)
    BY DEF PacketInv
  <2> QED
    BY <2>1, <2>2 DEF PacketsExact, HoldsAll, InOrder
<1> QED
  BY <1>1, <1>2, InitIInv, NextIInv, NextCleanInv, NextPacketInv, PTL DEF Spec

-----------------------------------------------------------------------------
(***************************************************************************)
(* Ctrl+C.                                                                 *)
(***************************************************************************)

\* Where one Ctrl+C leaves the child, when no callback has raised before it:
\* the finally block is entered only after the child ended or was sent SIGTERM.
InterruptInv ==
    /\ stage \in {"try", "except", "finally"} => child # "unborn"
    /\ pc = "emit" => raised = NoError
    /\ interrupts = 0 =>
          /\ raised \notin {"KeyboardInterrupt", "TimeoutExpired"}
          /\ stage # "except" /\ child # "terminating"
          /\ child = "exited" => code # KilledCode
          /\ stage = "finally" => raised = NoError
    /\ interrupts = 1 =>
          /\ pc = "wait" \/ stage = "finally" => child \in {"terminating", "exited"}
          /\ stage = "except" => raised = "KeyboardInterrupt"
          /\ InterruptIsHandled

\* Every step preserves it, if the progress callback does not raise.
LEMMA NextInterruptInv ==
    ASSUME "callback" \notin Faults
    PROVE  IInv /\ CleanInv /\ InterruptInv /\ [Next]_vars => InterruptInv'
<1> SUFFICES ASSUME IInv, CleanInv, InterruptInv, [Next]_vars PROVE InterruptInv'
  OBVIOUS
<1> USE DEF IInv, InterruptInv, InterruptIsHandled, result, offsets, batch
<1>0. interrupts \in Nat
  BY DEF TypeOK
<1>1. CASE CreateRun \/ Popen
  BY <1>1 DEF CreateRun, Popen, Fail, ControlOK, ChildStarts, childVars, NoError,
       NoCode,
              KilledCode
<1>2. CASE Poll \/ Wait
  BY <1>2 DEF Poll, Wait, EnterFinally, ControlOK, childVars, NoError
<1>3. CASE ReadTests \/ TestsDrained \/ ReadPackets \/ ApplyPacket \/ PacketsDrained
             \/ Sleep \/ ApplyLine
  BY <1>3 DEF ReadTests, TestsDrained, ReadPackets, ApplyPacket, PacketsDrained, Sleep,
              ApplyLine, childVars, ControlOK
<1>4. CASE Interrupt
  <2>1. interrupts' = interrupts + 1 /\ UNCHANGED <<childVars, saved, returncode>>
    BY <1>4 DEF Interrupt
  <2>2. CASE stage \in {"try", "except"}
    BY <1>0, <1>4, <2>1, <2>2 DEF Interrupt, EnterFinally, ControlOK, childVars
  <2>3. CASE stage = "finally"
    <3>1. interrupts = 0 => child = "exited" /\ returncode # KilledCode
      BY <2>3 DEF CleanInv, FinalDrainOK
    <3> QED
      BY <1>0, <1>4, <2>1, <2>3, <3>1 DEF Interrupt, Fail, ControlOK, childVars
  <2>4. CASE pc = "emit"
    BY <1>0, <1>4, <2>1, <2>4 DEF Interrupt, Fail, ControlOK, childVars
  <2> QED
    BY <1>4, <2>2, <2>3, <2>4 DEF Interrupt
<1>5. CASE Terminate
  <2>1. /\ pc = "terminate" /\ pc' = "wait" /\ stage = "except"
        /\ child' = IF child = "running" THEN "terminating" ELSE child
        /\ UNCHANGED <<code, stage, raised, interrupts, saved, returncode>>
    BY <1>5 DEF Terminate, ControlOK
  <2>2. child' \in {"terminating", "exited"}
    BY <2>1 DEF TypeOK, ChildTypeOK
  <2> QED
    BY <2>1, <2>2
<1>6. CASE Save
  <2>1. pc = "save" /\ stage = "finally" /\ UNCHANGED <<childVars, interrupts, returncode>>
    BY <1>6 DEF Save, ControlOK
  <2>2. \/ /\ saved'.present /\ raised = NoError /\ raised' = raised
           /\ pc' = "emit" /\ stage' = "after"
        \/ /\ saved'.present /\ raised' = raised /\ pc' = "done" /\ stage' = "after"
        \/ /\ raised' = "RunArtifactError" /\ pc' = "done" /\ stage' = "after"
    BY <1>6 DEF Save, Fail
  <2> QED
    BY <2>1, <2>2 DEF childVars, NoError
<1>7. CASE EmitResults
  BY <1>7 DEF EmitResults, ControlOK, childVars, NoError
<1>8. CASE ChildStep
  <2>1. /\ UNCHANGED parentVars /\ child \in {"running", "terminating"}
        /\ child' \in {child, "exited"}
        /\ child' = "exited" /\ child # "terminating" => code' # KilledCode
    BY <1>8 DEF ChildStep, ChildProgress, NextTest, ReportFragment, ReportNewline,
         PacketFragment, PacketNewline, ChildExits, ChildAborts, ChildCrashes,
         ChildTerminated, EndsWith, Alive, KilledCode, CrashedCode
  <2> QED
    BY <2>1 DEF parentVars
<1>9. CASE UNCHANGED vars
  BY <1>9 DEF vars, parentVars, childVars
<1> QED
  BY <1>1, <1>2, <1>3, <1>4, <1>5, <1>6, <1>7, <1>8, <1>9
     DEF Next, ParentStep, Drain, Finished

\* One Ctrl+C never leaves the child running on its own, and loses nothing that
\* was collected if it lands in the polling loop and the child heeds its SIGTERM
\* (in the final drain it loses everything).  The hypothesis is needed:
\* after a progress callback has raised, the finally block runs with the child
\* still alive, and a Ctrl+C in it ends the command without any SIGTERM.
THEOREM InterruptHandled ==
    ASSUME "callback" \notin Faults
    PROVE  Spec => []InterruptIsHandled
<1>1. Init => CleanInv /\ InterruptInv
  BY DEF Init, ChildInit, CleanInv, InterruptInv, InterruptIsHandled, NoExit, NoError
<1>2. IInv /\ CleanInv /\ InterruptInv /\ [Next]_vars => InterruptInv'
  BY NextInterruptInv
<1>3. InterruptInv => InterruptIsHandled
  BY DEF InterruptInv, InterruptIsHandled
<1> QED
  BY <1>1, <1>2, <1>3, InitIInv, NextIInv, NextCleanInv, PTL DEF Spec

-----------------------------------------------------------------------------
(***************************************************************************)
(* stream_run implements the run lifecycle.                                *)
(***************************************************************************)

\* The verdicts are the reading of some prefix of the log that reaches at least
\* as far as the lines consumed: further, after a drain was cut short and is
\* repeated.  And a child that was never started has written nothing.
ShownInv ==
    /\ \E k \in 0..Complete : Consumed <= k /\ tests = WorstOver(reportLog, k)
    /\ child = "unborn" => reportLog = <<>> /\ reportTorn = FALSE

\* The upsert of one line of a batch reads one line more, or one already read.
LEMMA ApplyLineShown ==
    ASSUME IInv, ShownInv, ApplyLine
    PROVE  \E k \in 0..Complete : /\ cursor + 1 <= k
                                  /\ tests' = WorstOver(reportLog, k)
<1> USE DEF IInv
<1>1. /\ Complete \in Nat /\ \A i \in 1..Complete : reportLog[i] \in Lines
  BY CompleteFacts DEF TypeOK
<1>2. /\ pc = "tests" /\ cursor \in Nat /\ cursor + 1 \in 1..Complete
      /\ Consumed = cursor
  BY <1>1 DEF ApplyLine, TypeOK, OffsetsOK, Consumed
<1>3. tests' = Upsert(tests, reportLog[cursor + 1])
  BY <1>1, <1>2 DEF ApplyLine, LineAt, Complete
<1>4. PICK k \in 0..Complete : cursor <= k /\ tests = WorstOver(reportLog, k)
  BY <1>2 DEF ShownInv
<1>5. /\ k \in Nat /\ cursor + 1 \in 1..(k + 1)
      /\ \A j \in 1..k : reportLog[j] \in Lines
      /\ reportLog[cursor + 1] \in Lines
  BY <1>1, <1>2, <1>4
<1>6. CASE cursor + 1 = k + 1
  <2>1. tests' = WorstOver(reportLog, k + 1)
    BY <1>3, <1>4, <1>5, <1>6, UpsertReads
  <2> QED
    BY <1>1, <1>2, <1>5, <1>6, <2>1
<1>7. CASE cursor + 1 # k + 1
  <2>1. tests' = WorstOver(reportLog, k)
    BY <1>3, <1>4, <1>5, <1>7, UpsertReads
  <2> QED
    BY <1>2, <1>4, <1>5, <1>7, <2>1
<1> QED
  BY <1>6, <1>7

\* Every step preserves it.
LEMMA NextShownInv == IInv /\ ShownInv /\ [Next]_vars => ShownInv'
<1> SUFFICES ASSUME IInv, ShownInv, [Next]_vars PROVE ShownInv'
  OBVIOUS
<1> USE DEF IInv
<1>0. /\ Complete \in Nat /\ Consumed \in Nat
      /\ cursor \in Nat /\ reportOffset \in Nat /\ batchEnd \in Nat
  BY CompleteFacts DEF TypeOK, Consumed
<1>1. CASE ApplyLine
  <2>1. PICK k \in 0..Complete : cursor + 1 <= k /\ tests' = WorstOver(reportLog, k)
    BY <1>1, ApplyLineShown
  <2>2. UNCHANGED <<child, reportLog, reportTorn>>
    BY <1>1 DEF ApplyLine, childVars
  <2>3. Complete' = Complete
    BY <2>2 DEF Complete
  <2>4. Consumed' <= k
    BY <1>0, <1>1, <2>1 DEF ApplyLine, Consumed, OffsetsOK, offsets
  <2> QED
    BY <2>1, <2>2, <2>3, <2>4 DEF ShownInv
<1>2. CASE Popen /\ ChildStarts
  <2>1. /\ child' = "running" /\ Complete' = 0 /\ tests' = Unseen /\ Consumed' = 0
    BY <1>2, ChildStartLemma DEF Popen, Fail, ChildStarts, ControlOK, Consumed, result,
         offsets
  <2>2. tests' = WorstOver(reportLog', 0)
    BY <2>1, WorstOverNothing
  <2>3. 0 \in 0..Complete' /\ Consumed' <= 0
    BY <2>1
  <2> QED
    BY <2>1, <2>2, <2>3, Zenon DEF ShownInv
<1>3. CASE ChildStep
  <2>1. ChildGuarantee /\ UNCHANGED parentVars
    BY <1>3, ChildLemma DEF TypeOK, ChildStep, AnyChildStep
  <2>2. PICK k \in 0..Complete : Consumed <= k /\ tests = WorstOver(reportLog, k)
    BY DEF ShownInv
  <2>3. \A i \in 1..k : reportLog'[i] = reportLog[i]
    BY <1>0, <2>1 DEF ChildGuarantee
  <2>4. tests' = WorstOver(reportLog', k)
    BY <2>1, <2>2, <2>3, WorstOverPrefix DEF parentVars
  <2>5. Consumed' = Consumed /\ k \in 0..Complete'
    BY <1>0, <2>1 DEF Consumed, parentVars, ChildGuarantee
  <2>6. child' # "unborn"
    BY <2>1 DEF ChildGuarantee
  <2> QED
    BY <2>2, <2>4, <2>5, <2>6 DEF ShownInv
<1>4. CASE \/ CreateRun \/ (Popen /\ ~ ChildStarts) \/ Poll \/ ReadTests \/ TestsDrained
           \/ ReadPackets \/ ApplyPacket \/ PacketsDrained \/ Sleep \/ Interrupt
           \/ Terminate \/ Wait \/ Save \/ EmitResults \/ UNCHANGED vars
  <2> USE DEF result, offsets, batch, childVars, parentVars
  <2>1. UNCHANGED <<reportLog, reportTorn, tests>> /\ (child' = "unborn" => child = "unborn")
    BY <1>4 DEF CreateRun, Popen, Poll, ReadTests, TestsDrained, ReadPackets,
         ApplyPacket,
         PacketsDrained, Sleep, Interrupt, Terminate, Wait, Save, EmitResults, vars
  <2>2. Complete' = Complete
    BY <2>1 DEF Complete
  <2>3. Consumed' \in Nat /\ Consumed' <= Consumed
    BY <1>0, <1>4 DEF CreateRun, Popen, Poll, ReadTests, TestsDrained, ReadPackets,
         ApplyPacket, PacketsDrained, Sleep, Interrupt, Terminate, Wait, Save, EmitResults,
         vars, Consumed, EnterFinally, Fail, OffsetsOK
  <2>4. PICK k \in 0..Complete : Consumed <= k /\ tests = WorstOver(reportLog, k)
    BY DEF ShownInv
  <2>5. Consumed' <= k
    BY <1>0, <2>3, <2>4
  <2> QED
    BY <2>1, <2>2, <2>4, <2>5 DEF ShownInv
<1> QED
  <2>1. Next \/ UNCHANGED vars
    OBVIOUS
  <2> QED
    BY <1>1, <1>2, <1>3, <1>4, <2>1, Zenon DEF Next, ParentStep, Drain, Finished

\* The abstract state, as the refinement mapping of Lifecycle gives it.
Status == IF stage = "before" /\ pc # "done" THEN "idle"
          ELSE IF stage = "after" THEN "closed" ELSE "open"
Record == IF saved.present THEN saved.tests ELSE [n \in {} |-> NoVerdict]

\* The abstract specification reads the log as stream_run does.
LEMMA SameReading ==
    /\ \A log, k : Lifecycle!WorstOver(log, k) = WorstOver(log, k)
    /\ \A u, v : Lifecycle!Worsens(u, v) <=> Worsens(u, v)
    /\ Lifecycle!Unseen = Unseen
    /\ Lifecycle!NoRecord = [n \in {} |-> NoVerdict]
BY DEF Lifecycle!WorstOver, WorstOver, Lifecycle!WorstOf, WorstOf, Lifecycle!VerdictsOf,
       VerdictsOf, Lifecycle!ParseReportLogLine, ParseReportLogLine,
       Lifecycle!Worsens, Worsens, Lifecycle!Severity, Severity,
       Lifecycle!NoVerdict, NoVerdict, Lifecycle!Unseen, Unseen, Lifecycle!NoRecord

\* The lifecycle's actions in terms of the mapped state.
LEMMA MappedActions ==
    /\ Status # "open" /\ Status' = "open" /\ Log' = <<>> /\ tests' = Unseen
          /\ Record' = [n \in {} |-> NoVerdict] => Lifecycle!Open
    /\ Status' = "closed" /\ Log' = <<>> /\ tests' = Unseen
          /\ Record' \in {[n \in {} |-> NoVerdict], Unseen} => Lifecycle!Refuse
    /\ Len(Log') = Len(Log) + 1 /\ SubSeq(Log', 1, Len(Log)) = Log
          /\ UNCHANGED <<Status, tests, Record>> => Lifecycle!LogGrows
    /\ Status = "open" /\ UNCHANGED <<Status, Log, Record>>
          /\ (\E k \in 0..Len(Log) : tests' = WorstOver(Log, k))
          /\ (\A n \in Tests : tests'[n] = tests[n] \/ Worsens(tests[n], tests'[n]))
          => Lifecycle!Observe
    /\ Status = "open" /\ Status' = "closed" /\ UNCHANGED Log
          /\ (\E k \in 0..Len(Log) : tests' = WorstOver(Log, k))
          /\ (\A n \in Tests : tests'[n] = tests[n] \/ Worsens(tests[n], tests'[n]))
          /\ Record' \in {[n \in {} |-> NoVerdict], tests'}
          => Lifecycle!Finish
    /\ UNCHANGED <<Status, Log, tests, Record>> => UNCHANGED Lifecycle!lifecycleVars
BY SameReading, Zenon
   DEF Lifecycle!Open, Lifecycle!Refuse, Lifecycle!LogGrows, Lifecycle!Observe,
       Lifecycle!Finish, Lifecycle!lifecycleVars, Lifecycle!Shown,
       Lifecycle!NeverImproves, Status, Log, Record

\* Every step of stream_run, of the operator and of the child is a step of the
\* lifecycle, or one it does not see.
LEMMA StepImplements ==
    IInv /\ ShownInv /\ [Next]_vars
       => [Lifecycle!LifecycleNext]_(Lifecycle!lifecycleVars)
<1> SUFFICES ASSUME IInv, ShownInv, [Next]_vars
             PROVE  Lifecycle!LifecycleNext \/ UNCHANGED Lifecycle!lifecycleVars
  OBVIOUS
<1> USE DEF IInv, result, offsets, batch
<1>0. /\ Complete \in Nat /\ Len(Log) = Complete
      /\ \A k \in 0..Complete : WorstOver(Log, k) = WorstOver(reportLog, k)
  BY LogFacts DEF TypeOK
<1>a. \E k \in 0..Len(Log) : tests = WorstOver(Log, k)
  BY <1>0 DEF ShownInv
<1>1. CASE CreateRun \/ Popen
  <2>1. /\ stage = "before" /\ pc \in {"create", "popen"} /\ child = "unborn"
        /\ tests = Unseen /\ ~ saved.present
        /\ UNCHANGED <<tests, saved>>
    BY <1>1 DEF CreateRun, Popen, ControlOK
  <2>2. Log = <<>> /\ Status = "idle" /\ Record' = [n \in {} |-> NoVerdict]
          /\ Record = Record'
    BY <2>1 DEF ShownInv, Log, Complete, CompleteLines, Status, Record
  <2>3. CASE UNCHANGED childVars /\ pc' = "done" /\ stage' = "after"
    <3>1. Log' = Log /\ Status' = "closed"
      BY <2>3, QuietLog DEF childVars, Status
    <3> QED
      BY <2>1, <2>2, <3>1, MappedActions DEF Lifecycle!LifecycleNext
  <2>4. CASE UNCHANGED <<childVars, stage>> /\ pc' = "popen"
    <3>1. Log' = Log /\ Status' = Status
      BY <2>1, <2>4, QuietLog DEF childVars, Status
    <3> QED
      BY <2>1, <2>2, <3>1, MappedActions
  <2>5. CASE ChildStarts /\ pc' = "poll" /\ stage' = "try"
    <3>1. reportLog' = <<>> /\ Complete' = 0
      BY <2>5, ChildStartLemma DEF ChildStarts
    <3>2. Log' = <<>> /\ Status' = "open"
      BY <2>5, <3>1 DEF Log, Status
    <3> QED
      BY <2>1, <2>2, <3>2, MappedActions DEF Lifecycle!LifecycleNext
  <2> QED
    BY <1>1, <2>3, <2>4, <2>5 DEF CreateRun, Popen, Fail
<1>2. CASE ApplyLine
  <2>1. /\ UNCHANGED <<childVars, saved>> /\ pc = "tests" /\ stage \in {"try", "finally"}
        /\ ~ saved.present
    BY <1>2 DEF ApplyLine, ControlOK
  <2>2. \/ stage' \in {"try", "finally"}
        \/ stage' = "after" /\ pc' = "done"
    BY <1>2, <2>1 DEF ApplyLine, Raise, EnterFinally, Fail
  <2>3. \E k \in 0..Len(Log) : tests' = WorstOver(Log, k)
    <3>1. PICK k \in 0..Complete : tests' = WorstOver(reportLog, k)
      BY <1>2, ApplyLineShown
    <3> QED
      BY <1>0, <3>1
  <2>4. \A n \in Tests : tests'[n] = tests[n] \/ Worsens(tests[n], tests'[n])
    <3>1. \A i \in 1..Complete : reportLog[i] \in Lines
      BY CompleteFacts DEF TypeOK
    <3>2. cursor + 1 \in 1..Complete
      BY <1>0, <1>2 DEF ApplyLine, TypeOK, OffsetsOK
    <3>3. LineAt(cursor + 1) \in Lines /\ tests \in [Tests -> VerdictOrNone]
      BY <1>0, <3>1, <3>2 DEF TypeOK, LineAt, Complete, VerdictOrNone
    <3> QED
      BY <1>2, <3>3, UpsertLemma DEF ApplyLine
  <2>5. Log' = Log /\ Record' = Record /\ Status = "open"
          /\ Record' = [n \in {} |-> NoVerdict]
    BY <2>1, QuietLog DEF Record, Status, childVars
  <2>6. CASE stage' \in {"try", "finally"}
    <3>1. Status' = Status
      BY <2>5, <2>6 DEF Status
    <3> QED
      BY <2>3, <2>4, <2>5, <3>1, MappedActions DEF Lifecycle!LifecycleNext
  <2>7. CASE stage' = "after" /\ pc' = "done"
    <3>1. Status' = "closed"
      BY <2>7 DEF Status
    <3> QED
      BY <2>3, <2>4, <2>5, <3>1, MappedActions DEF Lifecycle!LifecycleNext
  <2> QED
    BY <2>2, <2>6, <2>7
<1>3. CASE Save \/ (Interrupt /\ stage = "finally")
  <2>1. /\ UNCHANGED <<childVars, tests>> /\ stage = "finally" /\ ~ saved.present
        /\ stage' = "after" /\ pc' \in {"emit", "done"}
        /\ saved' = saved \/ (saved'.present /\ saved'.tests = tests)
    BY <1>3 DEF Save, Interrupt, Fail, ControlOK
  <2>2. Log' = Log /\ Status = "open" /\ Status' = "closed"
    BY <2>1, QuietLog DEF Status, childVars
  <2>3. Record' \in {[n \in {} |-> NoVerdict], tests'}
    BY <2>1 DEF Record
  <2> QED
    BY <1>a, <2>1, <2>2, <2>3, MappedActions DEF Lifecycle!LifecycleNext
<1>4. CASE ChildStep
  <2>1. ChildGuarantee /\ UNCHANGED parentVars
    BY <1>4, ChildLemma DEF TypeOK, ChildStep, AnyChildStep
  <2>2. UNCHANGED <<Status, tests, Record>>
    BY <2>1 DEF Status, Record, parentVars
  <2>3. \/ Log' = Log
        \/ Len(Log') = Len(Log) + 1 /\ SubSeq(Log', 1, Len(Log)) = Log
    BY <2>1, LogLemma DEF Log, TypeOK
  <2> QED
    BY <2>2, <2>3, MappedActions DEF Lifecycle!LifecycleNext
<1>5. CASE \/ Poll \/ ReadTests \/ TestsDrained \/ ReadPackets \/ ApplyPacket
           \/ PacketsDrained \/ Sleep \/ (Interrupt /\ stage # "finally") \/ Terminate
           \/ Wait \/ EmitResults \/ UNCHANGED vars
  <2>1. UNCHANGED <<reportLog, reportTorn, tests, saved>>
    BY <1>5 DEF Poll, ReadTests, TestsDrained, ReadPackets, ApplyPacket, PacketsDrained,
         Sleep, Interrupt, Terminate, Wait, EmitResults, vars, childVars, parentVars
  <2>2. Status' = Status
    BY <1>5 DEF Poll, ReadTests, TestsDrained, ReadPackets, ApplyPacket, PacketsDrained,
         Sleep, Interrupt, Terminate, Wait, EmitResults, vars, childVars, parentVars,
         Status, ControlOK, EnterFinally, Fail
  <2>3. UNCHANGED <<Status, Log, tests, Record>>
    BY <2>1, <2>2, QuietLog DEF Record
  <2> QED
    BY <2>3, MappedActions
<1> QED
  BY <1>1, <1>2, <1>3, <1>4, <1>5 DEF Next, ParentStep, Drain, Finished

\* Wherever Ctrl+C lands, whatever is raised and whatever pytest does, a run of
\* the CLI is a run of RunLifecycle.
THEOREM StreamRefines == Spec => ImplementsLifecycle
<1>1. Init => Lifecycle!LifecycleInit
  <2> SUFFICES ASSUME Init PROVE Lifecycle!LifecycleInit
    OBVIOUS
  <2>1. Status = "idle" /\ Log = <<>> /\ tests = Unseen
          /\ Record = [n \in {} |-> NoVerdict]
    BY DEF Init, ChildInit, Status, Log, Record, NotSaved, Complete, CompleteLines
  <2> QED
    BY <2>1, SameReading DEF Lifecycle!LifecycleInit, Status, Log, Record
<1>2. Init => ShownInv
  <2> SUFFICES ASSUME Init PROVE ShownInv
    OBVIOUS
  <2>1. Complete = 0 /\ Consumed = 0 /\ tests = WorstOver(reportLog, 0)
    BY WorstOverNothing DEF Init, ChildInit, Complete, CompleteLines, Consumed
  <2> QED
    BY <2>1 DEF ShownInv, Init, ChildInit
<1> QED
  BY <1>1, <1>2, StepImplements, InitIInv, NextIInv, NextShownInv, PTL
     DEF Spec, ImplementsLifecycle, Lifecycle!Lifecycle
=============================================================================
