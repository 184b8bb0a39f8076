----------------------------- MODULE ReportLog -----------------------------
(***************************************************************************)
(* How one line of pytest's --report-log becomes a verdict, and how the    *)
(* verdicts of several phases of one test are merged: the parser and the   *)
(* worst-wins upsert of src/runner.py, which the CLI and the GUI share.    *)
(*                                                                         *)
(* A line is what the parser looks at: the node it is about, the phase it  *)
(* reports ("when") and the outcome string.  A line that is not a          *)
(* TestReport, or is not JSON, has the phase "other".                      *)
(***************************************************************************)
EXTENDS Naturals, Sequences

CONSTANT Tests                     \* the node ids of the selected tests

Verdicts == {"passed", "skipped", "failed", "error"}

\* The test has no entry in result.tests yet (index.get returned None).
NoVerdict == "none"

Phases == {"setup", "call", "teardown", "other"}
OutcomeStrings == {"passed", "failed", "skipped"}

Lines == [nodeid : Tests, when : Phases, outcome : OutcomeStrings]

-----------------------------------------------------------------------------
Severity == [passed |-> 0, skipped |-> 1, failed |-> 2, error |-> 3]

\* The event parse_report_log_line makes of a line, reduced to its outcome;
\* NoVerdict is the None of an ignored line.
ParseReportLogLine(line) ==
    CASE line.when = "call"     -> line.outcome
      [] line.when = "setup"    -> CASE line.outcome = "passed"  -> NoVerdict
                                     [] line.outcome = "skipped" -> "skipped"
                                     [] OTHER                    -> "error"
      [] line.when = "teardown" -> IF line.outcome = "failed" THEN "error"
                                   ELSE NoVerdict
      [] OTHER                  -> NoVerdict

\* The condition under which drain_test_events changes the entry (and calls
\* the callback): there is none yet, or the new outcome is more severe.
Worsens(old, new) ==
    /\ new # NoVerdict
    /\ old = NoVerdict \/ Severity[new] > Severity[old]

Upsert_FirstWins(tests, line) ==
    LET verdict == ParseReportLogLine(line)
    IN  IF verdict # NoVerdict /\ tests[line.nodeid] = NoVerdict
        THEN [tests EXCEPT ![line.nodeid] = verdict]
        ELSE tests

Upsert_LastWins(tests, line) ==
    LET verdict == ParseReportLogLine(line)
    IN  IF verdict # NoVerdict
        THEN [tests EXCEPT ![line.nodeid] = verdict]
        ELSE tests

\* The body of drain_test_events' loop, for one line.
Upsert(tests, line) ==
    LET verdict == ParseReportLogLine(line)
    IN  IF Worsens(tests[line.nodeid], verdict)
        THEN [tests EXCEPT ![line.nodeid] = verdict]
        ELSE tests

-----------------------------------------------------------------------------
(***************************************************************************)
(* The reference definition the upsert is measured against: the verdict of *)
(* a test is the worst one any of the first k lines carries for it.        *)
(***************************************************************************)
VerdictsOf(log, k, n) ==
    {ParseReportLogLine(log[i]) : i \in {j \in 1..k : log[j].nodeid = n}}

WorstOf(S) == CHOOSE v \in S : \A w \in S : ~ Worsens(v, w)

WorstOver(log, k) ==
    [n \in Tests |-> WorstOf({NoVerdict} \cup VerdictsOf(log, k, n))]

Unseen == [n \in Tests |-> NoVerdict]

\* A verdict that makes a run fail: TestRunResult.failed or .errors counts it.
Failing(v) == v \in {"failed", "error"}
=============================================================================
