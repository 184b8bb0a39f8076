---------------------------- MODULE MCStreamRun ----------------------------
(***************************************************************************)
(* Instances of StreamRun for TLC: one test is enough for every phase and  *)
(* merge to occur, since the upsert treats node ids independently.         *)
(***************************************************************************)
EXTENDS StreamRun

AllFaults == FaultKinds

\* Failures of the child only.
ChildFaults == {"abort", "crash"}
=============================================================================
