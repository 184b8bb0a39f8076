-------------------------- MODULE MCRunController --------------------------
(***************************************************************************)
(* Instances of RunController for TLC: two tests, so that a run can be     *)
(* mixed, and two runs, so that one can inherit from the other.            *)
(***************************************************************************)
EXTENDS RunController

AllFaults == GuiFaultKinds
=============================================================================
