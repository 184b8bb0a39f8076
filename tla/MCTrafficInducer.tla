-------------------------- MODULE MCTrafficInducer --------------------------
(***************************************************************************)
(* An instance of TrafficInducer for TLC: three starts, so that two        *)
(* stragglers can run beside a fresh loop, and back-off at the second      *)
(* failure in a row.                                                       *)
(***************************************************************************)
EXTENDS TrafficInducer
=============================================================================
