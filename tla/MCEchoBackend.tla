--------------------------- MODULE MCEchoBackend ---------------------------
(***************************************************************************)
(* Instances of EchoBackend for TLC: two starts, one connection and one    *)
(* chunk of data, which is one more than any race in stop() needs.         *)
(***************************************************************************)
EXTENDS EchoBackend

AllFaults == BackendFaultKinds
NoFaults  == {}
=============================================================================
