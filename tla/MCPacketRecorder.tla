-------------------------- MODULE MCPacketRecorder --------------------------
(***************************************************************************)
(* An instance of PacketRecorder for TLC: enough frames for one to be      *)
(* written, one in _handle and one after the close, and a second Ctrl+C.   *)
(***************************************************************************)
EXTENDS PacketRecorder
=============================================================================
