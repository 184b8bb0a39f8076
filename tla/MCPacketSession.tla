-------------------------- MODULE MCPacketSession --------------------------
(***************************************************************************)
(* Two runs of one window; a send_receive with a reply, or a sniff of two  *)
(* frames, on both threads; a plot of three points, so that it drops one.  *)
(***************************************************************************)
EXTENDS PacketSession

Runs == {[windows |-> TRUE,  opts |-> Options],
         [windows |-> FALSE, opts |-> {"capture"}],
         [windows |-> FALSE, opts |-> {"events"}]}
=============================================================================
