------------------------------ MODULE MCTcpPeer ------------------------------
(***************************************************************************)
(* Instances of TcpPeer for TLC: sequence numbers modulo 4, so that every  *)
(* exchange wraps, all initial numbers of both sides, packets of another   *)
(* host, some of them for another host, and the end of a connection the    *)
(* DUT opened to the same port before (no responder tears one down).       *)
(***************************************************************************)
EXTENDS TcpPeer

Strangers ==
    {Packet("other", d, "tcp", f, 0, 0, 0) : d \in {"us", "other"}, f \in {{"SYN"}, {"ACK"}}}
    \cup {Packet("dut before", "us", "tcp", {"FIN", "ACK"}, 0, 0, 0),
          Packet("other", "us", "icmp", {"reply"}, 0, 0, 0),
          Packet("other", "us", "udp", {}, 0, 0, 0)}
=============================================================================
