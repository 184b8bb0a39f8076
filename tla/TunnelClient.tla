---------------------------- MODULE TunnelClient ----------------------------
(***************************************************************************)
(* What a proxy client promises about its socket: it holds one from the    *)
(* moment the connection is made until the tunnel fails or is closed, and  *)
(* at no other time.  The inducer reconnects for a whole session, so one   *)
(* socket kept per refusal exhausts the descriptors of the process.        *)
(* ProxyTunnel implements this, and TrafficInducer is built on it.         *)
(***************************************************************************)
VARIABLES phase, held

TypeOK == phase \in {"closed", "connecting", "open"} /\ held \in BOOLEAN

Init == phase = "closed" /\ held = FALSE

Dial      == phase = "closed" /\ phase' = "connecting" /\ held' = TRUE
Establish == phase = "connecting" /\ phase' = "open" /\ UNCHANGED held
Close     == phase # "closed" /\ phase' = "closed" /\ held' = FALSE

Next == Dial \/ Establish \/ Close
Spec == Init /\ [][Next]_<<phase, held>>
=============================================================================
