---------------------------- MODULE MCEdgeTunnel ----------------------------
(* Clients of EdgeTunnel: a ClientHello in two pieces, and one refused.     *)
EXTENDS EdgeTunnel

MCHellos == {[units |-> 2, name |-> "public"], [units |-> 1, name |-> "blocked"]}
=============================================================================
