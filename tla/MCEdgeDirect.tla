---------------------------- MODULE MCEdgeDirect ----------------------------
(* A small instance of EdgeDirect.                                         *)
EXTENDS EdgeDirect

CONSTANTS p1, p2, a1, a2
=============================================================================
