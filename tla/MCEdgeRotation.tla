--------------------------- MODULE MCEdgeRotation ---------------------------
(* Small instances of EdgeRotation.                                         *)
EXTENDS EdgeRotation

CONSTANTS u1, u2, c1, c2

MCOrder == <<u1, u2>>
=============================================================================
