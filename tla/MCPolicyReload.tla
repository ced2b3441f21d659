--------------------------- MODULE MCPolicyReload ---------------------------
(* Small instances of PolicyReload.                                         *)
EXTENDS PolicyReload, TLC

CONSTANTS v1, v2, broken, p1, k1

MCVersions == {v1, v2, broken}

MCPanel == {p1}

\* Two files that can be loaded are alike.
MCSymmetry == Permutations({v1, v2})
=============================================================================
