----------------------------- MODULE MCPolicyDsl -----------------------------
(* Instances of PolicyDsl for TLC.                                         *)
EXTENDS PolicyDsl, TLC

CONSTANTS k1, k2

MCCheckIds == {k1, k2}

Interchangeable == Permutations(MCCheckIds)
=============================================================================
