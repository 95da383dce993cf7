----------------------------- MODULE MCOutputs -----------------------------
(* Model-checking instance of Outputs.                                     *)
EXTENDS Outputs, TLC

CONSTANTS s1, s2, p1, p2, p3, k1, k2

MCSessions == {s1, s2}

MCPrefixes == {p1, p2, p3}

MCSockets == {k1, k2}

Symmetry == Permutations(MCSessions) \cup Permutations(MCPrefixes) \cup Permutations(MCSockets)
=============================================================================
