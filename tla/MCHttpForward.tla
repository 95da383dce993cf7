--------------------------- MODULE MCHttpForward ---------------------------
(***************************************************************************)
(* Model-checking instances of HttpForward: more requests than slots.      *)
(***************************************************************************)
EXTENDS HttpForward, TLC

CONSTANTS r1, r2, r3

TwoRequests == {r1, r2}

ThreeRequests == {r1, r2, r3}

Symmetry == Permutations(Objects)
=============================================================================
