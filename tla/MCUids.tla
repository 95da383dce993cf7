------------------------------- MODULE MCUids -------------------------------
(***************************************************************************)
(* Model-checking instance of Uids: more objects than slots, so that slots *)
(* are reused and the table fills up.                                      *)
(***************************************************************************)
EXTENDS Uids, TLC

CONSTANTS o1, o2, o3

MCObjects == {o1, o2, o3}

Symmetry == Permutations(MCObjects)
=============================================================================
