------------------------------- MODULE Lists -------------------------------
(***************************************************************************)
(* The linked lists of queue.h as sequences: what is left of a list when   *)
(* entries are unlinked, and what a walk sees that skips entries.  Both    *)
(* keep the order.  Written without recursion, so that proofs can use it.  *)
(***************************************************************************)
EXTENDS Integers, Sequences, FiniteSets

(* The position in the set at that has n of them at or before it.          *)
Nth(at, n) == CHOOSE i \in at : Cardinality({j \in at : j <= i}) = n

(* The entries of the list at these positions.                             *)
Kept(list, at) == [n \in 1 .. Cardinality(at) |-> list[Nth(at, n)]]

(* The list after LIST_REMOVE of the entries gone.                         *)
Unlinked(list, gone) == Kept(list, {i \in DOMAIN list : list[i] \notin gone})
=============================================================================
