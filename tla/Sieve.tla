------------------------------- MODULE Sieve -------------------------------
(***************************************************************************)
(* The sieve (sieve.c) is the fixed table in which zerogw keeps every live *)
(* HTTP request and every live session, so that a reply that carries only  *)
(* an id can be matched with its object.  This module has the operations   *)
(* as operators on a record; the modules that own a sieve apply them to a  *)
(* variable of theirs.                                                     *)
(***************************************************************************)
EXTENDS Integers, FiniteSets

CONSTANTS
    Max,        \* sieve->max, the number of slots (sieve_prepare's size)
    Objects,    \* what the slots point to: requests or sessions
    NULL,       \* the null pointer
    WILD        \* a pointer read from outside the table

ASSUME MaxAssumption == Max \in Nat \ {0}
ASSUME NullAssumption == NULL \notin Objects
ASSUME WildAssumption == WILD \notin Objects \cup {NULL}

Slots == 0 .. Max - 1

(* sieve_t.  filled is redundant in the code too: it is a counter kept     *)
(* beside the table.                                                       *)
SieveType == [index  : Nat,
              offset : 0 .. Max,
              filled : Int,
              items  : [Slots -> Objects \cup {NULL}]]

sieve_prepare == [index  |-> 0, offset |-> 0, filled |-> 0,
                  items  |-> [i \in Slots |-> NULL]]

Holes(sv) == {i \in Slots : sv.items[i] = NULL}

Occupied(sv) == Slots \ Holes(sv)

IsFirst(i, S) == i \in S /\ \A j \in S : i <= j

(* The two loops of sieve_find_hole: first from offset to the end of the   *)
(* table, then from its start to offset.                                   *)
HoleAt(sv) ==
    LET after == {i \in Holes(sv) : i >= sv.offset}
    IN  IF after # {}
        THEN CHOOSE i \in after : IsFirst(i, after)
        ELSE CHOOSE i \in Holes(sv) : IsFirst(i, Holes(sv))

(* A successful sieve_find_hole: the slot is HoleAt(sv), the index handed  *)
(* out is sv.index.  With no hole the call fails with EAGAIN and the sieve *)
(* is unchanged.  The mutant leaves a slot out.                            *)
FindHoleSkips(sv, item) ==
    [index  |-> sv.index + 1,
     offset |-> HoleAt(sv) + 2,
     filled |-> sv.filled + 1,
     items  |-> [sv.items EXCEPT ![HoleAt(sv)] = item]]

sieve_find_hole(sv, item) ==
    [index  |-> sv.index + 1,
     offset |-> HoleAt(sv) + 1,
     filled |-> sv.filled + 1,
     items  |-> [sv.items EXCEPT ![HoleAt(sv)] = item]]

sieve_full(sv) == sv.filled >= Max

(* The possible results.  The bound is checked with "holeid > max", so     *)
(* holeid = max reads the word behind the table: null or anything else.    *)
sieve_get(sv, holeid) ==
    IF holeid > Max THEN {NULL}
    ELSE IF holeid = Max THEN {NULL, WILD}
    ELSE {sv.items[holeid]}

(* sieve_empty; it asserts that the slot is in use.  The mutant forgets    *)
(* the counter.                                                            *)
EmptyUncounted(sv, holeid) == [sv EXCEPT !.items[holeid] = NULL]

sieve_empty(sv, holeid) ==
    [index  |-> sv.index,
     offset |-> sv.offset,
     filled |-> sv.filled - 1,
     items  |-> [sv.items EXCEPT ![holeid] = NULL]]
=============================================================================
