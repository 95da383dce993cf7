---------------------------- MODULE SieveProofs ----------------------------
(***************************************************************************)
(* What sieve_find_hole and sieve_empty do to a table, for every table and *)
(* every offset: the facts that the proofs about the owners of a sieve     *)
(* (Uids, HttpForward, Disk) rest on.                                      *)
(***************************************************************************)
EXTENDS Sieve, FiniteSetTheorems, FunctionTheorems, WellFoundedInduction, TLAPS

(* A non-empty set of naturals has a first element. *)
LEMMA HasFirst ==
  ASSUME NEW S \in SUBSET Nat, S # {}
  PROVE  \E i \in S : IsFirst(i, S)
<1> DEFINE R == OpToRel(<, Nat)
<1>1. IsWellFoundedOn(R, Nat)
  BY NatLessThanWellFounded
<1>2. \A y, x \in S : y < x => <<y, x>> \in R
  BY DEF OpToRel
<1> HIDE DEF R
<1>3. PICK x \in S : \A y \in S : ~ (<<y, x>> \in R)
  BY <1>1, WFMin
<1>4. \A y \in S : ~ (y < x)
  BY <1>2, <1>3
<1> QED BY <1>4 DEF IsFirst

(* The table is finite and has Max slots. *)
LEMMA SlotsFinite ==
  /\ IsFiniteSet(Slots)
  /\ Cardinality(Slots) = Max
  /\ \A S \in SUBSET Slots : IsFiniteSet(S)
<1>1. IsFiniteSet(Slots) /\ Cardinality(Slots) = Max
  BY MaxAssumption, FS_Interval DEF Slots
<1>2. \A S \in SUBSET Slots : IsFiniteSet(S)
  BY <1>1, FS_Subset
<1> QED BY <1>1, <1>2

(* sieve_find_hole finds a hole if there is one, whatever offset is. *)
LEMMA HoleAtIsHole ==
  ASSUME NEW sv \in SieveType, Holes(sv) # {}
  PROVE  HoleAt(sv) \in Holes(sv) /\ HoleAt(sv) \in Slots
<1> DEFINE after == {i \in Holes(sv) : i >= sv.offset}
<1>1. Holes(sv) \subseteq Slots /\ Slots \subseteq Nat
  BY MaxAssumption DEF Holes, Slots
<1>2. CASE after # {}
  <2>1. \E i \in after : IsFirst(i, after)
    BY <1>1, <1>2, HasFirst
  <2>2. HoleAt(sv) = CHOOSE i \in after : IsFirst(i, after)
    BY <1>2 DEF HoleAt
  <2>3. HoleAt(sv) \in after
    BY <2>1, <2>2
  <2> QED BY <2>3, <1>1
<1>3. CASE after = {}
  <2>1. \E i \in Holes(sv) : IsFirst(i, Holes(sv))
    BY <1>1, HasFirst
  <2>2. HoleAt(sv) = CHOOSE i \in Holes(sv) : IsFirst(i, Holes(sv))
    BY <1>3 DEF HoleAt
  <2>3. HoleAt(sv) \in Holes(sv)
    BY <2>1, <2>2
  <2> QED BY <2>3, <1>1
<1> QED BY <1>2, <1>3

(* What a successful sieve_find_hole leaves. *)
LEMMA FindHole ==
  ASSUME NEW sv \in SieveType, NEW o \in Objects, Holes(sv) # {},
         sv.filled = Cardinality(Occupied(sv))
  PROVE  LET new == sieve_find_hole(sv, o)
         IN  /\ new \in SieveType
             /\ new.index = sv.index + 1
             /\ new.filled = Cardinality(Occupied(new))
             /\ new.items[HoleAt(sv)] = o
             /\ \A h \in Slots : h # HoleAt(sv) => new.items[h] = sv.items[h]
<1> DEFINE new == sieve_find_hole(sv, o)
           hole == HoleAt(sv)
<1>1. hole \in Slots /\ sv.items[hole] = NULL
  BY HoleAtIsHole DEF Holes
<1>2. new \in SieveType
  BY <1>1, MaxAssumption DEF sieve_find_hole, SieveType, Slots
<1>3. /\ new.index = sv.index + 1
      /\ new.filled = sv.filled + 1
      /\ new.items = [sv.items EXCEPT ![hole] = o]
  BY DEF sieve_find_hole
<1>4. /\ new.items[hole] = o
      /\ \A h \in Slots : h # hole => new.items[h] = sv.items[h]
  BY <1>1, <1>3 DEF SieveType
<1>5. Occupied(new) = Occupied(sv) \cup {hole} /\ hole \notin Occupied(sv)
  BY <1>1, <1>4, NullAssumption DEF Occupied, Holes
<1>6. IsFiniteSet(Occupied(sv))
  BY SlotsFinite DEF Occupied
<1>7. Cardinality(Occupied(new)) = Cardinality(Occupied(sv)) + 1
  BY <1>5, <1>6, FS_AddElement
<1> HIDE DEF new, hole
<1>8. QED BY <1>2, <1>3, <1>4, <1>7 DEF new, hole

(* What sieve_empty of an occupied slot leaves. *)
LEMMA EmptySlot ==
  ASSUME NEW sv \in SieveType, NEW h \in Slots, sv.items[h] # NULL,
         sv.filled = Cardinality(Occupied(sv))
  PROVE  LET new == sieve_empty(sv, h)
         IN  /\ new \in SieveType
             /\ new.index = sv.index
             /\ new.filled = Cardinality(Occupied(new))
             /\ new.items[h] = NULL
             /\ \A i \in Slots : i # h => new.items[i] = sv.items[i]
             /\ h \in Holes(new)
<1> DEFINE new == sieve_empty(sv, h)
<1>1. /\ new \in SieveType
      /\ new.index = sv.index
      /\ new.filled = sv.filled - 1
      /\ new.items = [sv.items EXCEPT ![h] = NULL]
  BY DEF sieve_empty, SieveType
<1>2. /\ new.items[h] = NULL
      /\ \A i \in Slots : i # h => new.items[i] = sv.items[i]
  BY <1>1 DEF SieveType
<1>3. Occupied(new) = Occupied(sv) \ {h} /\ h \in Occupied(sv) /\ h \in Holes(new)
  BY <1>2 DEF Occupied, Holes
<1>4. IsFiniteSet(Occupied(sv))
  BY SlotsFinite DEF Occupied
<1>5. Cardinality(Occupied(new)) = Cardinality(Occupied(sv)) - 1
  BY <1>3, <1>4, FS_RemoveElement
<1> HIDE DEF new
<1>6. QED BY <1>1, <1>2, <1>3, <1>5 DEF new

-----------------------------------------------------------------------------
(* A table whose owner keeps, for each object, the slot it was given and a *)
(* flag that says whether it is in the table.                              *)

(* Every occupied slot is that of its object, every flagged object is in   *)
(* its slot, and the counter is exact.                                     *)
Tracks(sv, u, flag) ==
    /\ sv \in SieveType
    /\ sv.filled = Cardinality(Occupied(sv))
    /\ \A h \in Occupied(sv) : flag[sv.items[h]] /\ u[sv.items[h]].hole = h
    /\ \A o \in Objects : flag[o] => sv.items[u[o].hole] = o

NameSlots(U) == \A x \in U : x.hole \in Slots

(* The owner's ids are of U, and its flags are flags. *)
Owned(U, u, flag) ==
    NameSlots(U) /\ u \in [Objects -> U] /\ flag \in [Objects -> BOOLEAN]

(* An object that is not in the table takes a hole, with x as its id, or   *)
(* gives its slot back.                                                    *)
PutIn(sv, u, flag, o, x, new, u2, flag2) ==
    /\ ~ flag[o] /\ Holes(sv) # {} /\ x.hole = HoleAt(sv)
    /\ new = sieve_find_hole(sv, o)
    /\ u2 = [u EXCEPT ![o] = x]
    /\ flag2 = [flag EXCEPT ![o] = TRUE]

TakenOut(sv, u, flag, o, new, flag2) ==
    /\ flag[o]
    /\ new = sieve_empty(sv, u[o].hole)
    /\ flag2 = [flag EXCEPT ![o] = FALSE]

(* The empty table. *)
LEMMA TracksEmpty ==
  ASSUME NEW u, NEW flag, \A o \in Objects : ~ flag[o]
  PROVE  Tracks(sieve_prepare, u, flag)
<1>1. sieve_prepare \in SieveType
  BY MaxAssumption DEF sieve_prepare, SieveType
<1>2. Occupied(sieve_prepare) = {}
  BY DEF sieve_prepare, Occupied, Holes
<1>3. sieve_prepare.filled = 0
  BY DEF sieve_prepare
<1> QED BY <1>1, <1>2, <1>3, FS_EmptySet DEF Tracks

(* A table that is not full has a hole. *)
LEMMA TracksNotFull ==
  ASSUME NEW sv, NEW u, NEW flag, Tracks(sv, u, flag), ~ sieve_full(sv)
  PROVE  Holes(sv) # {}
<1> SUFFICES ASSUME Holes(sv) = {} PROVE FALSE
  OBVIOUS
<1>1. Occupied(sv) = Slots
  BY DEF Occupied
<1>2. sv.filled = Max
  BY <1>1, SlotsFinite DEF Tracks
<1> QED BY <1>2, MaxAssumption DEF sieve_full

(* sieve_find_hole for an object that is not in the table. *)
LEMMA TracksInsert ==
  ASSUME NEW U, NEW sv, NEW u, NEW flag, NEW o \in Objects, NEW x \in U,
         NEW new, NEW u2, NEW flag2,
         Owned(U, u, flag), Tracks(sv, u, flag), PutIn(sv, u, flag, o, x, new, u2, flag2)
  PROVE  Tracks(new, u2, flag2)
<1>0. /\ ~ flag[o] /\ Holes(sv) # {} /\ x.hole = HoleAt(sv)
      /\ new = sieve_find_hole(sv, o)
      /\ u2 = [u EXCEPT ![o] = x]
      /\ flag2 = [flag EXCEPT ![o] = TRUE]
      /\ NameSlots(U) /\ u \in [Objects -> U] /\ flag \in [Objects -> BOOLEAN]
  BY DEF Owned, PutIn
<1> USE <1>0
<1> DEFINE hole == HoleAt(sv)
<1>1. /\ new \in SieveType
      /\ new.filled = Cardinality(Occupied(new))
      /\ new.items[hole] = o
      /\ \A h \in Slots : h # hole => new.items[h] = sv.items[h]
  BY FindHole DEF Tracks
<1>2. hole \in Slots /\ sv.items[hole] = NULL
  BY HoleAtIsHole DEF Tracks, Holes
<1>3. u2[o] = x /\ flag2[o] /\ \A p \in Objects : p # o => u2[p] = u[p] /\ flag2[p] = flag[p]
  OBVIOUS
<1>4. \A h \in Slots : new.items[h] \in Objects \cup {NULL} /\ sv.items[h] \in Objects \cup {NULL}
  BY <1>1 DEF SieveType, Tracks
<1> HIDE DEF hole
<1>5. ASSUME NEW h \in Occupied(new)
      PROVE  flag2[new.items[h]] /\ u2[new.items[h]].hole = h
  <2>0. h \in Slots /\ new.items[h] # NULL
    BY DEF Occupied, Holes
  <2>1. CASE h = hole
    BY <1>1, <1>3, <2>1 DEF hole
  <2>2. CASE h # hole
    <3>1. new.items[h] = sv.items[h]
      BY <1>1, <2>0, <2>2
    <3>2. h \in Occupied(sv)
      BY <2>0, <3>1 DEF Occupied, Holes
    <3>3. flag[sv.items[h]] /\ u[sv.items[h]].hole = h /\ sv.items[h] # o
      BY <3>2 DEF Tracks
    <3>4. sv.items[h] \in Objects
      BY <1>4, <2>0, <3>1
    <3> QED BY <1>3, <3>1, <3>3, <3>4
  <2> QED BY <2>1, <2>2
<1>6. ASSUME NEW p \in Objects, flag2[p] PROVE new.items[u2[p].hole] = p
  <2>1. CASE p = o
    BY <1>1, <1>3, <2>1 DEF hole
  <2>2. CASE p # o
    <3>1. sv.items[u[p].hole] = p
      BY <1>3, <1>6, <2>2 DEF Tracks
    <3>2. u[p].hole \in Slots
      BY DEF NameSlots
    <3>3. u[p].hole # hole
      BY <1>2, <3>1, NullAssumption
    <3> QED BY <1>1, <1>3, <2>2, <3>1, <3>2, <3>3
  <2> QED BY <2>1, <2>2
<1> QED BY <1>1, <1>5, <1>6 DEF Tracks

(* sieve_empty of the slot of an object that is in the table. *)
LEMMA TracksRemove ==
  ASSUME NEW U, NEW sv, NEW u, NEW flag, NEW o \in Objects, NEW new, NEW flag2,
         Owned(U, u, flag), Tracks(sv, u, flag), TakenOut(sv, u, flag, o, new, flag2)
  PROVE  Tracks(new, u, flag2) /\ Holes(new) # {} /\ new.index = sv.index
<1>a. /\ flag[o] /\ new = sieve_empty(sv, u[o].hole)
      /\ flag2 = [flag EXCEPT ![o] = FALSE]
      /\ NameSlots(U) /\ u \in [Objects -> U] /\ flag \in [Objects -> BOOLEAN]
  BY DEF Owned, TakenOut
<1> USE <1>a
<1> DEFINE hole == u[o].hole
<1>0. hole \in Slots /\ sv.items[hole] = o /\ o # NULL
  BY NullAssumption DEF Tracks, NameSlots
<1>1. /\ new \in SieveType
      /\ new.index = sv.index
      /\ new.filled = Cardinality(Occupied(new))
      /\ new.items[hole] = NULL
      /\ \A h \in Slots : h # hole => new.items[h] = sv.items[h]
      /\ hole \in Holes(new)
  BY <1>0, EmptySlot DEF Tracks
<1>2. ~ flag2[o] /\ \A p \in Objects : p # o => flag2[p] = flag[p]
  OBVIOUS
<1>3. \A h \in Slots : sv.items[h] \in Objects \cup {NULL}
  BY DEF SieveType, Tracks
<1> HIDE DEF hole
<1>4. ASSUME NEW h \in Occupied(new)
      PROVE  flag2[new.items[h]] /\ u[new.items[h]].hole = h
  <2>0. h \in Slots /\ new.items[h] # NULL /\ h # hole
    BY <1>1 DEF Occupied, Holes
  <2>1. new.items[h] = sv.items[h]
    BY <1>1, <2>0
  <2>2. h \in Occupied(sv)
    BY <2>0, <2>1 DEF Occupied, Holes
  <2>3. flag[sv.items[h]] /\ u[sv.items[h]].hole = h
    BY <2>2 DEF Tracks
  <2>4. sv.items[h] \in Objects /\ sv.items[h] # o
    BY <1>3, <2>0, <2>1, <2>3 DEF hole
  <2> QED BY <1>2, <2>1, <2>3, <2>4
<1>5. ASSUME NEW p \in Objects, flag2[p] PROVE new.items[u[p].hole] = p
  <2>1. p # o /\ flag[p]
    BY <1>2, <1>5
  <2>2. sv.items[u[p].hole] = p /\ u[p].hole \in Slots
    BY <2>1 DEF Tracks, NameSlots
  <2>3. u[p].hole # hole
    BY <1>0, <2>1, <2>2
  <2> QED BY <1>1, <2>2, <2>3
<1>6. Tracks(new, u, flag2)
  BY <1>1, <1>4, <1>5 DEF Tracks
<1> QED BY <1>1, <1>6 DEF hole

(* ... or of one that may not be in it, which then changes nothing. *)
Released(sv, u, flag, o, new, flag2) ==
    /\ new = IF flag[o] THEN sieve_empty(sv, u[o].hole) ELSE sv
    /\ flag2 = [flag EXCEPT ![o] = FALSE]

(* The object is out of the table, and the others are where they were. *)
LEMMA TracksRelease ==
  ASSUME NEW U, NEW sv, NEW u, NEW flag, NEW o \in Objects, NEW new, NEW flag2,
         Owned(U, u, flag), Tracks(sv, u, flag), Released(sv, u, flag, o, new, flag2)
  PROVE  /\ Tracks(new, u, flag2) /\ new.index = sv.index
         /\ flag2 \in [Objects -> BOOLEAN] /\ ~ flag2[o]
         /\ \A p \in Objects : p # o => flag2[p] = flag[p]
<1>1. flag2 = [flag EXCEPT ![o] = FALSE] /\ flag \in [Objects -> BOOLEAN]
  BY DEF Released, Owned
<1>2. CASE flag[o]
  <2>1. TakenOut(sv, u, flag, o, new, flag2)
    BY <1>2 DEF Released, TakenOut
  <2>2. Tracks(new, u, flag2) /\ new.index = sv.index
    BY <2>1, TracksRemove
  <2> QED BY <1>1, <2>2
<1>3. CASE ~ flag[o]
  <2>1. new = sv
    BY <1>3 DEF Released
  <2>2. flag2 = flag
    BY <1>1, <1>3
  <2> QED BY <1>1, <1>3, <2>1, <2>2
<1> QED BY <1>2, <1>3

(* The id of an object that is not in the table does not matter. *)
LEMMA TracksOther ==
  ASSUME NEW U, NEW sv, NEW u \in [Objects -> U], NEW flag,
         NEW o \in Objects, NEW x \in U, Tracks(sv, u, flag), ~ flag[o]
  PROVE  Tracks(sv, [u EXCEPT ![o] = x], flag)
<1>1. \A p \in Objects : p # o => [u EXCEPT ![o] = x][p] = u[p]
  OBVIOUS
<1>2. \A h \in Occupied(sv) : sv.items[h] \in Objects \ {o}
  BY DEF Tracks, Occupied, Holes, SieveType
<1>3. \A h \in Occupied(sv) : [u EXCEPT ![o] = x][sv.items[h]] = u[sv.items[h]]
  BY <1>1, <1>2
<1> QED BY <1>1, <1>3 DEF Tracks

(* The counter is the number of flagged objects. *)
LEMMA TracksCount ==
  ASSUME NEW U, NameSlots(U), NEW sv, NEW u \in [Objects -> U], NEW flag, Tracks(sv, u, flag)
  PROVE  sv.filled = Cardinality({o \in Objects : flag[o]})
<1> DEFINE In == {o \in Objects : flag[o]}
           f == [h \in Occupied(sv) |-> sv.items[h]]
<1>1. IsFiniteSet(Occupied(sv))
  BY SlotsFinite DEF Occupied
<1>2. \A h \in Occupied(sv) : sv.items[h] \in In
  BY DEF Tracks, Occupied, Holes, SieveType
<1>3. f \in [Occupied(sv) -> In]
  BY <1>2
<1>4. \A h, i \in Occupied(sv) : sv.items[h] = sv.items[i] => h = i
  BY DEF Tracks
<1>5. \A h, i \in Occupied(sv) : f[h] = f[i] => h = i
  BY <1>4
<1>6. \A o \in In : \E h \in Occupied(sv) : sv.items[h] = o
  <2> TAKE o \in In
  <2>1. sv.items[u[o].hole] = o /\ u[o].hole \in Slots
    BY DEF Tracks, NameSlots
  <2>2. u[o].hole \in Occupied(sv)
    BY <2>1, NullAssumption DEF Occupied, Holes
  <2> QED BY <2>1, <2>2
<1>7. \A o \in In : \E h \in Occupied(sv) : f[h] = o
  BY <1>6
<1> HIDE DEF In, f
<1>8. f \in Bijection(Occupied(sv), In)
  BY <1>3, <1>5, <1>7 DEF Bijection, Injection, Surjection, IsInjective
<1>9. Cardinality(In) = Cardinality(Occupied(sv))
  BY <1>1, <1>8, FS_Bijection DEF ExistsBijection
<1> QED BY <1>9 DEF Tracks, In
=============================================================================
