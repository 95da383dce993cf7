----------------------------- MODULE UidsProofs -----------------------------
(***************************************************************************)
(* For every size of the table and every history: the slot of an object    *)
(* that is in the sieve is its own, the counter is exact, and, unless      *)
(* another instance's id names the slot just behind the table, the ids     *)
(* implement the directory of UidDirectory.                                *)
(***************************************************************************)
EXTENDS Uids, SieveProofs

(* The inductive invariant: besides what the properties say, every id      *)
(* issued carries an index that the counter has passed, and an object in   *)
(* the sieve carries an issued id.                                         *)
Issued ==
    /\ \A u \in known : u.iid = "here" /\ u.hole \in Slots /\ u.index < sieve.index
    /\ \A o \in Objects : in_sieve[o] => uid[o] \in known

Counted == sieve.filled = Cardinality(Occupied(sieve))

IndInv == TypeOK /\ SlotOwned /\ Counted /\ Issued

-----------------------------------------------------------------------------
(* make_hole_uid makes an id of the right shape, naming a slot of the      *)
(* table.                                                                  *)
LEMMA NewUidType ==
  ASSUME NEW sv \in SieveType, Holes(sv) # {}, sv.index < MaxIndex
  PROVE  [iid |-> "here", hole |-> HoleAt(sv), index |-> sv.index] \in Uid
BY HoleAtIsHole, MaxIndexAssumption DEF Uid, SieveType

(* The empty sieve satisfies the inductive invariant.                      *)
LEMMA InitInv == Init => IndInv
<1> SUFFICES ASSUME Init PROVE IndInv
  OBVIOUS
<1>1. sieve \in SieveType
  BY MaxAssumption DEF Init, sieve_prepare, SieveType
<1>2. Occupied(sieve) = {}
  BY DEF Init, sieve_prepare, Occupied, Holes
<1>3. TypeOK
  BY <1>1 DEF Init, TypeOK, Answer, Done
<1>4. Counted
  BY <1>2, FS_EmptySet DEF Init, sieve_prepare, Counted
<1> QED BY <1>2, <1>3, <1>4 DEF Init, IndInv, SlotOwned, Issued

(* The state after an id is issued to o from a sieve that does not have o: *)
(* make_hole_uid from the current one, reissue from the one with o's slot  *)
(* given back.                                                             *)
LEMMA IssueInv ==
  ASSUME NEW sv \in SieveType, NEW o \in Objects,
         TypeOK, Issued,
         sv.index = sieve.index,
         sv.filled = Cardinality(Occupied(sv)),
         Holes(sv) # {}, sv.index < MaxIndex,
         \A h \in Occupied(sv) : /\ sv.items[h] # o
                                 /\ in_sieve[sv.items[h]]
                                 /\ UID_HOLE(uid[sv.items[h]]) = h,
         \A p \in Objects \ {o} :
            in_sieve[p] => /\ UID_HOLE(uid[p]) \in Slots
                           /\ sv.items[UID_HOLE(uid[p])] = p,
         LET u == [iid |-> "here", hole |-> HoleAt(sv), index |-> sv.index]
         IN  /\ sieve' = sieve_find_hole(sv, o)
             /\ uid' = [uid EXCEPT ![o] = u]
             /\ in_sieve' = [in_sieve EXCEPT ![o] = TRUE]
             /\ known' = known \cup {u}
             /\ answer' = Done
  PROVE  IndInv'
<1> DEFINE u == [iid |-> "here", hole |-> HoleAt(sv), index |-> sv.index]
<1>u. u \in Uid /\ u.iid = "here" /\ u.hole = HoleAt(sv) /\ u.index = sv.index
  BY NewUidType
<1>h. HoleAt(sv) \in Slots /\ sv.items[HoleAt(sv)] = NULL
  BY HoleAtIsHole DEF Holes
<1>s. /\ sieve' \in SieveType
      /\ sieve'.index = sieve.index + 1
      /\ sieve'.filled = Cardinality(Occupied(sieve'))
      /\ sieve'.items[HoleAt(sv)] = o
      /\ \A h \in Slots : h # HoleAt(sv) => sieve'.items[h] = sv.items[h]
  BY FindHole
<1>n. sieve.index \in Nat
  BY DEF TypeOK, SieveType
<1>v. /\ uid' = [uid EXCEPT ![o] = u]
      /\ in_sieve' = [in_sieve EXCEPT ![o] = TRUE]
      /\ known' = known \cup {u}
      /\ answer' = Done
  OBVIOUS
<1> HIDE DEF u
<1>1. TypeOK'
  BY <1>s, <1>u, <1>v DEF TypeOK, Answer, Done
<1>2. SlotOwned'
  <2>1. ASSUME NEW p \in Objects, in_sieve'[p]
        PROVE  UID_HOLE(uid'[p]) \in Slots /\ sieve'.items[UID_HOLE(uid'[p])] = p
    <3>1. CASE p = o
      BY <3>1, <1>u, <1>v, <1>h, <1>s DEF TypeOK, UID_HOLE
    <3>2. CASE p # o
      <4>1. in_sieve[p] /\ uid'[p] = uid[p]
        BY <2>1, <3>2, <1>v DEF TypeOK
      <4>2. UID_HOLE(uid[p]) \in Slots /\ sv.items[UID_HOLE(uid[p])] = p
        BY <3>2, <4>1
      <4>3. UID_HOLE(uid[p]) # HoleAt(sv)
        BY <4>2, <1>h, NullAssumption
      <4> QED BY <4>1, <4>2, <4>3, <1>s
    <3> QED BY <3>1, <3>2
  <2>2. ASSUME NEW h \in Occupied(sieve')
        PROVE  in_sieve'[sieve'.items[h]] /\ UID_HOLE(uid'[sieve'.items[h]]) = h
    <3>0. h \in Slots
      BY DEF Occupied
    <3>1. CASE h = HoleAt(sv)
      BY <3>1, <1>s, <1>u, <1>v DEF TypeOK, UID_HOLE
    <3>2. CASE h # HoleAt(sv)
      <4>1. sieve'.items[h] = sv.items[h]
        BY <3>0, <3>2, <1>s
      <4>2. h \in Occupied(sv) /\ sv.items[h] \in Objects
        BY <3>0, <4>1 DEF Occupied, Holes, SieveType
      <4>3. sv.items[h] # o /\ in_sieve[sv.items[h]] /\ UID_HOLE(uid[sv.items[h]]) = h
        BY <4>2
      <4> QED BY <4>1, <4>2, <4>3, <1>v DEF TypeOK
    <3> QED BY <3>1, <3>2
  <2> QED BY <2>1, <2>2 DEF SlotOwned
<1>3. Counted'
  BY <1>s DEF Counted
<1>4. Issued'
  <2>1. ASSUME NEW w \in known'
        PROVE  w.iid = "here" /\ w.hole \in Slots /\ w.index < sieve'.index
    <3>1. CASE w = u
      BY <3>1, <1>u, <1>h, <1>s, <1>n
    <3>2. CASE w \in known
      <4>1. w.iid = "here" /\ w.hole \in Slots /\ w.index < sieve.index
        BY <3>2 DEF Issued
      <4>2. w.index \in Nat
        BY <3>2, MaxIndexAssumption DEF TypeOK, Uid
      <4> QED BY <4>1, <4>2, <1>s, <1>n
    <3> QED BY <3>1, <3>2, <1>v
  <2>2. \A p \in Objects : in_sieve'[p] => uid'[p] \in known'
    BY <1>v DEF Issued, TypeOK
  <2> QED BY <2>1, <2>2 DEF Issued
<1> QED BY <1>1, <1>2, <1>3, <1>4 DEF IndInv

(* An object that leaves: its slot is its own, and nobody else's slot      *)
(* changes.  These are facts about the sieve that sieve_empty returns.     *)
LEMMA LeaveSlot ==
  ASSUME IndInv, NEW o \in Objects, in_sieve[o]
  PROVE  LET freed == sieve_empty(sieve, UID_HOLE(uid[o]))
         IN  /\ freed \in SieveType
             /\ freed.index = sieve.index
             /\ freed.filled = Cardinality(Occupied(freed))
             /\ Holes(freed) # {}
             /\ \A h \in Occupied(freed) : /\ freed.items[h] # o
                                           /\ freed.items[h] = sieve.items[h]
                                           /\ in_sieve[freed.items[h]]
                                           /\ UID_HOLE(uid[freed.items[h]]) = h
             /\ \A p \in Objects \ {o} :
                  in_sieve[p] => /\ UID_HOLE(uid[p]) \in Slots
                                 /\ freed.items[UID_HOLE(uid[p])] = p
<1> DEFINE hole  == UID_HOLE(uid[o])
           freed == sieve_empty(sieve, hole)
<1>1. hole \in Slots /\ sieve.items[hole] = o /\ sieve.items[hole] # NULL
  BY NullAssumption DEF IndInv, SlotOwned
<1>2. /\ freed \in SieveType
      /\ freed.index = sieve.index
      /\ freed.filled = Cardinality(Occupied(freed))
      /\ freed.items[hole] = NULL
      /\ \A i \in Slots : i # hole => freed.items[i] = sieve.items[i]
      /\ hole \in Holes(freed)
  BY <1>1, EmptySlot DEF IndInv, TypeOK, Counted
<1> HIDE DEF freed
<1>3. ASSUME NEW h \in Occupied(freed)
      PROVE  /\ freed.items[h] # o
             /\ freed.items[h] = sieve.items[h]
             /\ in_sieve[freed.items[h]]
             /\ UID_HOLE(uid[freed.items[h]]) = h
  <2>1. h \in Slots /\ freed.items[h] # NULL
    BY DEF Occupied, Holes
  <2>2. h # hole /\ freed.items[h] = sieve.items[h]
    BY <2>1, <1>2
  <2>3. h \in Occupied(sieve)
    BY <2>1, <2>2 DEF Occupied, Holes
  <2>4. in_sieve[sieve.items[h]] /\ UID_HOLE(uid[sieve.items[h]]) = h
    BY <2>3 DEF IndInv, SlotOwned
  <2> QED BY <2>2, <2>4
<1>4. ASSUME NEW p \in Objects \ {o}, in_sieve[p]
      PROVE  UID_HOLE(uid[p]) \in Slots /\ freed.items[UID_HOLE(uid[p])] = p
  <2>1. UID_HOLE(uid[p]) \in Slots /\ sieve.items[UID_HOLE(uid[p])] = p
    BY <1>4 DEF IndInv, SlotOwned
  <2>2. UID_HOLE(uid[p]) # hole
    BY <2>1, <1>1
  <2> QED BY <2>1, <2>2, <1>2
<1> QED BY <1>2, <1>3, <1>4 DEF freed

(* Every operation on the sieve preserves the inductive invariant.         *)
LEMMA NextInv == IndInv /\ [Next]_vars => IndInv'
<1> SUFFICES ASSUME IndInv, [Next]_vars PROVE IndInv'
  OBVIOUS
<1>1. ASSUME NEW o \in Objects, make_hole_uid(o)
      PROVE  IndInv'
  <2>1. \A h \in Occupied(sieve) : sieve.items[h] # o
    BY <1>1 DEF make_hole_uid, IndInv, SlotOwned
  <2>2. TypeOK /\ Issued /\ sieve \in SieveType
    BY DEF IndInv, TypeOK
  <2>3. sieve.filled = Cardinality(Occupied(sieve))
    BY DEF IndInv, Counted
  <2>4. \A h \in Occupied(sieve) : /\ sieve.items[h] # o
                                   /\ in_sieve[sieve.items[h]]
                                   /\ UID_HOLE(uid[sieve.items[h]]) = h
    BY <2>1 DEF IndInv, SlotOwned
  <2>5. \A p \in Objects \ {o} :
           in_sieve[p] => /\ UID_HOLE(uid[p]) \in Slots
                          /\ sieve.items[UID_HOLE(uid[p])] = p
    BY DEF IndInv, SlotOwned
  <2> QED BY <1>1, <2>2, <2>3, <2>4, <2>5, IssueInv DEF make_hole_uid, NewUid
<1>2. ASSUME NEW o \in Objects, request_finish(o)
      PROVE  IndInv'
  <2> DEFINE freed == sieve_empty(sieve, UID_HOLE(uid[o]))
  <2>1. in_sieve[o] /\ sieve' = freed /\ in_sieve' = [in_sieve EXCEPT ![o] = FALSE]
        /\ answer' = Done /\ uid' = uid /\ known' = known
    BY <1>2 DEF request_finish
  <2>2. /\ freed \in SieveType
        /\ freed.index = sieve.index
        /\ freed.filled = Cardinality(Occupied(freed))
        /\ \A h \in Occupied(freed) : /\ freed.items[h] # o
                                      /\ in_sieve[freed.items[h]]
                                      /\ UID_HOLE(uid[freed.items[h]]) = h
        /\ \A p \in Objects \ {o} :
             in_sieve[p] => /\ UID_HOLE(uid[p]) \in Slots
                            /\ freed.items[UID_HOLE(uid[p])] = p
    BY <2>1, LeaveSlot
  <2> HIDE DEF freed
  <2>3. TypeOK'
    BY <2>1, <2>2 DEF IndInv, TypeOK, Answer, Done
  <2>4. SlotOwned'
    <3>1. \A h \in Occupied(freed) : freed.items[h] \in Objects
      BY <2>2 DEF Occupied, Holes, SieveType
    <3>2. \A p \in Objects : in_sieve'[p] => in_sieve[p] /\ p # o
      BY <2>1 DEF IndInv, TypeOK
    <3>3. \A p \in Objects \ {o} : in_sieve[p] => in_sieve'[p]
      BY <2>1 DEF IndInv, TypeOK
    <3> QED BY <2>1, <2>2, <3>1, <3>2, <3>3 DEF SlotOwned
  <2>5. Counted'
    BY <2>1, <2>2 DEF Counted
  <2>6. Issued'
    BY <2>1, <2>2 DEF IndInv, TypeOK, Issued
  <2> QED BY <2>3, <2>4, <2>5, <2>6 DEF IndInv
<1>3. ASSUME NEW o \in Objects, reissue(o)
      PROVE  IndInv'
  <2> DEFINE freed == sieve_empty(sieve, UID_HOLE(uid[o]))
             u     == [iid |-> "here", hole |-> HoleAt(freed), index |-> freed.index]
  <2>1. /\ in_sieve[o]
        /\ sieve.index < MaxIndex
        /\ sieve' = sieve_find_hole(freed, o)
        /\ uid' = [uid EXCEPT ![o] = u]
        /\ known' = known \cup {u}
        /\ answer' = Done
        /\ in_sieve' = in_sieve
    BY <1>3 DEF reissue
  <2>2. /\ freed \in SieveType
        /\ freed.index = sieve.index
        /\ freed.filled = Cardinality(Occupied(freed))
        /\ Holes(freed) # {}
        /\ \A h \in Occupied(freed) : /\ freed.items[h] # o
                                      /\ in_sieve[freed.items[h]]
                                      /\ UID_HOLE(uid[freed.items[h]]) = h
        /\ \A p \in Objects \ {o} :
             in_sieve[p] => /\ UID_HOLE(uid[p]) \in Slots
                            /\ freed.items[UID_HOLE(uid[p])] = p
    BY <2>1, LeaveSlot
  <2>3. in_sieve' = [in_sieve EXCEPT ![o] = TRUE]
    BY <2>1 DEF IndInv, TypeOK
  <2>4. TypeOK /\ Issued
    BY DEF IndInv
  <2> HIDE DEF freed
  <2> QED BY <2>1, <2>2, <2>3, <2>4, IssueInv
<1>4. CASE make_hole_uid_fails
  BY <1>4 DEF make_hole_uid_fails, IndInv, TypeOK, SlotOwned, Counted, Issued, Answer, Full
<1>5. ASSUME NEW u \in known \cup Foreign, find(u)
      PROVE  IndInv'
  <2>1. UNCHANGED <<sieve, uid, in_sieve, known>>
    BY <1>5 DEF find
  <2>2. u \in Uid
    BY MaxIndexAssumption DEF IndInv, TypeOK, Foreign, Uid
  <2>3. sieve_get(sieve, UID_HOLE(u)) \subseteq Objects \cup {NULL, WILD}
    <3>0. UID_HOLE(u) \in Slots \cup ForeignHoles
      BY <2>2 DEF Uid, UID_HOLE
    <3>a. Slots \cup ForeignHoles \subseteq Nat
      <4>1. Slots \subseteq Nat
        BY MaxAssumption DEF Slots
      <4> QED BY <4>1, ForeignHolesAssumption
    <3>1. UID_HOLE(u) \in Nat
      BY <3>0, <3>a
    <3>2. CASE UID_HOLE(u) < Max
      BY <3>1, <3>2, MaxAssumption DEF sieve_get, IndInv, TypeOK, SieveType, Slots
    <3>3. CASE ~ (UID_HOLE(u) < Max)
      BY <3>1, <3>3, MaxAssumption DEF sieve_get
    <3> QED BY <3>2, <3>3
  <2>4. answer' \in Answer
    BY <1>5, <2>2, <2>3 DEF find, Answer
  <2> QED BY <2>1, <2>4 DEF IndInv, TypeOK, SlotOwned, Counted, Issued
<1>6. CASE UNCHANGED vars
  BY <1>6 DEF vars, IndInv, TypeOK, SlotOwned, Counted, Issued
<1> QED BY <1>1, <1>2, <1>3, <1>4, <1>5, <1>6 DEF Next

(* The inductive invariant: types, ownership of slots, the exact counter,  *)
(* and ids that were issued once only, hold after any sequence of calls.   *)
THEOREM Invariance == Spec => []IndInv
BY InitInv, NextInv, PTL DEF Spec

(* The sieve, the ids and the flags of requests and sessions stay within   *)
(* their types.                                                            *)
THEOREM TypeCorrect == Spec => []TypeOK
BY Invariance, PTL DEF IndInv

(* An object that thinks it is registered is in the slot its id names and  *)
(* in no other, so request_finish and hybi_stop never empty a slot of      *)
(* somebody else, and sieve_empty's assertion never fails.                 *)
THEOREM SlotsAreOwned == Spec => []SlotOwned
BY Invariance, PTL DEF IndInv

(* resolve_url's test of the counter and the search for a hole agree.      *)
THEOREM FilledIsExact == Spec => []FilledExact
<1>1. IndInv => FilledExact
  <2> SUFFICES ASSUME IndInv PROVE FilledExact
    OBVIOUS
  <2>1. sieve.filled = Cardinality(Occupied(sieve))
    BY DEF IndInv, Counted
  <2>2. Occupied(sieve) \in SUBSET Slots /\ (Holes(sieve) = {} <=> Occupied(sieve) = Slots)
    BY DEF Occupied, Holes
  <2>3. /\ IsFiniteSet(Occupied(sieve))
        /\ Cardinality(Occupied(sieve)) <= Max
        /\ Cardinality(Occupied(sieve)) = Max => Occupied(sieve) = Slots
    BY <2>2, SlotsFinite, FS_Subset
  <2>4. Cardinality(Occupied(sieve)) \in Nat
    BY <2>3, FS_CardinalityType
  <2>5. sieve_full(sieve) <=> Cardinality(Occupied(sieve)) = Max
    BY <2>1, <2>3, <2>4, MaxAssumption DEF sieve_full
  <2>6. Occupied(sieve) = Slots => Cardinality(Occupied(sieve)) = Max
    BY SlotsFinite
  <2> QED BY <2>1, <2>2, <2>3, <2>5, <2>6 DEF FilledExact
<1> QED BY <1>1, Invariance, PTL
-----------------------------------------------------------------------------
(* The registrations, written over the objects instead of the slots.       *)
BoundOf == {<<uid[o], o>> : o \in {x \in Objects : in_sieve[x]}}

(* The directory that the sieve represents, read from the objects' side.   *)
LEMMA BoundByObject == IndInv => Bound = BoundOf
<1> SUFFICES ASSUME IndInv PROVE Bound = BoundOf
  OBVIOUS
<1>1. ASSUME NEW b \in Bound PROVE b \in BoundOf
  <2>1. PICK h \in Occupied(sieve) : b = <<uid[sieve.items[h]], sieve.items[h]>>
    BY DEF Bound
  <2>2. sieve.items[h] \in Objects /\ in_sieve[sieve.items[h]]
    BY DEF IndInv, SlotOwned, TypeOK, SieveType, Occupied, Holes
  <2> QED BY <2>1, <2>2 DEF BoundOf
<1>2. ASSUME NEW b \in BoundOf PROVE b \in Bound
  <2>1. PICK o \in Objects : in_sieve[o] /\ b = <<uid[o], o>>
    BY DEF BoundOf
  <2>2. UID_HOLE(uid[o]) \in Occupied(sieve) /\ sieve.items[UID_HOLE(uid[o])] = o
    BY <2>1, NullAssumption DEF IndInv, SlotOwned, Occupied, Holes
  <2> QED BY <2>1, <2>2 DEF Bound
<1> QED BY <1>1, <1>2

(* With no hole left the directory is full. *)
LEMMA BoundFull == IndInv /\ Holes(sieve) = {} => Cardinality(Bound) = Max
<1> SUFFICES ASSUME IndInv, Holes(sieve) = {} PROVE Cardinality(Bound) = Max
  OBVIOUS
<1> DEFINE f == [h \in Slots |-> <<uid[sieve.items[h]], sieve.items[h]>>]
<1>1. Occupied(sieve) = Slots
  BY DEF Occupied
<1>2. Bound = {f[h] : h \in Slots}
  BY <1>1 DEF Bound
<1>3. \A g, h \in Slots : f[g] = f[h] => g = h
  <2> SUFFICES ASSUME NEW g \in Slots, NEW h \in Slots, f[g] = f[h] PROVE g = h
    OBVIOUS
  <2>1. sieve.items[g] = sieve.items[h]
    OBVIOUS
  <2>2. UID_HOLE(uid[sieve.items[g]]) = g /\ UID_HOLE(uid[sieve.items[h]]) = h
    BY <1>1 DEF IndInv, SlotOwned
  <2> QED BY <2>1, <2>2
<1>4. f \in Bijection(Slots, Bound)
  <2> HIDE DEF f
  <2>1. f \in [Slots -> Bound]
    <3>1. f = [h \in Slots |-> f[h]]
      BY DEF f
    <3> QED BY <1>2, <3>1
  <2>2. \A b \in Bound : \E h \in Slots : f[h] = b
    BY <1>2
  <2> QED BY <2>1, <2>2, <1>3, Fun_IsBij
<1>5. ExistsBijection(Slots, Bound)
  BY <1>4 DEF ExistsBijection
<1> QED BY <1>5, SlotsFinite, FS_Bijection

(* An object is registered in the directory exactly when it is in the      *)
(* sieve.                                                                  *)
LEMMA RegisteredInSieve ==
  ASSUME IndInv, NEW o \in Objects
  PROVE  Directory!Registered(o) <=> in_sieve[o]
<1>1. Bound = BoundOf
  BY BoundByObject
<1>2. in_sieve[o] => uid[o] \in Uid /\ <<uid[o], o>> \in Bound
  BY <1>1 DEF BoundOf, IndInv, Issued, TypeOK
<1>3. ASSUME NEW u \in Uid, <<u, o>> \in Bound PROVE in_sieve[o]
  BY <1>1, <1>3 DEF BoundOf
<1> QED BY <1>2, <1>3 DEF Directory!Registered

(* A step that issues u to o: the id is fresh. *)
LEMMA FreshUid ==
  ASSUME IndInv, NEW u \in Uid, u.index = sieve.index
  PROVE  u \in Uid \ known
<1>1. sieve.index \in Nat
  BY DEF IndInv, TypeOK, SieveType
<1> QED BY <1>1 DEF IndInv, Issued

(* Every operation on the sieve is a step of the directory or leaves it    *)
(* alone.                                                                  *)
LEMMA StepImplements ==
  ASSUME Max \notin ForeignHoles, IndInv, IndInv', [Next]_vars
  PROVE  [Directory!DNext]_(Directory!dvars)
<1>b. Bound = BoundOf /\ Bound' = BoundOf'
  <2>1. Bound = BoundOf
    BY BoundByObject
  <2>2. (IndInv => Bound = BoundOf)'
    BY BoundByObject, PTL
  <2> QED BY <2>1, <2>2
<1>t. uid \in [Objects -> Uid \cup {NoUid}] /\ in_sieve \in [Objects -> BOOLEAN]
  BY DEF IndInv, TypeOK
<1>1. ASSUME NEW o \in Objects, make_hole_uid(o)
      PROVE  \E u \in Uid : Directory!Register(o, u)
  <2>1. NewUid \in Uid /\ NewUid.index = sieve.index
    BY <1>1, NewUidType DEF make_hole_uid, NewUid, IndInv, TypeOK
  <2>2. NewUid \in Uid \ known
    BY <2>1, FreshUid
  <2>3. Bound' = Bound \cup {<<NewUid, o>>}
    <3>1. ~ in_sieve[o] /\ uid' = [uid EXCEPT ![o] = NewUid]
          /\ in_sieve' = [in_sieve EXCEPT ![o] = TRUE]
      BY <1>1 DEF make_hole_uid
    <3> QED BY <1>b, <1>t, <3>1 DEF BoundOf
  <2>4. ~ Directory!Registered(o)
    BY <1>1, RegisteredInSieve DEF make_hole_uid
  <2>5. Directory!Register(o, NewUid)
    BY <1>1, <2>2, <2>3, <2>4 DEF make_hole_uid, Directory!Register
  <2> QED BY <2>1, <2>5
<1>2. ASSUME NEW o \in Objects, request_finish(o)
      PROVE  Directory!Unregister(o)
  <2>1. in_sieve[o] /\ uid' = uid /\ in_sieve' = [in_sieve EXCEPT ![o] = FALSE]
    BY <1>2 DEF request_finish
  <2>2. Bound' = {b \in Bound : b[2] # o}
    BY <1>b, <1>t, <2>1 DEF BoundOf
  <2>3. Directory!Registered(o)
    BY <2>1, RegisteredInSieve
  <2> QED BY <1>2, <2>2, <2>3 DEF request_finish, Directory!Unregister
<1>3. ASSUME NEW o \in Objects, reissue(o)
      PROVE  \E u \in Uid : Directory!Reregister(o, u)
  <2> DEFINE freed == sieve_empty(sieve, UID_HOLE(uid[o]))
             u     == [iid |-> "here", hole |-> HoleAt(freed), index |-> freed.index]
  <2>1. in_sieve[o] /\ uid' = [uid EXCEPT ![o] = u] /\ in_sieve' = in_sieve
        /\ known' = known \cup {u} /\ answer' = Done /\ sieve.index < MaxIndex
    BY <1>3 DEF reissue
  <2>2. freed \in SieveType /\ freed.index = sieve.index /\ Holes(freed) # {}
    BY <2>1, LeaveSlot
  <2>3. u \in Uid /\ u.index = sieve.index
    BY <2>1, <2>2, NewUidType
  <2> HIDE DEF u
  <2>4. u \in Uid \ known
    BY <2>3, FreshUid
  <2>5. Bound' = {b \in Bound : b[2] # o} \cup {<<u, o>>}
    BY <1>b, <1>t, <2>1 DEF BoundOf
  <2>6. Directory!Registered(o)
    BY <2>1, RegisteredInSieve
  <2>7. Directory!Reregister(o, u)
    BY <2>1, <2>4, <2>5, <2>6 DEF Directory!Reregister
  <2> QED BY <2>3, <2>7
<1>4. CASE make_hole_uid_fails
  <2>1. Holes(sieve) = {} /\ answer' = Full /\ UNCHANGED <<sieve, uid, in_sieve, known>>
    BY <1>4 DEF make_hole_uid_fails
  <2>2. Bound' = Bound
    BY <2>1, <1>b DEF BoundOf
  <2>c. Directory!Cardinality(Bound) = Cardinality(Bound)
    BY DEF Directory!Cardinality, Cardinality
  <2>3. Directory!Refuse
    BY <2>1, <2>2, <2>c, BoundFull DEF Directory!Refuse
  <2> QED BY <2>3 DEF Directory!DNext
<1>5. ASSUME NEW u \in known \cup Foreign, find(u)
      PROVE  \E found \in Objects \cup {NULL} : u \in Uid /\ Directory!Lookup(u, found)
  <2>1. u \in Uid
    BY MaxIndexAssumption DEF IndInv, TypeOK, Foreign, Uid
  <2>2. UID_HOLE(u) \in Nat /\ UID_HOLE(u) # Max
    <3>1. UID_HOLE(u) \in Slots \cup ForeignHoles
      BY <2>1 DEF Uid, UID_HOLE
    <3>2. \A h \in Slots : h \in Nat /\ h # Max
      BY MaxAssumption DEF Slots
    <3> QED BY <3>1, <3>2, ForeignHolesAssumption
  <2>3. PICK p \in sieve_get(sieve, UID_HOLE(u)) :
           answer' = [errno |-> "0", id |-> u,
                      found |-> IF p \in Objects /\ uid[p] # u THEN NULL ELSE p]
    BY <1>5 DEF find
  <2>4. UNCHANGED <<sieve, uid, in_sieve, known>>
    BY <1>5 DEF find
  <2>5. Bound' = Bound
    BY <2>4, <1>b DEF BoundOf
  <2>6. UID_HOLE(u) \in Slots => p = sieve.items[UID_HOLE(u)]
    BY <2>2, <2>3, MaxAssumption DEF sieve_get, Slots
  <2>7. UID_HOLE(u) \notin Slots => p = NULL
    BY <2>2, <2>3, MaxAssumption DEF sieve_get, Slots
  <2>8. p \in Objects \cup {NULL}
    BY <2>6, <2>7 DEF IndInv, TypeOK, SieveType
  <2>9. CASE p \in Objects /\ uid[p] = u
    <3>1. UID_HOLE(u) \in Slots /\ sieve.items[UID_HOLE(u)] = p
      BY <2>6, <2>7, <2>9, NullAssumption
    <3>2. in_sieve[p]
      BY <3>1, <2>9, NullAssumption DEF IndInv, SlotOwned, Occupied, Holes
    <3>3. <<u, p>> \in Bound
      BY <3>2, <2>9, <1>b DEF BoundOf
    <3>4. Directory!Lookup(u, p)
      BY <2>3, <2>4, <2>5, <2>9, <3>3, NullAssumption DEF Directory!Lookup
    <3> QED BY <2>1, <2>9, <3>4
  <2>10. CASE ~ (p \in Objects /\ uid[p] = u)
    <3>1. ASSUME NEW o \in Objects, <<u, o>> \in Bound PROVE FALSE
      <4>1. in_sieve[o] /\ u = uid[o]
        BY <3>1, <1>b DEF BoundOf
      <4>2. UID_HOLE(u) \in Slots /\ sieve.items[UID_HOLE(u)] = o
        BY <4>1 DEF IndInv, SlotOwned
      <4> QED BY <4>1, <4>2, <2>6, <2>10
    <3>2. answer' = [errno |-> "0", id |-> u, found |-> NULL]
      BY <2>3, <2>8, <2>10
    <3>3. Directory!Lookup(u, NULL)
      BY <3>1, <3>2, <2>4, <2>5 DEF Directory!Lookup
    <3> QED BY <2>1, <3>3
  <2> QED BY <2>9, <2>10
<1>6. CASE UNCHANGED vars
  <2>1. Bound' = Bound
    BY <1>6, <1>b DEF vars, BoundOf
  <2> QED BY <1>6, <2>1 DEF vars, Directory!dvars
<1> QED BY <1>1, <1>2, <1>3, <1>4, <1>5, <1>6 DEF Next, Directory!DNext

(* The table with its slots, counter and search implements the directory:  *)
(* an id is issued once, finds its own object while that is registered and *)
(* nothing afterwards, and registration fails only when the table is full. *)
(* It needs that no other instance's id names the slot behind the table.   *)
THEOREM ImplementsDirectory ==
  ASSUME Max \notin ForeignHoles
  PROVE  Spec => DirectorySpec
<1>1. Init => Directory!DInit
  <2> SUFFICES ASSUME Init PROVE Directory!DInit
    OBVIOUS
  <2>1. Occupied(sieve) = {}
    BY DEF Init, sieve_prepare, Occupied, Holes
  <2> QED BY <2>1 DEF Init, Bound, Directory!DInit
<1>2. IndInv /\ IndInv' /\ [Next]_vars => [Directory!DNext]_(Directory!dvars)
  BY StepImplements
<1> QED BY <1>1, <1>2, Invariance, PTL DEF Spec, DirectorySpec, Directory!DSpec
=============================================================================
