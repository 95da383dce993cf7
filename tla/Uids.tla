-------------------------------- MODULE Uids --------------------------------
(***************************************************************************)
(* How requests and sessions get, use and lose their ids: uidgen.c on top  *)
(* of the sieve, with the callers' bookkeeping.  An id is the instance id, *)
(* the slot (hole) and the value of a counter (index) at the time it was   *)
(* issued.  Backends keep ids as long as they like and publish commands to *)
(* every zerogw instance, so a lookup may be given an id of an object that *)
(* is gone, or one that another instance issued.                           *)
(***************************************************************************)
EXTENDS Sieve

CONSTANTS
    ForeignHoles,   \* holes in the ids that other instances issued
    MaxIndex        \* bound on the number of ids issued in a behaviour

ASSUME ForeignHolesAssumption == ForeignHoles \subseteq Nat
ASSUME MaxIndexAssumption == MaxIndex \in Nat

VARIABLES
    sieve,      \* root.request_sieve, root.hybi.sieve
    uid,        \* object -> the uid bytes in it; they outlive the registration
    in_sieve,   \* REQ_IN_SIEVE of a request; for a session, not yet stopped
    known,      \* ids that left the process at some time
    answer      \* what the last call returned

vars == <<sieve, uid, in_sieve, known, answer>>

Uid == [iid : {"here", "there"}, hole : Slots \cup ForeignHoles,
        index : 0 .. MaxIndex]

NoUid == [iid |-> "none", hole |-> 0, index |-> 0]

Answer == [errno : {"0", "EAGAIN"}, id : Uid \cup {NoUid},
           found : Objects \cup {NULL, WILD}]

Done == [errno |-> "0", id |-> NoUid, found |-> NULL]

Full == [errno |-> "EAGAIN", id |-> NoUid, found |-> NULL]

Foreign == [iid : {"there"}, hole : ForeignHoles, index : {0}]

(* UID_HOLE *)
UID_HOLE(u) == u.hole

Init ==
    /\ sieve = sieve_prepare
    /\ uid = [o \in Objects |-> NoUid]
    /\ in_sieve = [o \in Objects |-> FALSE]
    /\ known = {}
    /\ answer = Done

NewUid == [iid |-> "here", hole |-> HoleAt(sieve), index |-> sieve.index]

(* http_request, disk_request and hybi_start register a fresh object.      *)
make_hole_uid(o) ==
    /\ ~ in_sieve[o]
    /\ Holes(sieve) # {}
    /\ sieve.index < MaxIndex
    /\ sieve' = sieve_find_hole(sieve, o)
    /\ uid' = [uid EXCEPT ![o] = NewUid]
    /\ in_sieve' = [in_sieve EXCEPT ![o] = TRUE]
    /\ known' = known \cup {NewUid}
    /\ answer' = Done

(* No hole: the caller gives the object up. *)
make_hole_uid_fails ==
    /\ Holes(sieve) = {}
    /\ answer' = Full
    /\ UNCHANGED <<sieve, uid, in_sieve, known>>

(* request_finish of a request in the sieve, hybi_stop of a session. *)
request_finish(o) ==
    /\ in_sieve[o]
    /\ sieve' = sieve_empty(sieve, UID_HOLE(uid[o]))
    /\ in_sieve' = [in_sieve EXCEPT ![o] = FALSE]
    /\ answer' = Done
    /\ UNCHANGED <<uid, known>>

(* request_timeout in mode RetryLast: the slot is given back and an id is  *)
(* issued anew, usually of another slot, in the same handler.  The mutant  *)
(* does not give the slot back.                                            *)
ReissueKeepsSlot(o) ==
    /\ in_sieve[o]
    /\ Holes(sieve) # {}
    /\ sieve.index < MaxIndex
    /\ sieve' = sieve_find_hole(sieve, o)
    /\ uid' = [uid EXCEPT ![o] = NewUid]
    /\ known' = known \cup {NewUid}
    /\ answer' = Done
    /\ UNCHANGED in_sieve

reissue(o) ==
    LET freed == sieve_empty(sieve, UID_HOLE(uid[o]))
        u     == [iid |-> "here", hole |-> HoleAt(freed), index |-> freed.index]
    IN  /\ in_sieve[o]
        /\ sieve.index < MaxIndex
        /\ sieve' = sieve_find_hole(freed, o)
        /\ uid' = [uid EXCEPT ![o] = u]
        /\ known' = known \cup {u}
        /\ answer' = Done
        /\ UNCHANGED in_sieve

(* hybi_find, and the same two tests in http_process: the slot is taken    *)
(* only if the object in it carries exactly this id (UID_EQ).  The mutant  *)
(* trusts the slot.                                                        *)
FindBySlot(u) ==
    /\ \E p \in sieve_get(sieve, UID_HOLE(u)) :
         answer' = [errno |-> "0", id |-> u, found |-> p]
    /\ UNCHANGED <<sieve, uid, in_sieve, known>>

find(u) ==
    /\ \E p \in sieve_get(sieve, UID_HOLE(u)) :
         answer' = [errno |-> "0", id |-> u,
                    found |-> IF p \in Objects /\ uid[p] # u THEN NULL ELSE p]
    /\ UNCHANGED <<sieve, uid, in_sieve, known>>

Next ==
    \/ \E o \in Objects : make_hole_uid(o) \/ request_finish(o) \/ reissue(o)
    \/ make_hole_uid_fails
    \/ \E u \in known \cup Foreign : find(u)

Spec == Init /\ [][Next]_vars
-----------------------------------------------------------------------------
TypeOK ==
    /\ sieve \in SieveType
    /\ uid \in [Objects -> Uid \cup {NoUid}]
    /\ in_sieve \in [Objects -> BOOLEAN]
    /\ known \subseteq Uid
    /\ answer \in Answer

(* The registrations, as the sieve has them.                               *)
Bound == {<<uid[sieve.items[h]], sieve.items[h]>> : h \in Occupied(sieve)}

(* An object that believes it is in the sieve is in the slot its id names, *)
(* and no slot points to another object.  request_finish and hybi_stop     *)
(* empty UID_HOLE(uid) without looking what is in it, so without this one  *)
(* would evict somebody else's object, or fail sieve_empty's assertion.    *)
SlotOwned ==
    /\ \A o \in Objects :
         in_sieve[o] => /\ UID_HOLE(uid[o]) \in Slots
                        /\ sieve.items[UID_HOLE(uid[o])] = o
    /\ \A h \in Occupied(sieve) : /\ in_sieve[sieve.items[h]]
                                  /\ UID_HOLE(uid[sieve.items[h]]) = h

(* resolve_url answers 503 by the counter (sieve_full), make_hole_uid      *)
(* fails by the table: the two agree after any history.                    *)
FilledExact ==
    /\ sieve.filled = Cardinality(Occupied(sieve))
    /\ sieve_full(sieve) <=> Holes(sieve) = {}

(* The directory that the ids promise (UidDirectory): an id is issued      *)
(* once, a stale or foreign id finds nothing, a live one its own object.   *)
Directory == INSTANCE UidDirectory
    WITH Size <- Max, Object <- Objects, Nobody <- NULL, Id <- Uid,
         bound <- Bound, used <- known

DirectorySpec == Directory!DSpec
=============================================================================
