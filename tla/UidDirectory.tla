---------------------------- MODULE UidDirectory ----------------------------
(***************************************************************************)
(* What the rest of zerogw relies on when it names an object by id: a      *)
(* directory.  An id is issued to one object, is never issued again, and   *)
(* looking it up gives that object while it is registered under the id and *)
(* nothing ever after.                                                     *)
(***************************************************************************)
EXTENDS Integers, FiniteSets

CONSTANTS
    Size,       \* how many objects can be registered at a time
    Object, Nobody, Id,
    Done, Full  \* the answers of calls that find nothing out

VARIABLES
    bound,      \* the registrations in force, pairs <<id, object>>
    used,       \* every id ever issued
    answer      \* what the last call returned

dvars == <<bound, used, answer>>

Registered(o) == \E u \in Id : <<u, o>> \in bound

DInit == bound = {} /\ used = {} /\ answer = Done

(* The id is fresh: whoever still remembers an older id cannot mean o.     *)
Register(o, u) ==
    /\ u \in Id \ used
    /\ ~ Registered(o)
    /\ bound' = bound \cup {<<u, o>>}
    /\ used' = used \cup {u}
    /\ answer' = Done

Unregister(o) ==
    /\ Registered(o)
    /\ bound' = {b \in bound : b[2] # o}
    /\ answer' = Done
    /\ UNCHANGED used

(* Withdraw o's id and issue another, with nothing in between.             *)
Reregister(o, u) ==
    /\ u \in Id \ used
    /\ Registered(o)
    /\ bound' = {b \in bound : b[2] # o} \cup {<<u, o>>}
    /\ used' = used \cup {u}
    /\ answer' = Done

(* Registration is refused only when the directory is full.                *)
Refuse ==
    /\ Cardinality(bound) = Size
    /\ answer' = Full
    /\ UNCHANGED <<bound, used>>

Lookup(u, found) ==
    /\ IF found = Nobody THEN \A o \in Object : <<u, o>> \notin bound
                         ELSE <<u, found>> \in bound
    /\ answer' = [errno |-> "0", id |-> u, found |-> found]
    /\ UNCHANGED <<bound, used>>

DNext ==
    \/ \E o \in Object, u \in Id : Register(o, u) \/ Reregister(o, u)
    \/ \E o \in Object : Unregister(o)
    \/ Refuse
    \/ \E u \in Id, o \in Object \cup {Nobody} : Lookup(u, o)

DSpec == DInit /\ [][DNext]_dvars
=============================================================================
