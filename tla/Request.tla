------------------------------ MODULE Request ------------------------------
(***************************************************************************)
(* An HTTP request (request.c, request.h, http_static_response), with the  *)
(* sieve that lists the requests which wait for somebody else: a backend   *)
(* (HttpForward) or a disk thread (Disk).  Several parties hold a request  *)
(* and let go of it in any order, so it is counted.                        *)
(*                                                                         *)
(* The mutant FinishKeepsTimer does not stop the timer; FinishKeepsSlot    *)
(* does not give the slot back.                                            *)
(***************************************************************************)
EXTENDS Sieve, Sequences

Requests == Objects

VARIABLES
    sieve,          \* root.request_sieve
    uid,            \* req->uid
    in_sieve,       \* REQ_IN_SIEVE
    timeout,        \* req->timeout is active
    refcnt,         \* req->refcnt
    client,         \* "idle", "waiting", "answered", "closed" (finish callback ran)
    written         \* the responses written for the request

request_vars == <<sieve, uid, in_sieve, timeout, refcnt, client, written>>

NoUid == [hole |-> 0, index |-> -1]

UidOf(sv) == [hole |-> HoleAt(sv), index |-> sv.index]

request_init ==
    /\ sieve = sieve_prepare
    /\ uid = [r \in Requests |-> NoUid]
    /\ in_sieve = [r \in Requests |-> FALSE]
    /\ timeout = [r \in Requests |-> FALSE]
    /\ refcnt = [r \in Requests |-> 0]
    /\ client = [r \in Requests |-> "idle"]
    /\ written = [r \in Requests |-> <<>>]
-----------------------------------------------------------------------------
(* A configured response; the answer of somebody else names the request    *)
(* that it is the answer to.                                               *)
Static(code) == [code |-> code, of |-> NULL]

Respond(r, response) ==
    /\ written' = [written EXCEPT ![r] = Append(@, response)]
    /\ client' = [client EXCEPT ![r] = IF @ = "closed" THEN "closed" ELSE "answered"]

(* request_finish, in a handler that leaves the sieve as sv otherwise.     *)
FinishKeepsTimer(r, sv) ==
    /\ sieve' = IF in_sieve[r] THEN sieve_empty(sv, uid'[r].hole) ELSE sv
    /\ in_sieve' = [in_sieve EXCEPT ![r] = FALSE]
    /\ UNCHANGED timeout

FinishKeepsSlot(r, sv) ==
    /\ sieve' = sv
    /\ in_sieve' = [in_sieve EXCEPT ![r] = FALSE]
    /\ timeout' = [timeout EXCEPT ![r] = FALSE]

request_finish(r, sv) ==
    /\ sieve' = IF in_sieve[r] THEN sieve_empty(sv, uid'[r].hole) ELSE sv
    /\ in_sieve' = [in_sieve EXCEPT ![r] = FALSE]
    /\ timeout' = [timeout EXCEPT ![r] = FALSE]

(* REQ_DECREF; the last reference runs request_free.                       *)
REQ_DECREF(r) ==
    /\ refcnt' = [refcnt EXCEPT ![r] = @ - 1]
    /\ IF refcnt[r] = 1
       THEN request_finish(r, sieve)
       ELSE UNCHANGED <<sieve, in_sieve, timeout>>
-----------------------------------------------------------------------------
AnyUid == [hole : Slots, index : Int]

RequestTypeOK ==
    /\ sieve \in SieveType
    /\ uid \in [Requests -> AnyUid]
    /\ in_sieve \in [Requests -> BOOLEAN]
    /\ timeout \in [Requests -> BOOLEAN]
    /\ refcnt \in [Requests -> Int]
    /\ client \in [Requests -> {"idle", "waiting", "answered", "closed"}]

(* The HTTP connection's reference, until the finish callback.             *)
ConnectionRefs(r) == IF client[r] \in {"waiting", "answered"} THEN 1 ELSE 0

(* A request gets one response at most (a body asserts ~REQ_HAS_MESSAGE,   *)
(* and a second response would go to the next request of the connection),  *)
(* and it is its own, though slots and messages are reused, and answers,   *)
(* timers and hang-ups come in any order.                                  *)
OneOwnResponse ==
    \A r \in Requests :
        /\ Len(written[r]) <= 1
        /\ \A i \in DOMAIN written[r] : written[r][i].of \in {r, NULL}

(* The sieve lists the requests that are flagged REQ_IN_SIEVE, each in the *)
(* slot of its uid, and none that is freed: a slot is given back when the  *)
(* request is answered or freed, whichever comes first, and only once.     *)
SieveExact ==
    /\ \A h \in Occupied(sieve) : in_sieve[sieve.items[h]] /\ uid[sieve.items[h]].hole = h
    /\ sieve.filled = Cardinality({r \in Requests : in_sieve[r]})
    /\ \A r \in Requests : in_sieve[r] => sieve.items[uid[r].hole] = r /\ refcnt[r] > 0
=============================================================================
