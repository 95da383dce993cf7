---------------------------- MODULE HttpForward ----------------------------
(***************************************************************************)
(* Forwarding HTTP requests to zeromq backends (http.c, request.c, on top  *)
(* of the sieve).  A request is registered in the sieve, its fields go to  *)
(* the socket, and it waits for an answer that carries its uid or for its  *)
(* timer, which may forward it again.  Three parties hold a request and    *)
(* let go of it in any order: the HTTP connection until its finish         *)
(* callback, the sieve and the timer until request_finish, and zeromq      *)
(* until it has sent the message, because the message points into the      *)
(* request, the uid included.                                              *)
(*                                                                         *)
(* The event loop's handlers are actions.  External: the client, which may *)
(* hang up at any time; zeromq, which takes Hwm messages and sends them    *)
(* when it can; and the backends, which answer what they got at any time,  *)
(* more than once, or never.  An answer that finds no request only counts  *)
(* as an orphan and is left out.                                           *)
(***************************************************************************)
EXTENDS Request

CONSTANTS
    Modes,          \* what zmq-forward.retry.mode and .timeout of routes say
    RetryCount,     \* retry.count
    Hwm             \* messages that zeromq takes

(* A route without a timeout never retries, whatever its mode.             *)
ASSUME ModesAssumption ==
    Modes \subseteq {"NoRetry", "RetryFirst", "RetryLast", "NoTimeout"}
ASSUME SizesAssumption == RetryCount \in Nat /\ Hwm \in Nat \ {0}

VARIABLES
    mode,           \* of the route; it never changes
    retries,        \* req->retries
    pipe,           \* messages inside zeromq
    inbox           \* messages that backends got

vars == <<request_vars, mode, retries, pipe, inbox>>

Init ==
    /\ request_init
    /\ mode \in Modes
    /\ retries = [r \in Requests |-> 0]
    /\ pipe = <<>>
    /\ inbox = {}
-----------------------------------------------------------------------------
(* The answer to an attempt of a request.                                  *)
Answer(m) == [code |-> "answer", of |-> m.req, attempt |-> m.attempt]

CanSend == Len(pipe) < Hwm

(* do_forward that zeromq accepts: one reference for the message, which    *)
(* the mutant does not take.                                               *)
ForwardNoRef(r) ==
    /\ CanSend
    /\ pipe' = Append(pipe, [req |-> r, attempt |-> retries'[r] + 1])
    /\ UNCHANGED refcnt

do_forward(r) ==
    /\ CanSend
    /\ pipe' = Append(pipe, [req |-> r, attempt |-> retries'[r] + 1])
    /\ refcnt' = [refcnt EXCEPT ![r] = @ + 1]
-----------------------------------------------------------------------------
(* The timer of a request that was forwarded, if the route has a timeout;  *)
(* the mutant starts none.                                                 *)
NoTimer(r) == UNCHANGED timeout

ev_timer_start(r) == timeout' = [timeout EXCEPT ![r] = mode # "NoTimeout"]

(* http_request of a forwarding route.                                     *)
http_request(r) ==
    /\ client[r] = "idle"
    /\ ~ sieve_full(sieve)
    /\ CanSend
    /\ sieve' = sieve_find_hole(sieve, r)
    /\ uid' = [uid EXCEPT ![r] = UidOf(sieve)]
    /\ in_sieve' = [in_sieve EXCEPT ![r] = TRUE]
    /\ ev_timer_start(r)
    /\ pipe' = Append(pipe, [req |-> r, attempt |-> 1])
    /\ refcnt' = [refcnt EXCEPT ![r] = 2]
    /\ client' = [client EXCEPT ![r] = "waiting"]
    /\ UNCHANGED <<retries, written, inbox>>

(* The table is full (do_resolve_url), or zmq_send says EAGAIN: 503.  In   *)
(* the second case the id was made, and is given back.                     *)
http_request_unavailable(r) ==
    /\ client[r] = "idle"
    /\ refcnt' = [refcnt EXCEPT ![r] = 1]
    /\ Respond(r, Static("503"))
    /\ \/ /\ sieve_full(sieve)
          /\ UNCHANGED <<sieve, uid>>
       \/ /\ ~ sieve_full(sieve)
          /\ ~ CanSend
          /\ uid' = [uid EXCEPT ![r] = UidOf(sieve)]
          /\ sieve' = sieve_empty(sieve_find_hole(sieve, r), HoleAt(sieve))
    /\ UNCHANGED <<in_sieve, timeout, retries, pipe, inbox>>

(* request_timeout: what the retry mode makes of it.                       *)
RetryMode(r) == IF retries[r] + 1 >= RetryCount THEN "NoRetry" ELSE mode

request_gives_up(r) ==
    /\ timeout[r]
    /\ RetryMode(r) = "NoRetry"
    /\ Respond(r, Static("504"))
    /\ retries' = [retries EXCEPT ![r] = @ + 1]
    /\ UNCHANGED <<uid, refcnt, pipe, inbox>>
    /\ request_finish(r, sieve)

(* RetryLast takes a new id first: bytes in the same place as the old one. *)
Reissue(r) ==
    LET freed == sieve_empty(sieve, uid[r].hole)
    IN  IF RetryMode(r) = "RetryLast"
        THEN [sieve |-> sieve_find_hole(freed, r), uid |-> UidOf(freed)]
        ELSE [sieve |-> sieve, uid |-> uid[r]]

request_retries(r) ==
    /\ timeout[r]
    /\ RetryMode(r) # "NoRetry"
    /\ retries' = [retries EXCEPT ![r] = @ + 1]
    /\ sieve' = Reissue(r).sieve
    /\ uid' = [uid EXCEPT ![r] = Reissue(r).uid]
    /\ do_forward(r)
    /\ UNCHANGED <<in_sieve, timeout, client, written, inbox>>

request_retry_fails(r) ==
    /\ timeout[r]
    /\ RetryMode(r) # "NoRetry"
    /\ ~ CanSend
    /\ retries' = [retries EXCEPT ![r] = @ + 1]
    /\ uid' = [uid EXCEPT ![r] = Reissue(r).uid]
    /\ Respond(r, Static("503"))
    /\ request_finish(r, Reissue(r).sieve)
    /\ UNCHANGED <<refcnt, pipe, inbox>>

request_timeout(r) == request_gives_up(r) \/ request_retries(r) \/ request_retry_fails(r)

(* UID_EQ; the mutant trusts the slot.                                     *)
AnyInSlot(r, u) == TRUE

UID_EQ(r, u) == uid[r] = u

(* http_process of an answer to m, or of one with too many parts (500).    *)
http_process(m, response) ==
    \E r \in sieve_get(sieve, m.uid.hole) \cap Requests :
        /\ UID_EQ(r, m.uid)
        /\ Respond(r, response)
        /\ UNCHANGED <<uid, retries, refcnt, pipe, inbox>>
        /\ request_finish(r, sieve)

(* http_request_finish: the response is with the client, or the client has *)
(* hung up.                                                                *)
http_request_finish(r) ==
    /\ client[r] \in {"waiting", "answered"}
    /\ client' = [client EXCEPT ![r] = "closed"]
    /\ UNCHANGED <<uid, retries, written, pipe, inbox>>
    /\ REQ_DECREF(r)

(* External: zeromq sends a message, as the request is now, and lets go of *)
(* the request (request_decref).                                           *)
zmq_sends ==
    /\ pipe # <<>>
    /\ pipe' = Tail(pipe)
    /\ LET m == Head(pipe)
       IN  /\ inbox' = inbox \cup {[uid |-> uid[m.req], req |-> m.req, attempt |-> m.attempt]}
           /\ UNCHANGED <<uid, retries, client, written>>
           /\ REQ_DECREF(m.req)

Next ==
    /\ UNCHANGED mode
    /\ \/ \E r \in Requests : \/ http_request(r) \/ http_request_unavailable(r)
                              \/ request_timeout(r) \/ http_request_finish(r)
       \/ \E m \in inbox : http_process(m, Answer(m)) \/ http_process(m, Static("500"))
       \/ zmq_sends

(* The event loop fires a timer that keeps running.                        *)
Fairness == \A r \in Requests : WF_vars(request_timeout(r) /\ UNCHANGED mode)

Spec == Init /\ [][Next]_vars

FairSpec == Spec /\ Fairness
-----------------------------------------------------------------------------
Response == [code : {"503", "504", "500"}, of : {NULL}]
            \cup [code : {"answer"}, of : Requests, attempt : Nat]

TypeOK ==
    /\ RequestTypeOK
    /\ written \in [Requests -> Seq(Response)]
    /\ mode \in Modes
    /\ retries \in [Requests -> Nat]
    /\ pipe \in Seq([req : Requests, attempt : Nat])
    /\ inbox \subseteq [uid : AnyUid, req : Requests, attempt : Nat]

(* The count is that of the parties that hold the request.                 *)
RefcntExact ==
    \A r \in Requests :
        refcnt[r] = ConnectionRefs(r) + Cardinality({i \in DOMAIN pipe : pipe[i].req = r})

(* Slots and timers are kept for requests that wait and for no others, and *)
(* all is of its type.  request_timeout asserts REQ_IN_SIEVE.              *)
OnlyWaitingTracked ==
    /\ TypeOK
    /\ SieveExact
    /\ \A r \in Requests : in_sieve[r] => written[r] = <<>>
    /\ \A r \in Requests : timeout[r] <=> in_sieve[r] /\ mode # "NoTimeout"

(* A request that waits is answered, or its client leaves, if the route    *)
(* has a timeout.                                                          *)
EventuallyAnswered ==
    mode # "NoTimeout" =>
        \A r \in Requests : client[r] = "waiting" ~> client[r] # "waiting"

(* RetryLast "means that if response is timed out it will not be used":    *)
(* an answer that is used is the answer to the last attempt.               *)
LastAttemptUsed ==
    mode = "RetryLast" => \A r \in Requests : \A i \in DOMAIN written[r] :
        written[r][i].code = "answer" => written[r][i].attempt = retries[r] + 1
=============================================================================
