------------------------------- MODULE Comet -------------------------------
(***************************************************************************)
(* Long polling (polling.c): a session whose client reaches zerogw only    *)
(* through HTTP requests.  At most one request of a session is held open   *)
(* (cur_request); it is answered when messages are there (from an idle     *)
(* watcher, sendlater), when its own timer expires, or when another        *)
(* request takes its place.  A session without a held request lives until  *)
(* its inactivity timer expires.  Messages stay in the queue, numbered     *)
(* from first_index, until a request acknowledges them.                    *)
(*                                                                         *)
(* Every handler of the event loop is one action.  The client, the HTTP    *)
(* library that calls the finish callback, and zeromq's I/O thread that    *)
(* drops a reference when it has sent a body, are external.  The process   *)
(* ends (dead) when one of the code's assertions fails.                    *)
(*                                                                         *)
(* Mutants, plausible bugs that the properties must notice: NoDecref,      *)
(* NoTimer, KeepsHeld, AnyLimit, NoIdle, OverFull; LastQueued for          *)
(* ReportedId.                                                             *)
(***************************************************************************)
EXTENDS Integers, Sequences, FiniteSets

CONSTANTS
    Sessions,       \* hybi_t of type HYBI_COMET; each is connected once
    Requests,       \* HTTP requests; each arrives once
    NULL,
    QueueLimit,     \* polling-fallback.queue-limit
    OutFormats,     \* outfmt parameters that clients use
    RefusedOn,      \* requests on which clients use infmt=jsonlist, too
    Limits,         \* limit parameters of GET and BIDI; -1 is "none given"
    AckedOn,        \* requests on which clients send a valid ack=
    HonestAcks,     \* a valid ack= of a client is an id it was told
    PollsExpireFirst,   \* max-timeout is below inactivity-timeout
    MaxMessages     \* bound on the messages sent to a session

Formats == {"single", "jsonlist"}

Actions == {"GET", "POST", "BIDI", "CLOSE"}

ASSUME NullAssumption == NULL \notin Sessions \cup Requests
ASSUME LimitAssumption == QueueLimit \in Nat \ {0} /\ Limits \subseteq Int
ASSUME FormatAssumption == OutFormats \subseteq Formats /\ RefusedOn \subseteq {"POST", "BIDI"}
ASSUME ClientAssumption == AckedOn \subseteq Actions /\ HonestAcks \in BOOLEAN
ASSUME TimersAssumption == PollsExpireFirst \in BOOLEAN
ASSUME BoundAssumption == MaxMessages \in Nat

VARIABLES
    alive,          \* session: "none", "live" (found by hybi_find), "closed"
    cur_request, cur_format, cur_limit, first_index, queue,   \* comet_t
    sendlater,      \* the idle watcher is active
    inactivity,     \* the inactivity timer is active
    phase,          \* request: "new", "held", "replied", "aborted", "finished"
    hybi,           \* req->hybi
    timeout,        \* req->timeout is active
    refcnt,         \* req->refcnt; 0 once freed
    inflight,       \* the body is in a backend queue or in zeromq
    payload,        \* what the reply carries
    dead,           \* an assertion failed
    published,      \* history: messages queued for the session so far
    told,           \* history: ids the client read in reply headers
    seen            \* history: messages the client received

session_vars == <<alive, cur_request, cur_format, cur_limit, first_index,
                  queue, sendlater, inactivity>>

request_vars == <<phase, hybi, timeout, refcnt, inflight, payload>>

history_vars == <<published, told, seen>>

vars == <<session_vars, request_vars, dead, history_vars>>

Ids == 0 .. MaxMessages + 1

NoPayload == [of |-> NULL, messages |-> {}, last |-> 0]

Init ==
    /\ alive = [s \in Sessions |-> "none"]
    /\ cur_request = [s \in Sessions |-> NULL]
    /\ cur_format = [s \in Sessions |-> "single"]
    /\ cur_limit = [s \in Sessions |-> 0]
    /\ first_index = [s \in Sessions |-> 1]
    /\ queue = [s \in Sessions |-> <<>>]
    /\ sendlater = [s \in Sessions |-> FALSE]
    /\ inactivity = [s \in Sessions |-> FALSE]
    /\ phase = [r \in Requests |-> "new"]
    /\ hybi = [r \in Requests |-> NULL]
    /\ timeout = [r \in Requests |-> FALSE]
    /\ refcnt = [r \in Requests |-> 1]
    /\ inflight = [r \in Requests |-> FALSE]
    /\ payload = [r \in Requests |-> NoPayload]
    /\ dead = FALSE
    /\ published = [s \in Sessions |-> 0]
    /\ told = [s \in Sessions |-> {}]
    /\ seen = [s \in Sessions |-> {}]
-----------------------------------------------------------------------------
(* The held request of s, as a set of at most one.                         *)
Held(s) == {cur_request[s]} \ {NULL}

(* The references that an answer leaves (REQ_DECREF of the held request).  *)
NoDecref(s, q) == refcnt[q]

AfterReply(s, q) == IF q \in Held(s) THEN refcnt[q] - 1 ELSE refcnt[q]

(* What empty_reply, close_reply and the end of send_later do to the held  *)
(* request: its timer stops, it lets go of the session, and the session of *)
(* it (one reference).  r is a request that the handler itself replies to, *)
(* which keeps the reference count it came with.                           *)
Release(s, r) ==
    /\ phase' = [q \in Requests |-> IF q = r \/ q \in Held(s) THEN "replied" ELSE phase[q]]
    /\ hybi' = [q \in Requests |-> IF q \in Held(s) THEN NULL ELSE hybi[q]]
    /\ timeout' = [q \in Requests |-> timeout[q] /\ q \notin Held(s)]
    /\ refcnt' = [q \in Requests |-> AfterReply(s, q)]

(* ev_timer_again of the inactivity timer, when no request is held.        *)
NoTimer(s) == UNCHANGED inactivity

ev_timer_again(s) == inactivity' = [inactivity EXCEPT ![s] = TRUE]

(* cur_request = NULL                                                      *)
KeepsHeld(s) == UNCHANGED cur_request

LetGo(s) == cur_request' = [cur_request EXCEPT ![s] = NULL]

(* free_comet after comet_close or a timeout; hybi_stop withdraws the id.  *)
free_comet(s) ==
    /\ alive' = [alive EXCEPT ![s] = "closed"]
    /\ LetGo(s)
    /\ sendlater' = [sendlater EXCEPT ![s] = FALSE]
    /\ inactivity' = [inactivity EXCEPT ![s] = FALSE]
    /\ queue' = [queue EXCEPT ![s] = <<>>]
    /\ UNCHANGED <<cur_format, cur_limit, first_index>>

comet_close(s) ==
    /\ Release(s, NULL)
    /\ free_comet(s)
    /\ UNCHANGED <<inflight, payload>>

(* A failed assertion ends the process.                                    *)
Abort == dead' = TRUE /\ UNCHANGED <<session_vars, request_vars, history_vars>>

(* Requests are taken in some order; which one comes makes no difference.  *)
NewRequest == CHOOSE r \in Requests : phase[r] = "new"

(* comet_connect                                                           *)
comet_connect(r, s) ==
    /\ phase[r] = "new" /\ r = NewRequest
    /\ alive[s] = "none"
    /\ alive' = [alive EXCEPT ![s] = "live"]
    /\ inactivity' = [inactivity EXCEPT ![s] = TRUE]
    /\ phase' = [phase EXCEPT ![r] = "replied"]
    /\ UNCHANGED <<cur_request, cur_format, cur_limit, first_index, queue, sendlater,
                   hybi, timeout, refcnt, inflight, payload, dead, history_vars>>
-----------------------------------------------------------------------------
(* move_queue: how many messages an ack removes, and whether it is valid.  *)
Acked(s, ack) ==
    IF ack = 0 \/ ack < first_index[s] THEN 0 ELSE ack - first_index[s] + 1

AckValid(s, ack) == Acked(s, ack) <= Len(queue[s])

move_queue(s, ack) ==
    /\ queue' = [queue EXCEPT ![s] = SubSeq(@, Acked(s, ack) + 1, Len(@))]
    /\ first_index' = [first_index EXCEPT ![s] = @ + Acked(s, ack)]

(* A request of the session comes; its ack may also be wrong.              *)
Arrives(r, s, action, ack) ==
    /\ phase[r] = "new" /\ r = NewRequest
    /\ alive[s] = "live"
    /\ \/ ack = 0
       \/ ~ AckValid(s, ack)
       \/ action \in AckedOn /\ (HonestAcks => ack \in told[s])

(* A CLOSE, or a request with a wrong ack, ends the session.  The held     *)
(* request gets an empty or a closing reply, the new one a closing reply.  *)
request_closes(r, s, action, ack) ==
    /\ Arrives(r, s, action, ack)
    /\ action = "CLOSE" \/ ~ AckValid(s, ack)
    /\ Release(s, r)
    /\ free_comet(s)
    /\ UNCHANGED <<inflight, payload, dead, history_vars>>

(* infmt=jsonlist is refused with the held request already answered (BIDI) *)
(* and the ack already taken; the connection of r is closed.               *)
request_refused(r, s, action, ack) ==
    /\ Arrives(r, s, action, ack)
    /\ action \in RefusedOn
    /\ AckValid(s, ack)
    /\ move_queue(s, ack)
    /\ IF action = "BIDI"
       THEN /\ Release(s, r)
            /\ LetGo(s)
       ELSE /\ phase' = [phase EXCEPT ![r] = "replied"]
            /\ UNCHANGED <<hybi, timeout, refcnt, cur_request>>
    /\ UNCHANGED <<alive, cur_format, cur_limit, sendlater, inactivity,
                   inflight, payload, dead, history_vars>>

(* POST: the body goes to the backend (one reference until zeromq is done  *)
(* with it) and the reply is empty.  Timers are left alone.                *)
request_posts(r, s, ack) ==
    /\ Arrives(r, s, "POST", ack)
    /\ AckValid(s, ack)
    /\ move_queue(s, ack)
    /\ phase' = [phase EXCEPT ![r] = "replied"]
    /\ refcnt' = [refcnt EXCEPT ![r] = @ + 1]
    /\ inflight' = [inflight EXCEPT ![r] = TRUE]
    /\ UNCHANGED <<alive, cur_request, cur_format, cur_limit, sendlater, inactivity,
                   hybi, timeout, payload, dead, history_vars>>

(* queue_push of the session's queue fails.                                *)
OverFull(s) == Len(queue[s]) > QueueLimit

QueueFull(s) == Len(queue[s]) >= QueueLimit

(* A frontend command (websock_resolve: ZEROGW:echo, ZEROGW:timestamp) is  *)
(* answered into the session's own queue, behind what the ack has left.    *)
echo(s, ack) ==
    /\ queue' = [queue EXCEPT ![s] =
                    Append(SubSeq(@, Acked(s, ack) + 1, Len(@)), published[s] + 1)]
    /\ first_index' = [first_index EXCEPT ![s] = @ + Acked(s, ack)]
    /\ published' = [published EXCEPT ![s] = @ + 1]

(* A POST of a command; a full queue closes the session in the middle of   *)
(* the handler.                                                            *)
request_echoes(r, s, ack) ==
    /\ Arrives(r, s, "POST", ack)
    /\ AckValid(s, ack)
    /\ published[s] < MaxMessages
    /\ IF QueueFull(s) /\ Acked(s, ack) = 0
       THEN Release(s, r) /\ free_comet(s) /\ UNCHANGED published
       ELSE /\ echo(s, ack)
            /\ sendlater' = [sendlater EXCEPT ![s] = @ \/ cur_request[s] # NULL]
            /\ phase' = [phase EXCEPT ![r] = "replied"]
            /\ UNCHANGED <<alive, cur_request, cur_format, cur_limit, inactivity,
                           hybi, timeout, refcnt>>
    /\ UNCHANGED <<inflight, payload, dead, told, seen>>

(* The limit of a batch: the client's, if it is one and below the queue's. *)
AnyLimit(limit) == IF limit < QueueLimit THEN limit ELSE QueueLimit

PollLimit(limit) == IF limit >= 0 /\ limit < QueueLimit THEN limit ELSE QueueLimit

(* ev_idle_start, when messages are waiting.                               *)
NoIdle(s) == UNCHANGED sendlater

ev_idle_start(s) == sendlater' = [sendlater EXCEPT ![s] = @ \/ queue'[s] # <<>>]

(* ev_timer_stop of the inactivity timer.                                  *)
ev_timer_stop(s) == inactivity' = [inactivity EXCEPT ![s] = FALSE]

(* GET, and BIDI whose body is a message or a command: r becomes the held  *)
(* request.  With messages waiting it is answered from the idle watcher    *)
(* and gets no timer.  Left out is a command that finds the queue full,    *)
(* which frees the session that the handler then goes on with (undefined). *)
Bodies == {"none", "message", "command"}

request_polls(r, s, body, ack, outfmt, limit) ==
    /\ Arrives(r, s, IF body = "none" THEN "GET" ELSE "BIDI", ack)
    /\ AckValid(s, ack)
    /\ IF body = "command"
       THEN /\ published[s] < MaxMessages
            /\ ~ (QueueFull(s) /\ Acked(s, ack) = 0)
            /\ echo(s, ack)
       ELSE move_queue(s, ack) /\ UNCHANGED published
    /\ phase' = [q \in Requests |-> IF q = r THEN "held"
                                    ELSE IF q \in Held(s) THEN "replied" ELSE phase[q]]
    /\ hybi' = [q \in Requests |-> IF q = r THEN s
                                   ELSE IF q \in Held(s) THEN NULL ELSE hybi[q]]
    /\ timeout' = [q \in Requests |-> IF q = r THEN queue'[s] = <<>>
                                      ELSE timeout[q] /\ q \notin Held(s)]
    /\ refcnt' = [q \in Requests |->
                    IF q = r THEN IF body = "message" THEN refcnt[q] + 2 ELSE refcnt[q] + 1
                    ELSE AfterReply(s, q)]
    /\ inflight' = [inflight EXCEPT ![r] = (body = "message")]
    /\ cur_request' = [cur_request EXCEPT ![s] = r]
    /\ cur_format' = [cur_format EXCEPT ![s] = outfmt]
    /\ cur_limit' = [cur_limit EXCEPT ![s] = PollLimit(limit)]
    /\ ev_idle_start(s)
    /\ ev_timer_stop(s)
    /\ UNCHANGED <<alive, payload, dead, told, seen>>

(* A request with wrong arguments, OPTIONS, or an id that hybi_find does   *)
(* not know.                                                               *)
request_rejected(r) ==
    /\ phase[r] = "new" /\ r = NewRequest
    /\ phase' = [phase EXCEPT ![r] = "replied"]
    /\ UNCHANGED <<session_vars, hybi, timeout, refcnt, inflight, payload, dead, history_vars>>

(* comet_request of a session: what the body and the limit make of it.     *)
comet_request(r, s) ==
    \E ack \in Ids :
        \/ \E action \in Actions : \/ request_closes(r, s, action, ack)
                                   \/ request_refused(r, s, action, ack)
        \/ request_posts(r, s, ack) \/ request_echoes(r, s, ack)
        \/ \E body \in Bodies, outfmt \in OutFormats, limit \in Limits \ {0} :
              request_polls(r, s, body, ack, outfmt, limit)
-----------------------------------------------------------------------------
(* The id in the header of a reply: X-Message-ID or X-Last-ID.             *)
LastQueued(s) == first_index[s] + Len(queue[s]) - 1

ReportedId(s) == IF cur_format[s] = "single" THEN first_index[s] ELSE LastQueued(s)

(* The reply of send_later.  In a jsonlist at most cur_limit messages go   *)
(* out, and X-Last-ID is the id of the last one in the queue.              *)
Batch(s) ==
    LET n == IF cur_format[s] = "single" THEN 1
             ELSE IF Len(queue[s]) > cur_limit[s] THEN cur_limit[s] ELSE Len(queue[s])
    IN  [of       |-> s,
         messages |-> {queue[s][i] : i \in 1 .. n},
         last     |-> ReportedId(s)]

(* The idle watcher.  Without a held request it only stops.                *)
send_later(s) ==
    /\ sendlater[s]
    /\ sendlater' = [sendlater EXCEPT ![s] = FALSE]
    /\ IF cur_request[s] = NULL
       THEN UNCHANGED <<cur_request, inactivity, request_vars>>
       ELSE /\ ev_timer_again(s)
            /\ IF queue[s] = <<>>
               THEN UNCHANGED <<cur_request, request_vars>>
               ELSE /\ Release(s, NULL)
                    /\ payload' = [payload EXCEPT ![cur_request[s]] = Batch(s)]
                    /\ LetGo(s)
                    /\ UNCHANGED inflight
    /\ UNCHANGED <<alive, cur_format, cur_limit, first_index, queue, dead, history_vars>>

(* The timer of a held request: an empty reply, then inactivity counts.    *)
polling_timeout(r) ==
    LET s == hybi[r]
    IN  /\ timeout[r]
        /\ IF s # NULL /\ cur_request[s] = r
           THEN /\ Release(s, NULL)
                /\ LetGo(s)
                /\ ev_timer_again(s)
                /\ UNCHANGED <<alive, cur_format, cur_limit, first_index, queue, sendlater,
                               inflight, payload, dead, history_vars>>
           ELSE Abort

(* The inactivity timer: free_comet asserts that no request is held.  A    *)
(* request arriving stops this timer, so when it runs beside the timer of  *)
(* a held request it was started later, and expires later if               *)
(* PollsExpireFirst (as with the default settings, 11 and 120 seconds).    *)
inactivity_timeout(s) ==
    /\ inactivity[s]
    /\ ~ (PollsExpireFirst /\ cur_request[s] # NULL /\ timeout[cur_request[s]])
    /\ IF cur_request[s] = NULL
       THEN free_comet(s) /\ UNCHANGED <<request_vars, dead, history_vars>>
       ELSE Abort

(* The finish callback of a held request: the client hung up               *)
(* (comet_request_aborted).  req->hybi is left, and one reference dropped. *)
comet_request_aborted(r) ==
    LET s == hybi[r]
    IN  /\ phase[r] = "held"
        /\ IF s # NULL /\ cur_request[s] = r
           THEN /\ phase' = [phase EXCEPT ![r] = "aborted"]
                /\ timeout' = [timeout EXCEPT ![r] = FALSE]
                /\ refcnt' = [refcnt EXCEPT ![r] = @ - 1]
                /\ LetGo(s)
                /\ ev_timer_again(s)
                /\ UNCHANGED <<alive, cur_format, cur_limit, first_index, queue, sendlater,
                               hybi, inflight, payload, dead, history_vars>>
           ELSE Abort

(* The finish callback of an answered request: the reply is with the       *)
(* client, or the connection broke before it was.                          *)
comet_request_sent(r, arrived) ==
    /\ phase[r] = "replied"
    /\ phase' = [phase EXCEPT ![r] = "finished"]
    /\ refcnt' = [refcnt EXCEPT ![r] = @ - 1]
    /\ timeout' = [timeout EXCEPT ![r] = @ /\ refcnt[r] > 1]
    /\ payload' = [payload EXCEPT ![r] = NoPayload]
    /\ IF arrived /\ payload[r].of # NULL
       THEN /\ told' = [told EXCEPT ![payload[r].of] = @ \cup {payload[r].last}]
            /\ seen' = [seen EXCEPT ![payload[r].of] = @ \cup payload[r].messages]
       ELSE UNCHANGED <<told, seen>>
    /\ UNCHANGED <<session_vars, hybi, inflight, dead, published>>

(* External: zeromq has sent the body (request_decref).                    *)
request_decref(r) ==
    /\ inflight[r]
    /\ inflight' = [inflight EXCEPT ![r] = FALSE]
    /\ refcnt' = [refcnt EXCEPT ![r] = @ - 1]
    /\ timeout' = [timeout EXCEPT ![r] = @ /\ refcnt[r] > 1]
    /\ UNCHANGED <<session_vars, phase, hybi, payload, dead, history_vars>>

(* comet_send: a message for the session; a full queue closes it.          *)
comet_send(s) ==
    /\ alive[s] = "live"
    /\ published[s] < MaxMessages
    /\ IF QueueFull(s)
       THEN comet_close(s) /\ UNCHANGED <<dead, history_vars>>
       ELSE /\ queue' = [queue EXCEPT ![s] = Append(@, published[s] + 1)]
            /\ published' = [published EXCEPT ![s] = @ + 1]
            /\ sendlater' = [sendlater EXCEPT ![s] = @ \/ cur_request[s] # NULL]
            /\ UNCHANGED <<alive, cur_request, cur_format, cur_limit, first_index,
                           inactivity, request_vars, dead, told, seen>>

(* The backend's disconnect command.                                       *)
backend_disconnect(s) ==
    /\ alive[s] = "live"
    /\ comet_close(s)
    /\ UNCHANGED <<dead, history_vars>>
-----------------------------------------------------------------------------
Client(r) ==
    \/ \E s \in Sessions : comet_connect(r, s) \/ comet_request(r, s)
    \/ request_rejected(r)
    \/ comet_request_aborted(r)

Next ==
    /\ ~ dead
    /\ \/ \E r \in Requests : Client(r)
       \/ \E r \in Requests : polling_timeout(r) \/ request_decref(r)
       \/ \E r \in Requests, arrived \in BOOLEAN : comet_request_sent(r, arrived)
       \/ \E s \in Sessions : \/ send_later(s) \/ inactivity_timeout(s)
                             \/ comet_send(s) \/ backend_disconnect(s)

(* libev runs an idle watcher when it has nothing else to do, and a timer  *)
(* that is not stopped or restarted for good.                              *)
Fairness ==
    /\ \A s \in Sessions : /\ WF_vars(~ dead /\ send_later(s))
                           /\ WF_vars(~ dead /\ inactivity_timeout(s))
    /\ \A r \in Requests : WF_vars(~ dead /\ polling_timeout(r))

Spec == Init /\ [][Next]_vars

FairSpec == Spec /\ Fairness
-----------------------------------------------------------------------------
Payload == [of : Sessions \cup {NULL}, messages : SUBSET Nat, last : Int]

TypeOK ==
    /\ alive \in [Sessions -> {"none", "live", "closed"}]
    /\ cur_request \in [Sessions -> Requests \cup {NULL}]
    /\ cur_format \in [Sessions -> Formats]
    /\ cur_limit \in [Sessions -> 0 .. QueueLimit]
    /\ first_index \in [Sessions -> Nat]
    /\ queue \in [Sessions -> Seq(Nat)]
    /\ sendlater \in [Sessions -> BOOLEAN]
    /\ inactivity \in [Sessions -> BOOLEAN]
    /\ phase \in [Requests -> {"new", "held", "replied", "aborted", "finished"}]
    /\ hybi \in [Requests -> Sessions \cup {NULL}]
    /\ timeout \in [Requests -> BOOLEAN]
    /\ refcnt \in [Requests -> Int]
    /\ inflight \in [Requests -> BOOLEAN]
    /\ payload \in [Requests -> Payload]
    /\ dead \in BOOLEAN
    /\ published \in [Sessions -> Nat]
    /\ told \in [Sessions -> SUBSET Int]
    /\ seen \in [Sessions -> SUBSET Nat]

(* A held request and its session point at each other, and nobody else     *)
(* points at either: what the assertions of comet_request_aborted and      *)
(* polling_timeout want, and why neither touches a session that is gone.   *)
HeldLinked ==
    /\ \A r \in Requests : phase[r] = "held" =>
          hybi[r] # NULL /\ alive[hybi[r]] = "live" /\ cur_request[hybi[r]] = r
    /\ \A s \in Sessions : cur_request[s] # NULL =>
          phase[cur_request[s]] = "held" /\ hybi[cur_request[s]] = s
    /\ \A r \in Requests : timeout[r] => phase[r] = "held"

(* Each reference to a request is counted: the session that holds it, the  *)
(* body in zeromq, the HTTP connection until its finish callback (which    *)
(* keeps its reference for ever when the client hung up).  So zeromq's     *)
(* thread never frees a request that the event loop still uses.            *)
RefcntExact ==
    \A r \in Requests :
        refcnt[r] = (IF phase[r] = "finished" THEN 0 ELSE 1)
                    + (IF phase[r] = "held" THEN 1 ELSE 0)
                    + (IF inflight[r] THEN 1 ELSE 0)

(* Ids are the positions of the messages in the stream, without gaps, so   *)
(* the ids in reply headers mean the same message for ever.                *)
Numbered ==
    \A s \in Sessions : alive[s] = "live" =>
        /\ Len(queue[s]) <= QueueLimit
        /\ first_index[s] + Len(queue[s]) = published[s] + 1
        /\ \A i \in 1 .. Len(queue[s]) : queue[s][i] = first_index[s] + i - 1

(* A message leaves the queue only after the client received it, however   *)
(* replies get lost, are repeated, and requests overtake each other.       *)
Reliable ==
    \A s \in Sessions : alive[s] = "live" => 1 .. first_index[s] - 1 \subseteq seen[s]

(* A held request always has something that will answer it.                *)
HeldIsServed ==
    \A s \in Sessions :
        cur_request[s] # NULL => timeout[cur_request[s]] \/ sendlater[s]

(* A session without a held request is on its inactivity timer.            *)
IdleIsTimed ==
    \A s \in Sessions :
        alive[s] = "live" /\ cur_request[s] = NULL => inactivity[s]

(* The assertion of free_comet, and the other two.                         *)
NoAssertionFails == ~ dead

(* A held request is answered, or its client hangs up.                     *)
HeldIsAnswered == \A r \in Requests : phase[r] = "held" ~> phase[r] # "held"

(* "The number of seconds to wait before cleaning connection, if no        *)
(* request has been sent": a session whose client is gone is cleaned up.   *)
SessionsEnd == \A s \in Sessions : alive[s] = "live" ~> alive[s] = "closed"
=============================================================================
