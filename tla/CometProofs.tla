---------------------------- MODULE CometProofs ----------------------------
(***************************************************************************)
(* For any number of sessions, requests and messages: a held request and   *)
(* its session always point at each other, references are counted exactly  *)
(* and messages keep their numbers, whatever clients do (but for the       *)
(* command that request_polls leaves out); when clients do not acknowledge *)
(* on POST and poll timers expire before inactivity timers, every held     *)
(* request has a timer or the idle watcher to answer it and no assertion   *)
(* of polling.c fails; and when clients acknowledge only what they were    *)
(* told, no message is lost.                                               *)
(***************************************************************************)
EXTENDS Comet, TLAPS

(* The timer, pointer and counter operations that handlers share.          *)
USE DEF AfterReply, ev_timer_again, ev_timer_stop, ev_idle_start, LetGo, PollLimit,
        QueueFull, ReportedId, LastQueued

(* A request that did not arrive yet is linked to nothing.                 *)
Untouched ==
    \A r \in Requests : phase[r] = "new" => hybi[r] = NULL /\ ~ inflight[r]

LinkInv == TypeOK /\ HeldLinked /\ RefcntExact /\ Untouched

-----------------------------------------------------------------------------
(* The process starts with no session and no request.                      *)
LEMMA InitLink == Init => LinkInv
<1> SUFFICES ASSUME Init PROVE LinkInv
  OBVIOUS
<1>1. TypeOK
  <2>1. NoPayload \in Payload
    BY DEF NoPayload, Payload
  <2>2. payload \in [Requests -> Payload]
    BY <2>1 DEF Init
  <2>3. queue \in [Sessions -> Seq(Nat)]
    BY DEF Init
  <2>4. cur_format \in [Sessions -> Formats]
    BY DEF Init, Formats
  <2>5. told \in [Sessions -> SUBSET Int] /\ seen \in [Sessions -> SUBSET Nat]
    BY DEF Init
  <2>6. /\ alive \in [Sessions -> {"none", "live", "closed"}]
        /\ cur_request \in [Sessions -> Requests \cup {NULL}]
        /\ cur_limit \in [Sessions -> 0 .. QueueLimit]
        /\ first_index \in [Sessions -> Nat]
        /\ sendlater \in [Sessions -> BOOLEAN]
        /\ inactivity \in [Sessions -> BOOLEAN]
        /\ published \in [Sessions -> Nat]
    BY LimitAssumption DEF Init
  <2>7. /\ phase \in [Requests -> {"new", "held", "replied", "aborted", "finished"}]
        /\ hybi \in [Requests -> Sessions \cup {NULL}]
        /\ timeout \in [Requests -> BOOLEAN]
        /\ refcnt \in [Requests -> Int]
        /\ inflight \in [Requests -> BOOLEAN]
    BY DEF Init
  <2>8. dead \in BOOLEAN
    BY DEF Init
  <2> QED BY <2>2, <2>3, <2>4, <2>5, <2>6, <2>7, <2>8 DEF TypeOK
<1>2. HeldLinked /\ RefcntExact /\ Untouched
  BY DEF Init, HeldLinked, RefcntExact, Untouched
<1> QED BY <1>1, <1>2 DEF LinkInv

(* Every handler leaves the state within its types.                        *)
LEMMA TypeStep == TypeOK /\ [Next]_vars => TypeOK'
<1> SUFFICES ASSUME TypeOK, [Next]_vars PROVE TypeOK'
  OBVIOUS
<1> USE DEF TypeOK
<1>q. ASSUME NEW s \in Sessions, NEW ack \in Ids, AckValid(s, ack), move_queue(s, ack)
      PROVE  queue' \in [Sessions -> Seq(Nat)] /\ first_index' \in [Sessions -> Nat]
  <2>1. Acked(s, ack) \in Nat
    BY BoundAssumption DEF Acked, Ids
  <2>2. SubSeq(queue[s], Acked(s, ack) + 1, Len(queue[s])) \in Seq(Nat)
    BY <2>1
  <2> QED BY <1>q, <2>1, <2>2 DEF move_queue
<1>r. ASSUME NEW s \in Sessions, NEW r \in Requests \cup {NULL}, Release(s, r)
      PROVE  /\ phase' \in [Requests -> {"new", "held", "replied", "aborted", "finished"}]
             /\ hybi' \in [Requests -> Sessions \cup {NULL}]
             /\ timeout' \in [Requests -> BOOLEAN]
             /\ refcnt' \in [Requests -> Int]
  BY <1>r DEF Release
<1>f. ASSUME NEW s \in Sessions, free_comet(s)
      PROVE  /\ alive' \in [Sessions -> {"none", "live", "closed"}]
             /\ cur_request' \in [Sessions -> Requests \cup {NULL}]
             /\ sendlater' \in [Sessions -> BOOLEAN]
             /\ inactivity' \in [Sessions -> BOOLEAN]
             /\ queue' \in [Sessions -> Seq(Nat)]
             /\ cur_format' = cur_format /\ cur_limit' = cur_limit
             /\ first_index' = first_index
  <2>1. <<>> \in Seq(Nat)
    OBVIOUS
  <2> QED BY <1>f, <2>1 DEF free_comet
<1>a. ASSUME Abort PROVE TypeOK'
  BY <1>a DEF Abort, session_vars, request_vars, history_vars
<1>1. ASSUME NEW r \in Requests, NEW s \in Sessions, comet_connect(r, s)
      PROVE  TypeOK'
  BY <1>1 DEF comet_connect, history_vars
<1>2. ASSUME NEW r \in Requests, NEW s \in Sessions, NEW action \in Actions,
             NEW ack \in Ids, request_closes(r, s, action, ack)
      PROVE  TypeOK'
  BY <1>2, <1>r, <1>f DEF request_closes, history_vars
<1>3. ASSUME NEW r \in Requests, NEW s \in Sessions, NEW action \in Actions,
             NEW ack \in Ids, request_refused(r, s, action, ack)
      PROVE  TypeOK'
  <2>1. queue' \in [Sessions -> Seq(Nat)] /\ first_index' \in [Sessions -> Nat]
    BY <1>3, <1>q DEF request_refused
  <2>2. CASE action = "BIDI"
    BY <1>3, <2>1, <2>2, <1>r DEF request_refused, history_vars
  <2>3. CASE action # "BIDI"
    BY <1>3, <2>1, <2>3 DEF request_refused, history_vars
  <2> QED BY <2>2, <2>3
<1>4. ASSUME NEW r \in Requests, NEW s \in Sessions, NEW ack \in Ids,
             request_posts(r, s, ack)
      PROVE  TypeOK'
  BY <1>4, <1>q DEF request_posts, history_vars
<1>c. ASSUME NEW s \in Sessions, NEW ack \in Ids, echo(s, ack)
      PROVE  /\ queue' \in [Sessions -> Seq(Nat)] /\ first_index' \in [Sessions -> Nat]
             /\ published' \in [Sessions -> Nat]
  <2> DEFINE rest == SubSeq(queue[s], Acked(s, ack) + 1, Len(queue[s]))
  <2>1. Acked(s, ack) \in Nat
    BY BoundAssumption DEF Acked, Ids
  <2>2. rest \in Seq(Nat)
    BY <2>1
  <2>3. /\ queue' = [queue EXCEPT ![s] = Append(rest, published[s] + 1)]
        /\ first_index' = [first_index EXCEPT ![s] = first_index[s] + Acked(s, ack)]
        /\ published' = [published EXCEPT ![s] = published[s] + 1]
    BY <1>c DEF echo
  <2> HIDE DEF rest
  <2>4. Append(rest, published[s] + 1) \in Seq(Nat)
    BY <2>2
  <2> QED BY <2>1, <2>3, <2>4
<1>e. ASSUME NEW r \in Requests, NEW s \in Sessions, NEW ack \in Ids,
             request_echoes(r, s, ack)
      PROVE  TypeOK'
  <2>1. CASE QueueFull(s) /\ Acked(s, ack) = 0
    BY <1>e, <2>1, <1>r, <1>f DEF request_echoes
  <2>2. CASE ~ (QueueFull(s) /\ Acked(s, ack) = 0)
    <3>5. /\ queue' \in [Sessions -> Seq(Nat)] /\ first_index' \in [Sessions -> Nat]
          /\ published' \in [Sessions -> Nat]
      BY <1>e, <2>2, <1>c DEF request_echoes
    <3>6. sendlater' \in [Sessions -> BOOLEAN]
      <4>1. sendlater' = [sendlater EXCEPT ![s] = @ \/ cur_request[s] # NULL]
        BY <1>e, <2>2 DEF request_echoes
      <4> QED BY <4>1
    <3> QED BY <1>e, <2>2, <3>5, <3>6 DEF request_echoes
  <2> QED BY <2>1, <2>2
<1>5. ASSUME NEW r \in Requests, NEW s \in Sessions, NEW body \in Bodies,
             NEW ack \in Ids, NEW outfmt \in OutFormats, NEW limit \in Limits \ {0},
             request_polls(r, s, body, ack, outfmt, limit)
      PROVE  TypeOK'
  <2>1. /\ queue' \in [Sessions -> Seq(Nat)] /\ first_index' \in [Sessions -> Nat]
        /\ published' \in [Sessions -> Nat]
    BY <1>5, <1>q, <1>c DEF request_polls
  <2>2. /\ phase' \in [Requests -> {"new", "held", "replied", "aborted", "finished"}]
        /\ hybi' \in [Requests -> Sessions \cup {NULL}]
        /\ refcnt' \in [Requests -> Int]
    BY <1>5 DEF request_polls
  <2>5. timeout' \in [Requests -> BOOLEAN] /\ inflight' \in [Requests -> BOOLEAN]
    BY <1>5 DEF request_polls
  <2>3. /\ cur_request' \in [Sessions -> Requests \cup {NULL}]
        /\ cur_format' \in [Sessions -> Formats]
        /\ cur_limit' \in [Sessions -> 0 .. QueueLimit]
        /\ inactivity' \in [Sessions -> BOOLEAN]
    <3>1. QueueLimit \in Nat \ {0} /\ limit \in Int /\ outfmt \in Formats
      BY LimitAssumption, FormatAssumption
    <3> QED BY <1>5, <3>1 DEF request_polls
  <2>4. sendlater' \in [Sessions -> BOOLEAN]
    <3>1. sendlater' = [sendlater EXCEPT ![s] = @ \/ queue'[s] # <<>>]
      BY <1>5 DEF request_polls
    <3> QED BY <3>1
  <2> QED BY <1>5, <2>1, <2>2, <2>3, <2>4, <2>5 DEF request_polls, history_vars
<1>6. ASSUME NEW r \in Requests, request_rejected(r)
      PROVE  TypeOK'
  BY <1>6 DEF request_rejected, session_vars, history_vars
<1>7. ASSUME NEW r \in Requests, comet_request_aborted(r)
      PROVE  TypeOK'
  <2>1. CASE ~ (hybi[r] # NULL /\ cur_request[hybi[r]] = r)
    BY <1>7, <2>1, <1>a DEF comet_request_aborted
  <2>2. CASE hybi[r] # NULL /\ cur_request[hybi[r]] = r
    <3>1. hybi[r] \in Sessions
      BY <2>2
    <3>4. /\ phase' = [phase EXCEPT ![r] = "aborted"]
          /\ timeout' = [timeout EXCEPT ![r] = FALSE]
          /\ refcnt' = [refcnt EXCEPT ![r] = @ - 1]
      BY <1>7, <2>2 DEF comet_request_aborted
    <3>2. /\ phase' \in [Requests -> {"new", "held", "replied", "aborted", "finished"}]
          /\ timeout' \in [Requests -> BOOLEAN]
          /\ refcnt' \in [Requests -> Int]
      BY <3>4
    <3>3. /\ cur_request' \in [Sessions -> Requests \cup {NULL}]
          /\ inactivity' \in [Sessions -> BOOLEAN]
      BY <1>7, <2>2, <3>1 DEF comet_request_aborted
    <3> QED BY <1>7, <2>2, <3>2, <3>3 DEF comet_request_aborted, history_vars
  <2> QED BY <2>1, <2>2
<1>8. ASSUME NEW r \in Requests, polling_timeout(r)
      PROVE  TypeOK'
  BY <1>8, <1>a, <1>r DEF polling_timeout, history_vars
<1>9. ASSUME NEW r \in Requests, request_decref(r)
      PROVE  TypeOK'
  BY <1>9 DEF request_decref, session_vars, history_vars
<1>10. ASSUME NEW r \in Requests, NEW arrived \in BOOLEAN, comet_request_sent(r, arrived)
       PROVE  TypeOK'
  <2>1. payload[r] \in Payload /\ payload[r].messages \subseteq Nat
        /\ payload[r].last \in Int /\ payload[r].of \in Sessions \cup {NULL}
    BY DEF Payload
  <2>2. told' \in [Sessions -> SUBSET Int] /\ seen' \in [Sessions -> SUBSET Nat]
    <3>1. CASE arrived /\ payload[r].of # NULL
      <4> DEFINE s == payload[r].of
      <4>1. s \in Sessions
        BY <2>1, <3>1
      <4>2. told[s] \cup {payload[r].last} \in SUBSET Int
        BY <2>1, <4>1
      <4>3. seen[s] \cup payload[r].messages \in SUBSET Nat
        BY <2>1, <4>1
      <4>4. /\ told' = [told EXCEPT ![s] = told[s] \cup {payload[r].last}]
            /\ seen' = [seen EXCEPT ![s] = seen[s] \cup payload[r].messages]
        BY <1>10, <3>1 DEF comet_request_sent
      <4> HIDE DEF s
      <4> QED BY <4>1, <4>2, <4>3, <4>4
    <3>2. CASE ~ (arrived /\ payload[r].of # NULL)
      BY <1>10, <3>2 DEF comet_request_sent
    <3> QED BY <3>1, <3>2
  <2>3. NoPayload \in Payload
    BY DEF NoPayload, Payload
  <2> QED BY <1>10, <2>2, <2>3 DEF comet_request_sent, session_vars
<1>11. ASSUME NEW s \in Sessions, send_later(s)
       PROVE  TypeOK'
  <2>1. CASE cur_request[s] = NULL \/ queue[s] = <<>>
    BY <1>11, <2>1 DEF send_later, request_vars, history_vars
  <2>2. CASE cur_request[s] # NULL /\ queue[s] # <<>>
    <3>1. Batch(s) \in Payload
      <4> DEFINE n == IF cur_format[s] = "single" THEN 1
                      ELSE IF Len(queue[s]) > cur_limit[s] THEN cur_limit[s] ELSE Len(queue[s])
      <4>1. (n \in Int /\ n <= Len(queue[s])) \/ n = 1
        BY LimitAssumption
      <4>2. Len(queue[s]) >= 1
        BY <2>2
      <4>3. \A i \in 1 .. n : queue[s][i] \in Nat
        BY <4>1, <4>2
      <4>4. Batch(s).messages = {queue[s][i] : i \in 1 .. n}
        BY DEF Batch
      <4> HIDE DEF n
      <4>5. {queue[s][i] : i \in 1 .. n} \subseteq Nat
        BY <4>3
      <4> QED BY <4>5 DEF Batch, Payload, n
    <3> QED BY <1>11, <2>2, <3>1, <1>r DEF send_later, history_vars
  <2> QED BY <2>1, <2>2
<1>12. ASSUME NEW s \in Sessions, inactivity_timeout(s)
       PROVE  TypeOK'
  BY <1>12, <1>a, <1>f DEF inactivity_timeout, request_vars, history_vars
<1>13. ASSUME NEW s \in Sessions, comet_send(s)
       PROVE  TypeOK'
  <2>1. CASE Len(queue[s]) >= QueueLimit
    BY <1>13, <2>1, <1>r, <1>f DEF comet_send, comet_close, history_vars
  <2>2. CASE ~ (Len(queue[s]) >= QueueLimit)
    <3>1. Append(queue[s], published[s] + 1) \in Seq(Nat)
      OBVIOUS
    <3>4. queue' = [queue EXCEPT ![s] = Append(queue[s], published[s] + 1)]
          /\ published' = [published EXCEPT ![s] = published[s] + 1]
      BY <1>13, <2>2 DEF comet_send
    <3>2. queue' \in [Sessions -> Seq(Nat)] /\ published' \in [Sessions -> Nat]
      BY <3>1, <3>4
    <3>3. sendlater' \in [Sessions -> BOOLEAN]
      <4>1. sendlater' = [sendlater EXCEPT ![s] = @ \/ cur_request[s] # NULL]
        BY <1>13, <2>2 DEF comet_send
      <4> QED BY <4>1
    <3> QED BY <1>13, <2>2, <3>2, <3>3 DEF comet_send, request_vars
  <2> QED BY <2>1, <2>2
<1>14. ASSUME NEW s \in Sessions, backend_disconnect(s)
       PROVE  TypeOK'
  BY <1>14, <1>r, <1>f DEF backend_disconnect, comet_close, history_vars
<1>15. CASE UNCHANGED vars
  BY <1>15 DEF vars, session_vars, request_vars, history_vars
<1> QED BY <1>1, <1>2, <1>3, <1>4, <1>5, <1>6, <1>7, <1>8, <1>9, <1>10, <1>11, <1>12,
           <1>13, <1>14, <1>15, <1>e DEF Next, Client, comet_request
(* The reply to the held request leaves everything linked, whatever else   *)
(* becomes of the session.                                                 *)
LEMMA ReleaseKeepsLinks ==
  ASSUME LinkInv,
         NEW s \in Sessions, NEW r \in Requests \cup {NULL},
         r = NULL \/ phase[r] = "new",
         Release(s, r),
         cur_request' = [cur_request EXCEPT ![s] = NULL],
         \A t \in Sessions \ {s} : alive'[t] = alive[t],
         inflight' = inflight
  PROVE  HeldLinked' /\ RefcntExact' /\ Untouched'
<1> USE NullAssumption DEF LinkInv
<1>1. \A q \in Requests : /\ phase'[q] = IF q = r \/ q \in Held(s) THEN "replied" ELSE phase[q]
                          /\ hybi'[q] = IF q \in Held(s) THEN NULL ELSE hybi[q]
                          /\ timeout'[q] = (timeout[q] /\ q \notin Held(s))
                          /\ refcnt'[q] = IF q \in Held(s) THEN refcnt[q] - 1 ELSE refcnt[q]
  BY DEF Release
<1>2. \A q \in Requests : q \in Held(s) <=> phase[q] = "held" /\ hybi[q] = s
  BY DEF Held, HeldLinked, TypeOK
<1>3. \A q \in Requests : q \in Held(s) => q # r
  BY <1>2
<1>4. HeldLinked'
  <2>1. ASSUME NEW q \in Requests, phase'[q] = "held"
        PROVE  hybi'[q] # NULL /\ alive'[hybi'[q]] = "live" /\ cur_request'[hybi'[q]] = q
    <3>1. phase[q] = "held" /\ q \notin Held(s) /\ hybi'[q] = hybi[q]
      BY <1>1, <2>1
    <3>2. hybi[q] \in Sessions /\ hybi[q] # s
      BY <3>1, <1>2 DEF HeldLinked, TypeOK
    <3> QED BY <3>1, <3>2 DEF HeldLinked, TypeOK
  <2>2. ASSUME NEW t \in Sessions, cur_request'[t] # NULL
        PROVE  phase'[cur_request'[t]] = "held" /\ hybi'[cur_request'[t]] = t
    <3>1. t # s /\ cur_request'[t] = cur_request[t]
      BY <2>2 DEF TypeOK
    <3>2. cur_request[t] \in Requests /\ phase[cur_request[t]] = "held" /\ hybi[cur_request[t]] = t
      BY <2>2, <3>1 DEF HeldLinked, TypeOK
    <3>3. cur_request[t] \notin Held(s) /\ cur_request[t] # r
      BY <3>1, <3>2, <1>2
    <3> QED BY <3>1, <3>2, <3>3, <1>1
  <2>3. ASSUME NEW q \in Requests, timeout'[q]
        PROVE  phase'[q] = "held"
    <3>1. timeout[q] /\ q \notin Held(s)
      BY <2>3, <1>1
    <3>2. phase[q] = "held"
      BY <3>1 DEF HeldLinked
    <3> QED BY <3>1, <3>2, <1>1
  <2> QED BY <2>1, <2>2, <2>3 DEF HeldLinked
<1>5. RefcntExact'
  <2> SUFFICES ASSUME NEW q \in Requests
               PROVE  refcnt'[q] = (IF phase'[q] = "finished" THEN 0 ELSE 1)
                                   + (IF phase'[q] = "held" THEN 1 ELSE 0)
                                   + (IF inflight'[q] THEN 1 ELSE 0)
    BY DEF RefcntExact
  <2>1. CASE q \in Held(s)
    BY <2>1, <1>1, <1>2 DEF RefcntExact, TypeOK
  <2>2. CASE q \notin Held(s)
    <3>1. refcnt'[q] = refcnt[q] /\ inflight'[q] = inflight[q]
      BY <2>2, <1>1
    <3>2. phase'[q] = "finished" <=> phase[q] = "finished"
      BY <2>2, <1>1
    <3>3. phase'[q] = "held" <=> phase[q] = "held"
      BY <2>2, <1>1
    <3> QED BY <3>1, <3>2, <3>3 DEF RefcntExact
  <2> QED BY <2>1, <2>2
<1>6. Untouched'
  BY <1>1 DEF Untouched
<1> QED BY <1>4, <1>5, <1>6

(* Every handler keeps held requests and sessions linked, and the          *)
(* references counted.                                                     *)
LEMMA LinkStep == LinkInv /\ [Next]_vars => LinkInv'
<1> SUFFICES ASSUME LinkInv, [Next]_vars PROVE HeldLinked' /\ RefcntExact' /\ Untouched'
  BY TypeStep DEF LinkInv
<1> DEFINE Links == HeldLinked' /\ RefcntExact' /\ Untouched'
<1> USE NullAssumption
<1>t. TypeOK /\ HeldLinked /\ RefcntExact /\ Untouched
  BY DEF LinkInv
<1>u. ASSUME UNCHANGED <<alive, cur_request, request_vars>> PROVE Links
  BY <1>u, <1>t DEF request_vars, HeldLinked, RefcntExact, Untouched
<1>a. ASSUME Abort PROVE Links
  BY <1>a, <1>u DEF Abort, session_vars
<1>n. ASSUME NEW r \in Requests, phase[r] = "new"
      PROVE  \A s \in Sessions : cur_request[s] # r
  BY <1>n, <1>t DEF HeldLinked, TypeOK
<1>p. ASSUME NEW r \in Requests, phase[r] = "new",
             phase' = [phase EXCEPT ![r] = "replied"],
             \A s \in Sessions : alive[s] = "live" => alive'[s] = "live",
             UNCHANGED <<cur_request, hybi, timeout>>,
             \/ UNCHANGED <<refcnt, inflight>>
             \/ /\ refcnt' = [refcnt EXCEPT ![r] = @ + 1]
                /\ inflight' = [inflight EXCEPT ![r] = TRUE]
      PROVE  Links
  <2>1. HeldLinked'
    BY <1>p, <1>t, <1>n DEF HeldLinked, TypeOK
  <2>2. RefcntExact'
    BY <1>p, <1>t DEF RefcntExact, Untouched, TypeOK
  <2>3. Untouched'
    BY <1>p, <1>t DEF Untouched, TypeOK
  <2> QED BY <2>1, <2>2, <2>3
<1> HIDE DEF Links
<1>1. ASSUME NEW r \in Requests, NEW s \in Sessions, comet_connect(r, s)
      PROVE  Links
  BY <1>1, <1>p, <1>t DEF comet_connect, TypeOK
<1>2. ASSUME NEW r \in Requests, NEW s \in Sessions, NEW action \in Actions,
             NEW ack \in Ids, request_closes(r, s, action, ack)
      PROVE  Links
  BY <1>2, <1>t, ReleaseKeepsLinks
     DEF request_closes, free_comet, Arrives, Links, TypeOK
<1>3. ASSUME NEW r \in Requests, NEW s \in Sessions, NEW action \in Actions,
             NEW ack \in Ids, request_refused(r, s, action, ack)
      PROVE  Links
  <2>1. CASE action = "BIDI"
    BY <1>3, <2>1, <1>t, ReleaseKeepsLinks DEF request_refused, Arrives, Links
  <2>2. CASE action # "BIDI"
    BY <1>3, <2>2, <1>p DEF request_refused, Arrives
  <2> QED BY <2>1, <2>2
<1>4. ASSUME NEW r \in Requests, NEW s \in Sessions, NEW ack \in Ids,
             request_posts(r, s, ack)
      PROVE  Links
  BY <1>4, <1>p DEF request_posts, Arrives
<1>e. ASSUME NEW r \in Requests, NEW s \in Sessions, NEW ack \in Ids,
             request_echoes(r, s, ack)
      PROVE  Links
  <2>1. CASE QueueFull(s) /\ Acked(s, ack) = 0
    BY <1>e, <2>1, <1>t, ReleaseKeepsLinks
       DEF request_echoes, free_comet, Arrives, Links, TypeOK
  <2>2. CASE ~ (QueueFull(s) /\ Acked(s, ack) = 0)
    BY <1>e, <2>2, <1>p DEF request_echoes, Arrives
  <2> QED BY <2>1, <2>2
<1>5. ASSUME NEW r \in Requests, NEW s \in Sessions, NEW body \in Bodies,
             NEW ack \in Ids, NEW outfmt \in OutFormats, NEW limit \in Limits \ {0},
             request_polls(r, s, body, ack, outfmt, limit)
      PROVE  Links
  <2>1. \A q \in Requests : q \in Held(s) <=> phase[q] = "held" /\ hybi[q] = s
    BY <1>t DEF Held, HeldLinked, TypeOK
  <2>2. phase[r] = "new" /\ alive[s] = "live" /\ alive' = alive
    BY <1>5 DEF request_polls, Arrives
  <2>3. /\ phase'[r] = "held" /\ hybi'[r] = s
        /\ refcnt'[r] = IF body = "message" THEN refcnt[r] + 2 ELSE refcnt[r] + 1
        /\ inflight'[r] = (body = "message")
        /\ cur_request'[s] = r
    BY <1>5, <1>t DEF request_polls, TypeOK
  <2>4. ASSUME NEW q \in Requests, q # r
        PROVE  /\ phase'[q] = IF q \in Held(s) THEN "replied" ELSE phase[q]
               /\ hybi'[q] = IF q \in Held(s) THEN NULL ELSE hybi[q]
               /\ timeout'[q] = (timeout[q] /\ q \notin Held(s))
               /\ refcnt'[q] = IF q \in Held(s) THEN refcnt[q] - 1 ELSE refcnt[q]
               /\ inflight'[q] = inflight[q]
    BY <1>5, <2>4, <1>t DEF request_polls, TypeOK
  <2>5. \A t \in Sessions \ {s} : cur_request'[t] = cur_request[t]
    BY <1>5, <1>t DEF request_polls, TypeOK
  <2>6. HeldLinked'
    <3>1. ASSUME NEW q \in Requests, phase'[q] = "held"
          PROVE  hybi'[q] # NULL /\ alive'[hybi'[q]] = "live" /\ cur_request'[hybi'[q]] = q
      <4>1. CASE q = r
        BY <4>1, <2>2, <2>3
      <4>2. CASE q # r
        <5>1. phase[q] = "held" /\ q \notin Held(s) /\ hybi'[q] = hybi[q]
          BY <3>1, <4>2, <2>4
        <5>2. hybi[q] \in Sessions \ {s}
          BY <5>1, <2>1, <1>t DEF HeldLinked, TypeOK
        <5> QED BY <5>1, <5>2, <2>2, <2>5, <1>t DEF HeldLinked
      <4> QED BY <4>1, <4>2
    <3>2. ASSUME NEW t \in Sessions, cur_request'[t] # NULL
          PROVE  phase'[cur_request'[t]] = "held" /\ hybi'[cur_request'[t]] = t
      <4>1. CASE t = s
        BY <4>1, <2>3
      <4>2. CASE t # s
        <5>1. cur_request'[t] = cur_request[t] /\ cur_request[t] \in Requests
          BY <3>2, <4>2, <2>5, <1>t DEF TypeOK
        <5>2. phase[cur_request[t]] = "held" /\ hybi[cur_request[t]] = t
          BY <3>2, <5>1, <1>t DEF HeldLinked
        <5>3. cur_request[t] # r /\ cur_request[t] \notin Held(s)
          BY <5>1, <5>2, <2>1, <2>2, <4>2
        <5> QED BY <5>1, <5>2, <5>3, <2>4
      <4> QED BY <4>1, <4>2
    <3>3. ASSUME NEW q \in Requests, timeout'[q]
          PROVE  phase'[q] = "held"
      <4>1. CASE q = r
        BY <4>1, <2>3
      <4>2. CASE q # r
        <5>1. timeout[q] /\ q \notin Held(s)
          BY <3>3, <4>2, <2>4
        <5> QED BY <5>1, <4>2, <2>4, <1>t DEF HeldLinked
      <4> QED BY <4>1, <4>2
    <3> QED BY <3>1, <3>2, <3>3 DEF HeldLinked
  <2>7. RefcntExact'
    <3> SUFFICES ASSUME NEW q \in Requests
                 PROVE  refcnt'[q] = (IF phase'[q] = "finished" THEN 0 ELSE 1)
                                     + (IF phase'[q] = "held" THEN 1 ELSE 0)
                                     + (IF inflight'[q] THEN 1 ELSE 0)
      BY DEF RefcntExact
    <3>1. CASE q = r
      <4>1. refcnt[r] = 1
        BY <2>2, <1>t DEF RefcntExact, Untouched
      <4>2. CASE body = "message"
        <5>1. inflight'[q] /\ phase'[q] = "held"
          BY <3>1, <2>3, <4>2
        <5>2. refcnt'[q] = 3
          BY <3>1, <2>3, <4>1, <4>2
        <5> QED BY <5>1, <5>2
      <4>3. CASE body # "message"
        <5>1. ~ inflight'[q] /\ phase'[q] = "held"
          BY <3>1, <2>3, <4>3
        <5>2. refcnt'[q] = 2
          BY <3>1, <2>3, <4>1, <4>3
        <5> QED BY <5>1, <5>2
      <4> QED BY <4>2, <4>3
    <3>2. CASE q # r /\ q \in Held(s)
      BY <3>2, <2>1, <2>4, <1>t DEF RefcntExact, TypeOK
    <3>3. CASE q # r /\ q \notin Held(s)
      BY <3>3, <2>4, <1>t DEF RefcntExact, TypeOK
    <3> QED BY <3>1, <3>2, <3>3
  <2>8. Untouched'
    <3> SUFFICES ASSUME NEW q \in Requests, phase'[q] = "new"
                 PROVE  hybi'[q] = NULL /\ ~ inflight'[q]
      BY DEF Untouched
    <3>1. q # r /\ phase[q] = "new"
      BY <2>3, <2>4
    <3> QED BY <3>1, <2>4, <1>t DEF Untouched
  <2> QED BY <2>6, <2>7, <2>8 DEF Links
<1>6. ASSUME NEW r \in Requests, request_rejected(r)
      PROVE  Links
  BY <1>6, <1>p DEF request_rejected, session_vars
<1>7. ASSUME NEW r \in Requests, comet_request_aborted(r)
      PROVE  Links
  <2> DEFINE s == hybi[r]
  <2>1. phase[r] = "held" /\ s \in Sessions /\ cur_request[s] = r
    BY <1>7, <1>t DEF comet_request_aborted, HeldLinked, TypeOK
  <2>2. /\ phase' = [phase EXCEPT ![r] = "aborted"]
        /\ timeout' = [timeout EXCEPT ![r] = FALSE]
        /\ refcnt' = [refcnt EXCEPT ![r] = @ - 1]
        /\ cur_request' = [cur_request EXCEPT ![s] = NULL]
        /\ UNCHANGED <<alive, hybi, inflight>>
    BY <1>7, <2>1 DEF comet_request_aborted
  <2> HIDE DEF s
  <2>3. \A t \in Sessions \ {s} : cur_request[t] # r
    BY <1>t DEF HeldLinked, s
  <2>4. HeldLinked'
    BY <2>1, <2>2, <2>3, <1>t DEF HeldLinked, TypeOK
  <2>5. RefcntExact'
    BY <2>1, <2>2, <1>t DEF RefcntExact, TypeOK
  <2>6. Untouched'
    BY <2>2, <1>t DEF Untouched, TypeOK
  <2> QED BY <2>4, <2>5, <2>6 DEF Links
<1>8. ASSUME NEW r \in Requests, polling_timeout(r)
      PROVE  Links
  <2>1. CASE ~ (hybi[r] # NULL /\ cur_request[hybi[r]] = r)
    BY <1>8, <2>1, <1>a DEF polling_timeout
  <2>2. CASE hybi[r] # NULL /\ cur_request[hybi[r]] = r
    <3>1. hybi[r] \in Sessions
      BY <2>2, <1>t DEF TypeOK
    <3> QED BY <1>8, <2>2, <3>1, <1>t, ReleaseKeepsLinks DEF polling_timeout, Links
  <2> QED BY <2>1, <2>2
<1>9. ASSUME NEW r \in Requests, request_decref(r)
      PROVE  Links
  <2>1. /\ inflight[r] /\ inflight' = [inflight EXCEPT ![r] = FALSE]
        /\ refcnt' = [refcnt EXCEPT ![r] = @ - 1]
        /\ timeout' = [timeout EXCEPT ![r] = @ /\ refcnt[r] > 1]
        /\ UNCHANGED <<alive, cur_request, phase, hybi>>
    BY <1>9 DEF request_decref, session_vars
  <2>2. HeldLinked'
    BY <2>1, <1>t DEF HeldLinked, TypeOK
  <2>3. RefcntExact'
    BY <2>1, <1>t DEF RefcntExact, TypeOK
  <2>4. Untouched'
    BY <2>1, <1>t DEF Untouched, TypeOK
  <2> QED BY <2>2, <2>3, <2>4 DEF Links
<1>10. ASSUME NEW r \in Requests, NEW arrived \in BOOLEAN, comet_request_sent(r, arrived)
       PROVE  Links
  <2>1. /\ phase[r] = "replied" /\ phase' = [phase EXCEPT ![r] = "finished"]
        /\ refcnt' = [refcnt EXCEPT ![r] = @ - 1]
        /\ timeout' = [timeout EXCEPT ![r] = @ /\ refcnt[r] > 1]
        /\ UNCHANGED <<alive, cur_request, hybi, inflight>>
    BY <1>10 DEF comet_request_sent, session_vars
  <2>2. HeldLinked'
    BY <2>1, <1>t DEF HeldLinked, TypeOK
  <2>3. RefcntExact'
    BY <2>1, <1>t DEF RefcntExact, TypeOK
  <2>4. Untouched'
    BY <2>1, <1>t DEF Untouched, TypeOK
  <2> QED BY <2>2, <2>3, <2>4 DEF Links
<1>11. ASSUME NEW s \in Sessions, send_later(s)
       PROVE  Links
  <2>1. CASE cur_request[s] = NULL \/ queue[s] = <<>>
    BY <1>11, <2>1, <1>u DEF send_later
  <2>2. CASE ~ (cur_request[s] = NULL \/ queue[s] = <<>>)
    BY <1>11, <2>2, <1>t, ReleaseKeepsLinks DEF send_later, Links
  <2> QED BY <2>1, <2>2
<1>12. ASSUME NEW s \in Sessions, inactivity_timeout(s)
       PROVE  Links
  <2>1. CASE cur_request[s] # NULL
    BY <1>12, <2>1, <1>a DEF inactivity_timeout
  <2>2. CASE cur_request[s] = NULL
    <3>1. /\ alive' = [alive EXCEPT ![s] = "closed"]
          /\ cur_request' = [cur_request EXCEPT ![s] = NULL]
          /\ UNCHANGED request_vars
      BY <1>12, <2>2 DEF inactivity_timeout, free_comet
    <3>2. \A q \in Requests : phase[q] = "held" => hybi[q] # s
      BY <2>2, <1>t DEF HeldLinked, TypeOK
    <3>3. HeldLinked'
      BY <3>1, <3>2, <2>2, <1>t DEF HeldLinked, TypeOK, request_vars
    <3>4. RefcntExact' /\ Untouched'
      BY <3>1, <1>t DEF RefcntExact, Untouched, request_vars
    <3> QED BY <3>3, <3>4 DEF Links
  <2> QED BY <2>1, <2>2
<1>13. ASSUME NEW s \in Sessions, comet_send(s)
       PROVE  Links
  <2>1. CASE Len(queue[s]) >= QueueLimit
    BY <1>13, <2>1, <1>t, ReleaseKeepsLinks
       DEF comet_send, comet_close, free_comet, Links, TypeOK
  <2>2. CASE ~ (Len(queue[s]) >= QueueLimit)
    BY <1>13, <2>2, <1>u DEF comet_send
  <2> QED BY <2>1, <2>2
<1>14. ASSUME NEW s \in Sessions, backend_disconnect(s)
       PROVE  Links
  BY <1>14, <1>t, ReleaseKeepsLinks
     DEF backend_disconnect, comet_close, free_comet, Links, TypeOK
<1>15. ASSUME UNCHANGED vars PROVE Links
  <2>1. UNCHANGED <<alive, cur_request, request_vars>>
    BY <1>15 DEF vars, session_vars
  <2> QED BY <2>1, <1>u
<1>16. Links
  BY <1>1, <1>2, <1>3, <1>4, <1>5, <1>6, <1>7, <1>8, <1>9, <1>10, <1>11, <1>12,
     <1>13, <1>14, <1>15, <1>e DEF Next, Client, comet_request
<1> QED BY <1>16 DEF Links

(* Whatever clients, backends and timers do, the inductive invariant holds. *)
THEOREM LinkInvariance == Spec => []LinkInv
BY InitLink, LinkStep, PTL DEF Spec

(* The state of polling.c stays within its types: in particular the limit  *)
(* of a batch is never negative and never above the queue's.               *)
THEOREM TypeCorrect == Spec => []TypeOK
<1>1. LinkInv => TypeOK
  BY DEF LinkInv
<1> QED BY LinkInvariance, <1>1, PTL

(* A held request and its session always point at each other, so no        *)
(* callback of polling.c runs into a session that is gone.                 *)
THEOREM HeldAreLinked == Spec => []HeldLinked
<1>1. LinkInv => HeldLinked
  BY DEF LinkInv
<1> QED BY LinkInvariance, <1>1, PTL

(* The reference count of a request is exactly the number of its users.    *)
THEOREM ReferencesAreCounted == Spec => []RefcntExact
<1>1. LinkInv => RefcntExact
  BY DEF LinkInv
<1> QED BY LinkInvariance, <1>1, PTL
-----------------------------------------------------------------------------
(* Why a held request is served: its timer runs, or the idle watcher is    *)
(* active with messages to send and the inactivity timer stopped.          *)
Served ==
    \A s \in Sessions : cur_request[s] # NULL =>
        timeout[cur_request[s]] \/ (sendlater[s] /\ queue[s] # <<>> /\ ~ inactivity[s])

ServedInv == ~ dead /\ Served

(* A step that leaves the session t and the timer of its held request      *)
(* alone keeps it served.                                                  *)
LEMMA StaysServed ==
  ASSUME Served, NEW t \in Sessions,
         cur_request'[t] = cur_request[t],
         cur_request[t] # NULL => timeout'[cur_request[t]] = timeout[cur_request[t]],
         sendlater'[t] = sendlater[t], queue'[t] = queue[t], inactivity'[t] = inactivity[t]
  PROVE  cur_request'[t] # NULL =>
            timeout'[cur_request'[t]]
            \/ (sendlater'[t] /\ queue'[t] # <<>> /\ ~ inactivity'[t])
BY DEF Served

(* Answering the held request of s does not touch the others.              *)
LEMMA ReleaseKeepsServed ==
  ASSUME LinkInv, Served,
         NEW s \in Sessions, NEW r \in Requests \cup {NULL},
         Release(s, r),
         cur_request' = [cur_request EXCEPT ![s] = NULL],
         \A t \in Sessions \ {s} : /\ sendlater'[t] = sendlater[t]
                                   /\ queue'[t] = queue[t]
                                   /\ inactivity'[t] = inactivity[t]
  PROVE  Served'
<1> SUFFICES ASSUME NEW t \in Sessions, cur_request'[t] # NULL
             PROVE  timeout'[cur_request'[t]]
                    \/ (sendlater'[t] /\ queue'[t] # <<>> /\ ~ inactivity'[t])
  BY DEF Served
<1>1. t # s /\ cur_request'[t] = cur_request[t] /\ cur_request[t] \in Requests
  BY DEF LinkInv, TypeOK
<1>2. cur_request[t] \notin Held(s)
  BY <1>1 DEF Held, LinkInv, HeldLinked
<1>3. timeout'[cur_request[t]] = (timeout[cur_request[t]] /\ cur_request[t] \notin Held(s))
  BY <1>1 DEF Release
<1>4. timeout'[cur_request[t]] = timeout[cur_request[t]]
  BY <1>1, <1>2, <1>3 DEF LinkInv, TypeOK
<1> QED BY <1>1, <1>4, StaysServed

(* Every handler leaves every held request with somebody to answer it, and *)
(* none runs into an assertion.                                            *)
LEMMA ServedStep ==
  ASSUME PollsExpireFirst, "POST" \notin AckedOn
  PROVE  LinkInv /\ ServedInv /\ [Next]_vars => ServedInv'
<1> SUFFICES ASSUME LinkInv, ServedInv, [Next]_vars PROVE ServedInv'
  OBVIOUS
<1> USE NullAssumption
<1>t. TypeOK /\ HeldLinked /\ RefcntExact /\ Served /\ ~ dead
  BY DEF LinkInv, ServedInv
<1>u. ASSUME UNCHANGED <<cur_request, timeout, sendlater, queue, inactivity, dead>>
      PROVE  ServedInv'
  BY <1>u, <1>t DEF ServedInv, Served
<1>n. \A s \in Sessions : cur_request[s] # NULL =>
         alive[s] = "live" /\ phase[cur_request[s]] = "held" /\ cur_request[s] \in Requests
  BY <1>t DEF HeldLinked, TypeOK
<1>q. ASSUME NEW s \in Sessions, move_queue(s, 0)
      PROVE  queue' = queue
  <2>1. queue' = [queue EXCEPT ![s] = SubSeq(queue[s], 1, Len(queue[s]))]
    BY <1>q DEF move_queue, Acked
  <2>2. SubSeq(queue[s], 1, Len(queue[s])) = queue[s]
    BY <1>t DEF TypeOK
  <2> QED BY <2>1, <2>2, <1>t DEF TypeOK
<1>1. ASSUME NEW r \in Requests, NEW s \in Sessions, comet_connect(r, s)
      PROVE  ServedInv'
  <2>1. cur_request[s] = NULL
    BY <1>1, <1>n DEF comet_connect
  <2>2. /\ UNCHANGED <<cur_request, timeout, sendlater, queue, dead>>
        /\ inactivity' = [inactivity EXCEPT ![s] = TRUE]
    BY <1>1 DEF comet_connect
  <2> QED BY <2>1, <2>2, <1>t DEF ServedInv, Served, TypeOK
<1>2. ASSUME NEW r \in Requests, NEW s \in Sessions, NEW action \in Actions,
             NEW ack \in Ids, request_closes(r, s, action, ack)
      PROVE  ServedInv'
  BY <1>2, <1>t, ReleaseKeepsServed
     DEF request_closes, free_comet, ServedInv, TypeOK
<1>3. ASSUME NEW r \in Requests, NEW s \in Sessions, NEW action \in Actions,
             NEW ack \in Ids, request_refused(r, s, action, ack)
      PROVE  ServedInv'
  <2>1. CASE action = "BIDI"
    BY <1>3, <2>1, <1>t, ReleaseKeepsServed DEF request_refused, move_queue, ServedInv, TypeOK
  <2>2. CASE action # "BIDI"
    <3>1. ack = 0
      BY <1>3, <2>2, FormatAssumption DEF request_refused, Arrives
    <3>2. queue' = queue
      BY <1>3, <3>1, <1>q DEF request_refused
    <3> QED BY <1>3, <2>2, <3>2, <1>u DEF request_refused
  <2> QED BY <2>1, <2>2
<1>4. ASSUME NEW r \in Requests, NEW s \in Sessions, NEW ack \in Ids,
             request_posts(r, s, ack)
      PROVE  ServedInv'
  <2>1. ack = 0
    BY <1>4 DEF request_posts, Arrives
  <2>2. queue' = queue
    BY <1>4, <2>1, <1>q DEF request_posts
  <2> QED BY <1>4, <2>2, <1>u DEF request_posts
<1>e. ASSUME NEW r \in Requests, NEW s \in Sessions, NEW ack \in Ids,
             request_echoes(r, s, ack)
      PROVE  ServedInv'
  <2>1. CASE QueueFull(s) /\ Acked(s, ack) = 0
    BY <1>e, <2>1, <1>t, ReleaseKeepsServed
       DEF request_echoes, free_comet, ServedInv, TypeOK
  <2>2. CASE ~ (QueueFull(s) /\ Acked(s, ack) = 0)
    <3> DEFINE rest == SubSeq(queue[s], Acked(s, ack) + 1, Len(queue[s]))
    <3>1. /\ queue' = [queue EXCEPT ![s] = Append(rest, published[s] + 1)]
          /\ sendlater' = [sendlater EXCEPT ![s] = @ \/ cur_request[s] # NULL]
          /\ UNCHANGED <<cur_request, inactivity, timeout, dead>>
      BY <1>e, <2>2 DEF request_echoes, echo
    <3>2. rest \in Seq(Nat)
      <4>1. Acked(s, ack) \in Nat
        BY <1>t, BoundAssumption DEF Acked, Ids, TypeOK
      <4> QED BY <4>1, <1>t DEF TypeOK
    <3> HIDE DEF rest
    <3>3. queue'[s] # <<>>
      <4>1. queue'[s] = Append(rest, published[s] + 1)
        BY <3>1, <1>t DEF TypeOK
      <4>2. Append(rest, published[s] + 1) # <<>>
        <5>1. Len(Append(rest, published[s] + 1)) = Len(rest) + 1 /\ Len(rest) \in Nat
          BY <3>2
        <5> QED BY <5>1
      <4> QED BY <4>1, <4>2
    <3>4. \A t \in Sessions \ {s} : sendlater'[t] = sendlater[t] /\ queue'[t] = queue[t]
      BY <3>1, <1>t DEF TypeOK
    <3>5. sendlater[s] => sendlater'[s]
      BY <3>1, <1>t DEF TypeOK
    <3> QED BY <3>1, <3>3, <3>4, <3>5, <1>t DEF ServedInv, Served
  <2> QED BY <2>1, <2>2
<1>5. ASSUME NEW r \in Requests, NEW s \in Sessions, NEW body \in Bodies,
             NEW ack \in Ids, NEW outfmt \in OutFormats, NEW limit \in Limits \ {0},
             request_polls(r, s, body, ack, outfmt, limit)
      PROVE  ServedInv'
  <2>1. ~ dead'
    BY <1>5, <1>t DEF request_polls
  <2>2. ASSUME NEW t \in Sessions, cur_request'[t] # NULL
        PROVE  timeout'[cur_request'[t]]
               \/ (sendlater'[t] /\ queue'[t] # <<>> /\ ~ inactivity'[t])
    <3>1. CASE t = s
      <4>1. cur_request'[t] = r /\ inactivity'[t] = FALSE
        BY <1>5, <3>1, <1>t DEF request_polls, TypeOK
      <4>2. timeout'[r] = (queue'[t] = <<>>)
        BY <1>5, <3>1 DEF request_polls
      <4>3. sendlater'[t] = (sendlater[t] \/ queue'[t] # <<>>)
        BY <1>5, <3>1, <1>t DEF request_polls, TypeOK
      <4> QED BY <4>1, <4>2, <4>3
    <3>2. CASE t # s
      <4>1. /\ cur_request'[t] = cur_request[t]
            /\ queue'[t] = queue[t]
            /\ inactivity'[t] = inactivity[t]
        BY <1>5, <3>2, <1>t DEF request_polls, move_queue, echo, TypeOK
      <4>2. sendlater'[t] = sendlater[t]
        <5>1. sendlater' = [sendlater EXCEPT ![s] = @ \/ queue'[s] # <<>>]
          BY <1>5 DEF request_polls
        <5> QED BY <5>1, <3>2, <1>t DEF TypeOK
      <4>3. cur_request[t] \in Requests /\ cur_request[t] # r /\ cur_request[t] \notin Held(s)
        BY <1>5, <2>2, <4>1, <3>2, <1>n, <1>t DEF request_polls, Arrives, Held, HeldLinked
      <4>4. timeout'[cur_request[t]] = (timeout[cur_request[t]] /\ cur_request[t] \notin Held(s))
        BY <1>5, <4>3 DEF request_polls
      <4>5. timeout'[cur_request[t]] = timeout[cur_request[t]]
        BY <4>3, <4>4, <1>t DEF TypeOK
      <4> QED BY <2>2, <4>1, <4>2, <4>5, <1>t, StaysServed
    <3> QED BY <3>1, <3>2
  <2> QED BY <2>1, <2>2 DEF ServedInv, Served
<1>6. ASSUME NEW r \in Requests, request_rejected(r)
      PROVE  ServedInv'
  BY <1>6, <1>u DEF request_rejected, session_vars
<1>7. ASSUME NEW r \in Requests, comet_request_aborted(r)
      PROVE  ServedInv'
  <2> DEFINE s == hybi[r]
  <2>1. phase[r] = "held" /\ s \in Sessions /\ cur_request[s] = r
    BY <1>7, <1>t DEF comet_request_aborted, HeldLinked, TypeOK
  <2>2. /\ timeout' = [timeout EXCEPT ![r] = FALSE]
        /\ cur_request' = [cur_request EXCEPT ![s] = NULL]
        /\ inactivity' = [inactivity EXCEPT ![s] = TRUE]
        /\ UNCHANGED <<sendlater, queue, dead>>
    BY <1>7, <2>1 DEF comet_request_aborted
  <2> HIDE DEF s
  <2>3. \A t \in Sessions \ {s} : cur_request[t] # r
    BY <1>t DEF HeldLinked, s
  <2> QED BY <2>1, <2>2, <2>3, <1>t DEF ServedInv, Served, TypeOK
<1>8. ASSUME NEW r \in Requests, polling_timeout(r)
      PROVE  ServedInv'
  <2>1. hybi[r] \in Sessions /\ cur_request[hybi[r]] = r
    BY <1>8, <1>t DEF polling_timeout, HeldLinked, TypeOK
  <2> QED BY <1>8, <2>1, <1>t, ReleaseKeepsServed DEF polling_timeout, ServedInv, TypeOK
<1>9. ASSUME NEW r \in Requests, request_decref(r)
      PROVE  ServedInv'
  <2>1. /\ inflight[r]
        /\ timeout' = [timeout EXCEPT ![r] = @ /\ refcnt[r] > 1]
        /\ UNCHANGED <<cur_request, sendlater, queue, inactivity, dead>>
    BY <1>9 DEF request_decref, session_vars
  <2>2. timeout[r] => refcnt[r] > 1
    <3>1. timeout[r] => phase[r] = "held"
      BY <1>t DEF HeldLinked
    <3> QED BY <3>1, <1>t DEF RefcntExact
  <2>3. timeout' = timeout
    BY <2>1, <2>2, <1>t DEF TypeOK
  <2> QED BY <2>1, <2>3, <1>u
<1>10. ASSUME NEW r \in Requests, NEW arrived \in BOOLEAN, comet_request_sent(r, arrived)
       PROVE  ServedInv'
  <2>1. /\ phase[r] = "replied"
        /\ timeout' = [timeout EXCEPT ![r] = @ /\ refcnt[r] > 1]
        /\ UNCHANGED <<cur_request, sendlater, queue, inactivity, dead>>
    BY <1>10 DEF comet_request_sent, session_vars
  <2>2. timeout' = timeout
    BY <2>1, <1>t DEF HeldLinked, TypeOK
  <2> QED BY <2>1, <2>2, <1>u
<1>11. ASSUME NEW s \in Sessions, send_later(s)
       PROVE  ServedInv'
  <2>1. CASE cur_request[s] = NULL \/ queue[s] = <<>>
    <3>1. /\ UNCHANGED <<cur_request, timeout, queue, dead>>
          /\ sendlater' = [sendlater EXCEPT ![s] = FALSE]
          /\ \A t \in Sessions \ {s} : inactivity'[t] = inactivity[t]
      BY <1>11, <2>1, <1>t DEF send_later, request_vars, TypeOK
    <3>2. cur_request[s] # NULL => timeout[cur_request[s]]
      BY <2>1, <1>t DEF Served
    <3> QED BY <3>1, <3>2, <1>t DEF ServedInv, Served, TypeOK
  <2>2. CASE ~ (cur_request[s] = NULL \/ queue[s] = <<>>)
    BY <1>11, <2>2, <1>t, ReleaseKeepsServed DEF send_later, ServedInv, TypeOK
  <2> QED BY <2>1, <2>2
<1>12. ASSUME NEW s \in Sessions, inactivity_timeout(s)
       PROVE  ServedInv'
  <2>1. cur_request[s] = NULL
    BY <1>12, <1>t DEF inactivity_timeout, Served
  <2>2. /\ cur_request' = [cur_request EXCEPT ![s] = NULL]
        /\ sendlater' = [sendlater EXCEPT ![s] = FALSE]
        /\ inactivity' = [inactivity EXCEPT ![s] = FALSE]
        /\ queue' = [queue EXCEPT ![s] = <<>>]
        /\ UNCHANGED <<timeout, dead>>
    BY <1>12, <2>1 DEF inactivity_timeout, free_comet, request_vars
  <2> QED BY <2>1, <2>2, <1>t DEF ServedInv, Served, TypeOK
<1>13. ASSUME NEW s \in Sessions, comet_send(s)
       PROVE  ServedInv'
  <2>1. CASE Len(queue[s]) >= QueueLimit
    BY <1>13, <2>1, <1>t, ReleaseKeepsServed
       DEF comet_send, comet_close, free_comet, ServedInv, TypeOK
  <2>2. CASE ~ (Len(queue[s]) >= QueueLimit)
    <3>1. /\ queue' = [queue EXCEPT ![s] = Append(queue[s], published[s] + 1)]
          /\ sendlater' = [sendlater EXCEPT ![s] = @ \/ cur_request[s] # NULL]
          /\ UNCHANGED <<cur_request, inactivity, timeout, dead>>
      BY <1>13, <2>2 DEF comet_send, request_vars
    <3>2. queue'[s] # <<>>
      BY <3>1, <1>t DEF TypeOK
    <3>3. \A t \in Sessions \ {s} : sendlater'[t] = sendlater[t] /\ queue'[t] = queue[t]
      BY <3>1, <1>t DEF TypeOK
    <3>4. sendlater[s] => sendlater'[s]
      BY <3>1, <1>t DEF TypeOK
    <3> QED BY <3>1, <3>2, <3>3, <3>4, <1>t DEF ServedInv, Served
  <2> QED BY <2>1, <2>2
<1>14. ASSUME NEW s \in Sessions, backend_disconnect(s)
       PROVE  ServedInv'
  BY <1>14, <1>t, ReleaseKeepsServed
     DEF backend_disconnect, comet_close, free_comet, ServedInv, TypeOK
<1>15. ASSUME UNCHANGED vars PROVE ServedInv'
  BY <1>15, <1>u DEF vars, session_vars, request_vars
<1> QED BY <1>1, <1>2, <1>3, <1>4, <1>5, <1>6, <1>7, <1>8, <1>9, <1>10, <1>11, <1>12,
           <1>13, <1>14, <1>15, <1>e DEF Next, Client, comet_request

(* When clients do not acknowledge on POST and poll timers expire first,   *)
(* the strengthened form of both properties below is invariant.            *)
THEOREM ServedInvariance ==
  ASSUME PollsExpireFirst, "POST" \notin AckedOn
  PROVE  Spec => []ServedInv
<1>1. Init => ServedInv
  BY DEF Init, ServedInv, Served
<1> QED BY <1>1, ServedStep, LinkInvariance, PTL DEF Spec

(* No assertion of polling.c fails: in particular the inactivity timer     *)
(* never frees a session that holds a request.                             *)
THEOREM AssertionsHold ==
  ASSUME PollsExpireFirst, "POST" \notin AckedOn
  PROVE  Spec => []NoAssertionFails
<1>1. ServedInv => NoAssertionFails
  BY DEF ServedInv, NoAssertionFails
<1> QED BY ServedInvariance, <1>1, PTL

(* A held request never waits for nothing.                                 *)
THEOREM HeldAreServed ==
  ASSUME PollsExpireFirst, "POST" \notin AckedOn
  PROVE  Spec => []HeldIsServed
<1>1. ServedInv => HeldIsServed
  BY DEF ServedInv, Served, HeldIsServed
<1> QED BY ServedInvariance, <1>1, PTL
-----------------------------------------------------------------------------
(* Every handler that lets go of a request restarts the inactivity timer,  *)
(* but for the refusal of infmt=jsonlist.                                  *)
LEMMA IdleStep ==
  ASSUME "BIDI" \notin RefusedOn
  PROVE  LinkInv /\ IdleIsTimed /\ [Next]_vars => IdleIsTimed'
<1> SUFFICES ASSUME LinkInv, IdleIsTimed, [Next]_vars PROVE IdleIsTimed'
  OBVIOUS
<1> USE NullAssumption
<1>t. TypeOK /\ HeldLinked
  BY DEF LinkInv
<1>u. ASSUME UNCHANGED <<alive, cur_request, inactivity>> PROVE IdleIsTimed'
  BY <1>u DEF IdleIsTimed
<1>a. ASSUME Abort PROVE IdleIsTimed'
  BY <1>a, <1>u DEF Abort, session_vars
<1>s. ASSUME NEW s \in Sessions,
             \A t \in Sessions \ {s} : /\ alive'[t] = alive[t]
                                       /\ cur_request'[t] = cur_request[t]
                                       /\ inactivity'[t] = inactivity[t],
             alive'[s] = "live" /\ cur_request'[s] = NULL => inactivity'[s]
      PROVE  IdleIsTimed'
  BY <1>s DEF IdleIsTimed
<1>f. ASSUME NEW s \in Sessions, free_comet(s) PROVE IdleIsTimed'
  BY <1>f, <1>s, <1>t DEF free_comet, TypeOK
<1>1. ASSUME NEW r \in Requests, NEW s \in Sessions, comet_connect(r, s)
      PROVE  IdleIsTimed'
  <2>1. /\ alive' = [alive EXCEPT ![s] = "live"]
        /\ inactivity' = [inactivity EXCEPT ![s] = TRUE]
        /\ cur_request' = cur_request
    BY <1>1 DEF comet_connect
  <2>2. inactivity'[s] /\ \A t \in Sessions \ {s} : inactivity'[t] = inactivity[t]
    BY <2>1, <1>t DEF TypeOK
  <2>3. \A t \in Sessions \ {s} : alive'[t] = alive[t] /\ cur_request'[t] = cur_request[t]
    BY <2>1, <1>t DEF TypeOK
  <2> QED BY <2>2, <2>3, <1>s
<1>2. ASSUME NEW r \in Requests, NEW s \in Sessions, comet_request(r, s)
      PROVE  IdleIsTimed'
  <2>1. ASSUME NEW action \in Actions, NEW ack \in Ids, request_closes(r, s, action, ack)
        PROVE  IdleIsTimed'
    BY <2>1, <1>f DEF request_closes
  <2>2. ASSUME NEW ack \in Ids, request_posts(r, s, ack)
        PROVE  IdleIsTimed'
    BY <2>2, <1>u DEF request_posts
  <2>e. ASSUME NEW ack \in Ids, request_echoes(r, s, ack)
        PROVE  IdleIsTimed'
    <3>1. CASE QueueFull(s) /\ Acked(s, ack) = 0
      BY <2>e, <3>1, <1>f DEF request_echoes
    <3>2. CASE ~ (QueueFull(s) /\ Acked(s, ack) = 0)
      BY <2>e, <3>2, <1>u DEF request_echoes
    <3> QED BY <3>1, <3>2
  <2>r. ASSUME NEW action \in Actions, NEW ack \in Ids, request_refused(r, s, action, ack)
        PROVE  IdleIsTimed'
    BY <2>r, <1>u DEF request_refused
  <2>3. ASSUME NEW body \in Bodies, NEW ack \in Ids,
               NEW outfmt \in OutFormats, NEW limit \in Limits \ {0},
               request_polls(r, s, body, ack, outfmt, limit)
        PROVE  IdleIsTimed'
    <3>1. /\ cur_request' = [cur_request EXCEPT ![s] = r]
          /\ inactivity' = [inactivity EXCEPT ![s] = FALSE]
          /\ alive' = alive
      BY <2>3 DEF request_polls
    <3> QED BY <3>1, <1>s, <1>t DEF TypeOK
  <2> QED BY <1>2, <2>1, <2>2, <2>3, <2>e, <2>r DEF comet_request
<1>3. ASSUME NEW r \in Requests, request_rejected(r)
      PROVE  IdleIsTimed'
  BY <1>3, <1>u DEF request_rejected, session_vars
<1>4. ASSUME NEW r \in Requests, comet_request_aborted(r) \/ polling_timeout(r)
      PROVE  IdleIsTimed'
  <2>1. CASE ~ (hybi[r] # NULL /\ cur_request[hybi[r]] = r)
    BY <1>4, <2>1, <1>a DEF comet_request_aborted, polling_timeout
  <2>2. CASE hybi[r] # NULL /\ cur_request[hybi[r]] = r
    <3>1. hybi[r] \in Sessions
      BY <2>2, <1>t DEF TypeOK
    <3>2. /\ cur_request' = [cur_request EXCEPT ![hybi[r]] = NULL]
          /\ inactivity' = [inactivity EXCEPT ![hybi[r]] = TRUE]
          /\ alive' = alive
      BY <1>4, <2>2 DEF comet_request_aborted, polling_timeout
    <3> DEFINE s == hybi[r]
    <3>3. inactivity'[s] /\ \A t \in Sessions \ {s} : inactivity'[t] = inactivity[t]
      BY <3>1, <3>2, <1>t DEF TypeOK
    <3>4. \A t \in Sessions \ {s} : alive'[t] = alive[t] /\ cur_request'[t] = cur_request[t]
      BY <3>2, <1>t DEF TypeOK
    <3> QED BY <3>1, <3>3, <3>4, <1>s
  <2> QED BY <2>1, <2>2
<1>5. ASSUME NEW r \in Requests, NEW arrived \in BOOLEAN,
             request_decref(r) \/ comet_request_sent(r, arrived)
      PROVE  IdleIsTimed'
  BY <1>5, <1>u DEF request_decref, comet_request_sent, session_vars
<1>6. ASSUME NEW s \in Sessions, send_later(s)
      PROVE  IdleIsTimed'
  <2>1. CASE cur_request[s] = NULL
    BY <1>6, <2>1, <1>u DEF send_later
  <2>2. CASE cur_request[s] # NULL
    <3>1. /\ inactivity' = [inactivity EXCEPT ![s] = TRUE]
          /\ cur_request' = cur_request \/ cur_request' = [cur_request EXCEPT ![s] = NULL]
          /\ alive' = alive
      BY <1>6, <2>2 DEF send_later
    <3>2. inactivity'[s] /\ \A t \in Sessions \ {s} : inactivity'[t] = inactivity[t]
      BY <3>1, <1>t DEF TypeOK
    <3>3. \A t \in Sessions \ {s} : cur_request'[t] = cur_request[t]
      BY <3>1, <1>t DEF TypeOK
    <3> QED BY <3>1, <3>2, <3>3, <1>s
  <2> QED BY <2>1, <2>2
<1>7. ASSUME NEW s \in Sessions, inactivity_timeout(s)
      PROVE  IdleIsTimed'
  BY <1>7, <1>a, <1>f DEF inactivity_timeout
<1>8. ASSUME NEW s \in Sessions, comet_send(s) \/ backend_disconnect(s)
      PROVE  IdleIsTimed'
  BY <1>8, <1>f, <1>u DEF comet_send, backend_disconnect, comet_close
<1>9. ASSUME UNCHANGED vars PROVE IdleIsTimed'
  BY <1>9, <1>u DEF vars, session_vars
<1> QED BY <1>1, <1>2, <1>3, <1>4, <1>5, <1>6, <1>7, <1>8, <1>9 DEF Next, Client

(* As long as no client uses infmt=jsonlist on BIDI, a session without a   *)
(* held request is always on its inactivity timer, so it is cleaned up.    *)
THEOREM IdleAreTimed ==
  ASSUME "BIDI" \notin RefusedOn
  PROVE  Spec => []IdleIsTimed
<1>1. Init => IdleIsTimed
  BY DEF Init, IdleIsTimed
<1> QED BY <1>1, IdleStep, LinkInvariance, PTL DEF Spec
-----------------------------------------------------------------------------
(* The numbering of a queue q that starts at id first, when the last id    *)
(* given out is last.                                                      *)
InOrder(q, first, last) ==
    /\ Len(q) <= QueueLimit
    /\ first + Len(q) = last + 1
    /\ \A i \in 1 .. Len(q) : q[i] = first + i - 1

(* A session is numbered before it is connected, too.                      *)
NumberedInv ==
    \A s \in Sessions : alive[s] # "closed" =>
        InOrder(queue[s], first_index[s], published[s])

(* Messages that leave at the head take their ids with them.               *)
LEMMA DropKeepsOrder ==
  ASSUME NEW q \in Seq(Nat), NEW first \in Nat, NEW last \in Nat, NEW k \in 0 .. Len(q),
         InOrder(q, first, last)
  PROVE  /\ SubSeq(q, k + 1, Len(q)) \in Seq(Nat)
         /\ Len(SubSeq(q, k + 1, Len(q))) = Len(q) - k
         /\ InOrder(SubSeq(q, k + 1, Len(q)), first + k, last)
<1> DEFINE rest == SubSeq(q, k + 1, Len(q))
<1>1. rest \in Seq(Nat) /\ Len(rest) = Len(q) - k
  OBVIOUS
<1>2. \A i \in 1 .. Len(rest) : rest[i] = q[k + i]
  BY <1>1
<1> HIDE DEF rest
<1>3. \A i \in 1 .. Len(rest) : rest[i] = first + k + i - 1
  <2> SUFFICES ASSUME NEW i \in 1 .. Len(rest) PROVE rest[i] = first + k + i - 1
    OBVIOUS
  <2>1. k + i \in 1 .. Len(q)
    BY <1>1
  <2> QED BY <1>2, <2>1 DEF InOrder
<1>4. InOrder(rest, first + k, last)
  <2>1. Len(q) \in Nat /\ Len(q) <= QueueLimit /\ first + Len(q) = last + 1
    BY DEF InOrder
  <2>2. Len(rest) <= QueueLimit
    BY <1>1, <2>1, LimitAssumption
  <2>3. first + k + Len(rest) = last + 1
    BY <1>1, <2>1
  <2> QED BY <1>3, <2>2, <2>3 DEF InOrder
<1> QED BY <1>1, <1>4 DEF rest

(* A message that comes last takes the next id.                            *)
LEMMA AppendKeepsOrder ==
  ASSUME NEW q \in Seq(Nat), NEW first \in Nat, NEW last \in Nat,
         InOrder(q, first, last), Len(q) < QueueLimit
  PROVE  InOrder(Append(q, last + 1), first, last + 1)
<1> DEFINE longer == Append(q, last + 1)
<1>1. /\ Len(longer) = Len(q) + 1
      /\ \A i \in 1 .. Len(q) : longer[i] = q[i]
      /\ longer[Len(q) + 1] = last + 1
  OBVIOUS
<1> HIDE DEF longer
<1>2. \A i \in 1 .. Len(longer) : longer[i] = first + i - 1
  <2> SUFFICES ASSUME NEW i \in 1 .. Len(longer) PROVE longer[i] = first + i - 1
    OBVIOUS
  <2>1. CASE i \in 1 .. Len(q)
    BY <1>1, <2>1 DEF InOrder
  <2>2. CASE i = Len(q) + 1
    BY <1>1, <2>2 DEF InOrder
  <2> QED BY <1>1, <2>1, <2>2
<1>3. InOrder(longer, first, last + 1)
  BY <1>1, <1>2, LimitAssumption DEF InOrder
<1> QED BY <1>3 DEF longer

(* Every handler keeps the queues numbered.                                *)
LEMMA NumberedStep == TypeOK /\ NumberedInv /\ [Next]_vars => NumberedInv'
<1> SUFFICES ASSUME TypeOK, NumberedInv, [Next]_vars PROVE NumberedInv'
  OBVIOUS
<1>u. ASSUME UNCHANGED <<queue, first_index, published>>,
             \A s \in Sessions : alive[s] = "closed" => alive'[s] = "closed"
      PROVE  NumberedInv'
  BY <1>u DEF NumberedInv
<1>s. ASSUME NEW s \in Sessions, NEW q, NEW first, NEW last,
             queue' = [queue EXCEPT ![s] = q],
             first_index' = [first_index EXCEPT ![s] = first],
             published' = [published EXCEPT ![s] = last],
             alive' = alive,
             alive[s] # "closed" => InOrder(q, first, last)
      PROVE  NumberedInv'
  BY <1>s DEF NumberedInv, TypeOK
<1>f. ASSUME NEW s \in Sessions, free_comet(s), published' = published
      PROVE  NumberedInv'
  BY <1>f DEF free_comet, NumberedInv, TypeOK
<1>k. ASSUME NEW s \in Sessions, NEW ack \in Ids, AckValid(s, ack), alive[s] = "live"
      PROVE  /\ Acked(s, ack) \in 0 .. Len(queue[s])
             /\ SubSeq(queue[s], Acked(s, ack) + 1, Len(queue[s])) \in Seq(Nat)
             /\ Len(SubSeq(queue[s], Acked(s, ack) + 1, Len(queue[s])))
                   = Len(queue[s]) - Acked(s, ack)
             /\ InOrder(SubSeq(queue[s], Acked(s, ack) + 1, Len(queue[s])),
                        first_index[s] + Acked(s, ack), published[s])
  <2>1. Acked(s, ack) \in 0 .. Len(queue[s])
    BY <1>k, BoundAssumption DEF Acked, AckValid, Ids, TypeOK
  <2>2. /\ queue[s] \in Seq(Nat) /\ first_index[s] \in Nat /\ published[s] \in Nat
        /\ InOrder(queue[s], first_index[s], published[s])
    BY <1>k DEF NumberedInv, TypeOK
  <2> HIDE DEF Acked
  <2> QED BY <2>1, <2>2, DropKeepsOrder
<1>m. ASSUME NEW s \in Sessions, NEW ack \in Ids, AckValid(s, ack), alive[s] = "live",
             move_queue(s, ack), UNCHANGED <<alive, published>>
      PROVE  NumberedInv'
  <2>1. /\ queue' = [queue EXCEPT ![s] = SubSeq(queue[s], Acked(s, ack) + 1, Len(queue[s]))]
        /\ first_index' = [first_index EXCEPT ![s] = first_index[s] + Acked(s, ack)]
        /\ published' = [published EXCEPT ![s] = published[s]]
    BY <1>m DEF move_queue, TypeOK
  <2> QED BY <2>1, <1>m, <1>k, <1>s
<1>e. ASSUME NEW s \in Sessions, NEW ack \in Ids, AckValid(s, ack), alive[s] = "live",
             ~ (QueueFull(s) /\ Acked(s, ack) = 0), echo(s, ack), UNCHANGED alive
      PROVE  NumberedInv'
  <2> DEFINE rest == SubSeq(queue[s], Acked(s, ack) + 1, Len(queue[s]))
  <2>1. /\ queue' = [queue EXCEPT ![s] = Append(rest, published[s] + 1)]
        /\ first_index' = [first_index EXCEPT ![s] = first_index[s] + Acked(s, ack)]
        /\ published' = [published EXCEPT ![s] = published[s] + 1]
        /\ alive' = alive
    BY <1>e DEF echo
  <2>2. /\ Acked(s, ack) \in 0 .. Len(queue[s])
        /\ rest \in Seq(Nat) /\ Len(rest) = Len(queue[s]) - Acked(s, ack)
        /\ InOrder(rest, first_index[s] + Acked(s, ack), published[s])
    BY <1>e, <1>k
  <2> HIDE DEF rest
  <2>3. Len(queue[s]) \in Nat /\ Len(queue[s]) <= QueueLimit
    BY <1>e DEF NumberedInv, InOrder, TypeOK
  <2>4. Len(rest) < QueueLimit
    BY <1>e, <2>2, <2>3, LimitAssumption
  <2>5. first_index[s] + Acked(s, ack) \in Nat /\ published[s] \in Nat
    BY <2>2 DEF TypeOK
  <2>6. InOrder(Append(rest, published[s] + 1), first_index[s] + Acked(s, ack),
                published[s] + 1)
    BY <2>2, <2>4, <2>5, AppendKeepsOrder
  <2> QED BY <2>1, <2>6, <1>s
<1>1. ASSUME NEW r \in Requests, NEW s \in Sessions, comet_connect(r, s)
      PROVE  NumberedInv'
  BY <1>1, <1>u DEF comet_connect, history_vars, TypeOK
<1>2. ASSUME NEW r \in Requests, NEW s \in Sessions, comet_request(r, s)
      PROVE  NumberedInv'
  <2>1. ASSUME NEW action \in Actions, NEW ack \in Ids, request_closes(r, s, action, ack)
        PROVE  NumberedInv'
    BY <2>1, <1>f DEF request_closes, history_vars
  <2>2. ASSUME NEW action \in Actions, NEW ack \in Ids, request_refused(r, s, action, ack)
        PROVE  NumberedInv'
    BY <2>2, <1>m DEF request_refused, Arrives, history_vars
  <2>3. ASSUME NEW ack \in Ids, request_posts(r, s, ack)
        PROVE  NumberedInv'
    BY <2>3, <1>m DEF request_posts, Arrives, history_vars
  <2>4. ASSUME NEW body \in Bodies, NEW ack \in Ids,
               NEW outfmt \in OutFormats, NEW limit \in Limits \ {0},
               request_polls(r, s, body, ack, outfmt, limit)
        PROVE  NumberedInv'
    <3>1. CASE body = "command"
      BY <2>4, <3>1, <1>e DEF request_polls, Arrives
    <3>2. CASE body # "command"
      BY <2>4, <3>2, <1>m DEF request_polls, Arrives
    <3> QED BY <3>1, <3>2
  <2>5. ASSUME NEW ack \in Ids, request_echoes(r, s, ack)
        PROVE  NumberedInv'
    <3>1. CASE QueueFull(s) /\ Acked(s, ack) = 0
      BY <2>5, <3>1, <1>f DEF request_echoes
    <3>2. CASE ~ (QueueFull(s) /\ Acked(s, ack) = 0)
      BY <2>5, <3>2, <1>e DEF request_echoes, Arrives
    <3> QED BY <3>1, <3>2
  <2> QED BY <1>2, <2>1, <2>2, <2>3, <2>4, <2>5 DEF comet_request
<1>3. ASSUME NEW r \in Requests,
             request_rejected(r) \/ comet_request_aborted(r)
             \/ polling_timeout(r) \/ request_decref(r)
      PROVE  NumberedInv'
  BY <1>3, <1>u DEF request_rejected, comet_request_aborted, polling_timeout,
     request_decref, Abort, session_vars, history_vars
<1>4. ASSUME NEW r \in Requests, NEW arrived \in BOOLEAN, comet_request_sent(r, arrived)
      PROVE  NumberedInv'
  BY <1>4, <1>u DEF comet_request_sent, session_vars
<1>5. ASSUME NEW s \in Sessions, send_later(s)
      PROVE  NumberedInv'
  BY <1>5, <1>u DEF send_later, history_vars
<1>6. ASSUME NEW s \in Sessions, inactivity_timeout(s)
      PROVE  NumberedInv'
  BY <1>6, <1>f, <1>u DEF inactivity_timeout, Abort, session_vars, history_vars
<1>7. ASSUME NEW s \in Sessions, comet_send(s)
      PROVE  NumberedInv'
  <2>1. CASE QueueFull(s)
    BY <1>7, <2>1, <1>f DEF comet_send, comet_close, history_vars
  <2>2. CASE ~ QueueFull(s)
    <3>1. /\ queue' = [queue EXCEPT ![s] = Append(queue[s], published[s] + 1)]
          /\ first_index' = [first_index EXCEPT ![s] = first_index[s]]
          /\ published' = [published EXCEPT ![s] = published[s] + 1]
          /\ alive' = alive /\ alive[s] = "live"
      BY <1>7, <2>2 DEF comet_send, TypeOK
    <3>2. /\ queue[s] \in Seq(Nat) /\ first_index[s] \in Nat /\ published[s] \in Nat
          /\ InOrder(queue[s], first_index[s], published[s]) /\ Len(queue[s]) < QueueLimit
      BY <3>1, <2>2, LimitAssumption DEF NumberedInv, TypeOK
    <3>3. InOrder(Append(queue[s], published[s] + 1), first_index[s], published[s] + 1)
      BY <3>2, AppendKeepsOrder
    <3> QED BY <3>1, <3>3, <1>s
  <2> QED BY <2>1, <2>2
<1>8. ASSUME NEW s \in Sessions, backend_disconnect(s)
      PROVE  NumberedInv'
  BY <1>8, <1>f DEF backend_disconnect, comet_close, history_vars
<1>9. ASSUME UNCHANGED vars PROVE NumberedInv'
  BY <1>9, <1>u DEF vars, session_vars, history_vars
<1> QED BY <1>1, <1>2, <1>3, <1>4, <1>5, <1>6, <1>7, <1>8, <1>9 DEF Next, Client

(* Numbered, from before a session connects.                               *)
THEOREM NumberedInvariance == Spec => []NumberedInv
<1>1. Init => NumberedInv
  BY LimitAssumption DEF Init, NumberedInv, InOrder
<1> QED BY <1>1, NumberedStep, TypeCorrect, PTL DEF Spec

(* Whatever clients acknowledge, rightly or wrongly, the messages in a     *)
(* session's queue are the last ones sent to it, with the ids of their     *)
(* positions, and never more of them than queue-limit.                     *)
THEOREM IdsAreNumbered == Spec => []Numbered
<1>1. NumberedInv => Numbered
  BY DEF NumberedInv, InOrder, Numbered
<1> QED BY <1>1, NumberedInvariance, PTL
-----------------------------------------------------------------------------
(* Every id is one up to which the client has everything: the ids it was   *)
(* told, the one in a reply on its way (with the messages of that reply),  *)
(* and those that left the queue.                                          *)
Whole ==
    /\ \A s \in Sessions : 1 .. first_index[s] - 1 \subseteq seen[s]
    /\ \A s \in Sessions : \A i \in told[s] : 1 .. i \subseteq seen[s]
    /\ \A r \in Requests : payload[r].of # NULL =>
          1 .. payload[r].last \subseteq seen[payload[r].of] \cup payload[r].messages
    /\ \A s \in Sessions : cur_format[s] = "single" \/ cur_limit[s] = QueueLimit

(* A reply carries all messages up to the id it reports.                   *)
LEMMA BatchIsWhole ==
  ASSUME TypeOK, Whole, NEW s \in Sessions, queue[s] # <<>>,
         InOrder(queue[s], first_index[s], published[s])
  PROVE  1 .. Batch(s).last \subseteq seen[s] \cup Batch(s).messages
<1> DEFINE n == IF cur_format[s] = "single" THEN 1
                ELSE IF Len(queue[s]) > cur_limit[s] THEN cur_limit[s] ELSE Len(queue[s])
<1>1. Batch(s).messages = {queue[s][i] : i \in 1 .. n} /\ Batch(s).last = ReportedId(s)
  BY DEF Batch
<1>2. /\ Len(queue[s]) \in Nat /\ Len(queue[s]) >= 1 /\ first_index[s] \in Nat
      /\ Len(queue[s]) <= QueueLimit
      /\ \A i \in 1 .. Len(queue[s]) : queue[s][i] = first_index[s] + i - 1
  BY DEF TypeOK, InOrder
<1>3. n \in 1 .. Len(queue[s]) /\ ReportedId(s) = first_index[s] + n - 1
  <2>1. CASE cur_format[s] = "single"
    BY <2>1, <1>2
  <2>2. CASE cur_format[s] # "single"
    <3>1. cur_limit[s] = QueueLimit
      BY <2>2 DEF Whole
    <3> QED BY <2>2, <3>1, <1>2, LimitAssumption
  <2> QED BY <2>1, <2>2
<1> HIDE DEF n
<1> SUFFICES ASSUME NEW j \in 1 .. ReportedId(s), j \notin seen[s]
             PROVE  j \in {queue[s][i] : i \in 1 .. n}
  BY <1>1
<1>4. j >= first_index[s]
  <2>1. j \notin 1 .. first_index[s] - 1
    BY DEF Whole
  <2> QED BY <2>1, <1>2, <1>3
<1>5. j - first_index[s] + 1 \in 1 .. n
  BY <1>2, <1>3, <1>4
<1>6. queue[s][j - first_index[s] + 1] = j
  <2> DEFINE i == j - first_index[s] + 1
  <2>0. j \in Int
    OBVIOUS
  <2>1. i \in 1 .. Len(queue[s])
    <3>1. i \in 1 .. n /\ n \in 1 .. Len(queue[s]) /\ Len(queue[s]) \in Nat
      BY <1>2, <1>3, <1>5
    <3> HIDE DEF i
    <3> QED BY <3>1
  <2>3. first_index[s] + i - 1 = j
    BY <2>0, <1>2
  <2> HIDE DEF i
  <2>2. queue[s][i] = j
    BY <1>2, <2>1, <2>3
  <2> QED BY <2>2 DEF i
<1> QED BY <1>5, <1>6

(* Every handler keeps what the client was told true of what it received.  *)
LEMMA WholeStep ==
  ASSUME HonestAcks,
         OutFormats \subseteq {"single"}
         \/ \A limit \in Limits : limit > 0 => limit >= QueueLimit
  PROVE  LinkInv /\ NumberedInv /\ Whole /\ [Next]_vars => Whole'
<1> SUFFICES ASSUME LinkInv, NumberedInv, Whole, [Next]_vars PROVE Whole'
  OBVIOUS
<1>t. TypeOK /\ HeldLinked
  BY DEF LinkInv
<1>u. ASSUME UNCHANGED <<first_index, cur_format, cur_limit, payload, told, seen>>
      PROVE  Whole'
  BY <1>u DEF Whole
<1>f. ASSUME NEW s \in Sessions, free_comet(s), UNCHANGED <<payload, told, seen>>
      PROVE  Whole'
  BY <1>f, <1>u DEF free_comet
<1>k. ASSUME NEW r \in Requests, NEW s \in Sessions, NEW action, NEW ack \in Ids,
             Arrives(r, s, action, ack), AckValid(s, ack)
      PROVE  1 .. first_index[s] + Acked(s, ack) - 1 \subseteq seen[s]
  <2>1. first_index[s] \in Nat /\ ack \in Int
    BY <1>t, BoundAssumption DEF TypeOK, Ids
  <2>2. CASE Acked(s, ack) = 0
    BY <2>1, <2>2 DEF Whole
  <2>3. CASE Acked(s, ack) # 0
    <3>1. Acked(s, ack) = ack - first_index[s] + 1 /\ ack # 0
      BY <2>3 DEF Acked
    <3>2. ack \in told[s]
      BY <1>k, <3>1 DEF Arrives
    <3>3. first_index[s] + Acked(s, ack) - 1 = ack
      BY <2>1, <3>1
    <3> QED BY <3>2, <3>3 DEF Whole
  <2> QED BY <2>2, <2>3
<1>m. ASSUME NEW r \in Requests, NEW s \in Sessions, NEW action, NEW ack \in Ids,
             Arrives(r, s, action, ack), AckValid(s, ack),
             first_index' = [first_index EXCEPT ![s] = first_index[s] + Acked(s, ack)],
             UNCHANGED <<payload, told, seen>>,
             \A t \in Sessions : cur_format'[t] = "single" \/ cur_limit'[t] = QueueLimit
      PROVE  Whole'
  <2>1. 1 .. first_index[s] + Acked(s, ack) - 1 \subseteq seen[s]
    BY <1>m, <1>k
  <2>2. \A t \in Sessions : 1 .. first_index'[t] - 1 \subseteq seen'[t]
    <3> SUFFICES ASSUME NEW t \in Sessions PROVE 1 .. first_index'[t] - 1 \subseteq seen[t]
      BY <1>m
    <3>1. CASE t = s
      <4>1. first_index'[s] = first_index[s] + Acked(s, ack)
        BY <1>m, <1>t DEF TypeOK
      <4>2. first_index'[t] - 1 = first_index[s] + Acked(s, ack) - 1
        <5>1. first_index[s] \in Int /\ Acked(s, ack) \in Int
          BY <1>t, BoundAssumption DEF TypeOK, Acked, Ids
        <5> QED BY <3>1, <4>1, <5>1
      <4> QED BY <3>1, <4>2, <2>1, Zenon
    <3>2. CASE t # s
      <4>1. first_index'[t] = first_index[t]
        BY <1>m, <3>2, <1>t DEF TypeOK
      <4>2. 1 .. first_index[t] - 1 \subseteq seen[t]
        BY DEF Whole
      <4> QED BY <4>1, <4>2
    <3> QED BY <3>1, <3>2
  <2> QED BY <1>m, <2>2 DEF Whole
<1>1. ASSUME NEW r \in Requests, NEW s \in Sessions, comet_connect(r, s)
      PROVE  Whole'
  BY <1>1, <1>u DEF comet_connect, history_vars
<1>2. ASSUME NEW r \in Requests, NEW s \in Sessions, comet_request(r, s)
      PROVE  Whole'
  <2>1. ASSUME NEW action \in Actions, NEW ack \in Ids, request_closes(r, s, action, ack)
        PROVE  Whole'
    BY <2>1, <1>f DEF request_closes, history_vars
  <2>2. ASSUME NEW action \in Actions, NEW ack \in Ids, request_refused(r, s, action, ack)
        PROVE  Whole'
    <3>1. first_index' = [first_index EXCEPT ![s] = first_index[s] + Acked(s, ack)]
      BY <2>2 DEF request_refused, move_queue
    <3>2. Arrives(r, s, action, ack) /\ AckValid(s, ack)
      BY <2>2 DEF request_refused
    <3>3. UNCHANGED <<cur_format, cur_limit, payload, told, seen>>
      BY <2>2 DEF request_refused, history_vars
    <3>4. \A t \in Sessions : cur_format'[t] = "single" \/ cur_limit'[t] = QueueLimit
      BY <3>3 DEF Whole
    <3> QED BY <3>1, <3>2, <3>3, <3>4, <1>m
  <2>3. ASSUME NEW ack \in Ids, request_posts(r, s, ack)
        PROVE  Whole'
    <3>1. first_index' = [first_index EXCEPT ![s] = first_index[s] + Acked(s, ack)]
      BY <2>3 DEF request_posts, move_queue
    <3>2. Arrives(r, s, "POST", ack) /\ AckValid(s, ack)
      BY <2>3 DEF request_posts
    <3>3. UNCHANGED <<cur_format, cur_limit, payload, told, seen>>
      BY <2>3 DEF request_posts, history_vars
    <3>4. \A t \in Sessions : cur_format'[t] = "single" \/ cur_limit'[t] = QueueLimit
      BY <3>3 DEF Whole
    <3> QED BY <3>1, <3>2, <3>3, <3>4, <1>m
  <2>4. ASSUME NEW ack \in Ids, request_echoes(r, s, ack)
        PROVE  Whole'
    <3>1. CASE QueueFull(s) /\ Acked(s, ack) = 0
      BY <2>4, <3>1, <1>f DEF request_echoes
    <3>2. CASE ~ (QueueFull(s) /\ Acked(s, ack) = 0)
      <4>1. first_index' = [first_index EXCEPT ![s] = first_index[s] + Acked(s, ack)]
        BY <2>4, <3>2 DEF request_echoes, echo
      <4>2. Arrives(r, s, "POST", ack) /\ AckValid(s, ack)
        BY <2>4 DEF request_echoes
      <4>3. UNCHANGED <<cur_format, cur_limit, payload, told, seen>>
        BY <2>4, <3>2 DEF request_echoes
      <4>4. \A t \in Sessions : cur_format'[t] = "single" \/ cur_limit'[t] = QueueLimit
        BY <4>3 DEF Whole
      <4> QED BY <4>1, <4>2, <4>3, <4>4, <1>m
    <3> QED BY <3>1, <3>2
  <2>5. ASSUME NEW body \in Bodies, NEW ack \in Ids,
               NEW outfmt \in OutFormats, NEW limit \in Limits \ {0},
               request_polls(r, s, body, ack, outfmt, limit)
        PROVE  Whole'
    <3>1. first_index' = [first_index EXCEPT ![s] = first_index[s] + Acked(s, ack)]
      BY <2>5 DEF request_polls, move_queue, echo
    <3> DEFINE action == IF body = "none" THEN "GET" ELSE "BIDI"
    <3>2. action \in Actions /\ Arrives(r, s, action, ack) /\ AckValid(s, ack)
      BY <2>5 DEF request_polls, Actions
    <3> HIDE DEF action
    <3>3. /\ cur_format' = [cur_format EXCEPT ![s] = outfmt]
          /\ cur_limit' = [cur_limit EXCEPT ![s] = PollLimit(limit)]
      BY <2>5 DEF request_polls
    <3>4. outfmt = "single" \/ PollLimit(limit) = QueueLimit
      BY LimitAssumption
    <3>5. \A t \in Sessions : cur_format'[t] = "single" \/ cur_limit'[t] = QueueLimit
      BY <3>3, <3>4, <1>t DEF Whole, TypeOK
    <3>6. UNCHANGED <<payload, told, seen>>
      BY <2>5 DEF request_polls, history_vars
    <3> QED BY <3>1, <3>2, <3>5, <3>6, <1>m
  <2> QED BY <1>2, <2>1, <2>2, <2>3, <2>4, <2>5 DEF comet_request
<1>3. ASSUME NEW r \in Requests,
             request_rejected(r) \/ comet_request_aborted(r)
             \/ polling_timeout(r) \/ request_decref(r)
      PROVE  Whole'
  BY <1>3, <1>u DEF request_rejected, comet_request_aborted, polling_timeout,
     request_decref, Abort, session_vars, request_vars, history_vars
<1>4. ASSUME NEW r \in Requests, NEW arrived \in BOOLEAN, comet_request_sent(r, arrived)
      PROVE  Whole'
  <2>1. /\ payload' = [payload EXCEPT ![r] = NoPayload]
        /\ UNCHANGED <<first_index, cur_format, cur_limit>>
    BY <1>4 DEF comet_request_sent, session_vars
  <2>2. \A q \in Requests : payload'[q].of # NULL => payload'[q] = payload[q]
    BY <2>1, <1>t DEF NoPayload, TypeOK
  <2>3. payload \in [Requests -> Payload]
    BY <1>t DEF TypeOK
  <2>4. CASE ~ (arrived /\ payload[r].of # NULL)
    <3>1. UNCHANGED <<told, seen>>
      BY <1>4, <2>4 DEF comet_request_sent
    <3> QED BY <2>1, <2>2, <3>1 DEF Whole
  <2>5. CASE arrived /\ payload[r].of # NULL
    <3> DEFINE s == payload[r].of
    <3>1. s \in Sessions
      BY <2>3, <2>5 DEF Payload
    <3>2. /\ told' = [told EXCEPT ![s] = told[s] \cup {payload[r].last}]
          /\ seen' = [seen EXCEPT ![s] = seen[s] \cup payload[r].messages]
      BY <1>4, <2>5 DEF comet_request_sent
    <3>3. 1 .. payload[r].last \subseteq seen[s] \cup payload[r].messages
      BY <2>5 DEF Whole
    <3> HIDE DEF s
    <3>4. \A t \in Sessions : seen[t] \subseteq seen'[t]
      BY <3>1, <3>2, <1>t DEF TypeOK
    <3>5. \A t \in Sessions : 1 .. first_index'[t] - 1 \subseteq seen'[t]
      BY <2>1, <3>4 DEF Whole
    <3>6. \A t \in Sessions : \A i \in told'[t] : 1 .. i \subseteq seen'[t]
      <4> SUFFICES ASSUME NEW t \in Sessions, NEW i \in told'[t]
                   PROVE  1 .. i \subseteq seen'[t]
        OBVIOUS
      <4>1. CASE i \in told[t]
        BY <4>1, <3>4 DEF Whole
      <4>2. CASE i \notin told[t]
        <5>1. t = s /\ i = payload[r].last
          BY <4>2, <3>1, <3>2, <1>t DEF TypeOK
        <5>2. seen'[s] = seen[s] \cup payload[r].messages
          BY <3>1, <3>2, <1>t DEF TypeOK
        <5> QED BY <5>1, <5>2, <3>3
      <4> QED BY <4>1, <4>2
    <3>7. \A q \in Requests : payload'[q].of # NULL =>
             1 .. payload'[q].last \subseteq seen'[payload'[q].of] \cup payload'[q].messages
      <4> SUFFICES ASSUME NEW q \in Requests, payload[q].of # NULL
                   PROVE  1 .. payload[q].last \subseteq
                             seen'[payload[q].of] \cup payload[q].messages
        BY <2>2
      <4>1. payload[q].of \in Sessions
        BY <2>3 DEF Payload
      <4> QED BY <4>1, <3>4 DEF Whole
    <3>8. \A t \in Sessions : cur_format'[t] = "single" \/ cur_limit'[t] = QueueLimit
      BY <2>1 DEF Whole
    <3> QED BY <3>5, <3>6, <3>7, <3>8 DEF Whole
  <2> QED BY <2>4, <2>5
<1>5. ASSUME NEW s \in Sessions, send_later(s)
      PROVE  Whole'
  <2>1. CASE cur_request[s] = NULL \/ queue[s] = <<>>
    BY <1>5, <2>1, <1>u DEF send_later, request_vars, history_vars
  <2>2. CASE cur_request[s] # NULL /\ queue[s] # <<>>
    <3>1. /\ payload' = [payload EXCEPT ![cur_request[s]] = Batch(s)]
          /\ UNCHANGED <<first_index, cur_format, cur_limit, told, seen>>
      BY <1>5, <2>2 DEF send_later, history_vars
    <3>2. alive[s] = "live"
      BY <2>2, <1>t, NullAssumption DEF HeldLinked, TypeOK
    <3>3. InOrder(queue[s], first_index[s], published[s])
      BY <3>2 DEF NumberedInv
    <3>4. 1 .. Batch(s).last \subseteq seen[s] \cup Batch(s).messages
      BY <2>2, <3>3, <1>t, BatchIsWhole
    <3>5. Batch(s).of = s
      BY DEF Batch
    <3>6. ASSUME NEW q \in Requests, payload'[q].of # NULL
          PROVE  1 .. payload'[q].last \subseteq seen'[payload'[q].of] \cup payload'[q].messages
      <4>1. CASE q = cur_request[s]
        <5>1. payload'[q] = Batch(s)
          BY <4>1, <3>1, <1>t DEF TypeOK
        <5> QED BY <5>1, <3>1, <3>4, <3>5
      <4>2. CASE q # cur_request[s]
        <5>1. payload'[q] = payload[q]
          BY <4>2, <3>1, <1>t DEF TypeOK
        <5> QED BY <5>1, <3>1, <3>6 DEF Whole
      <4> QED BY <4>1, <4>2
    <3> QED BY <3>1, <3>6 DEF Whole
  <2> QED BY <2>1, <2>2
<1>6. ASSUME NEW s \in Sessions, inactivity_timeout(s)
      PROVE  Whole'
  BY <1>6, <1>f, <1>u DEF inactivity_timeout, Abort, session_vars, request_vars, history_vars
<1>7. ASSUME NEW s \in Sessions, comet_send(s) \/ backend_disconnect(s)
      PROVE  Whole'
  <2>1. CASE comet_close(s) /\ UNCHANGED history_vars
    BY <2>1, <1>f DEF comet_close, history_vars
  <2>2. CASE ~ (comet_close(s) /\ UNCHANGED history_vars)
    BY <1>7, <2>2, <1>u DEF comet_send, backend_disconnect, request_vars
  <2> QED BY <2>1, <2>2
<1>8. ASSUME UNCHANGED vars PROVE Whole'
  BY <1>8, <1>u DEF vars, session_vars, request_vars, history_vars
<1> QED BY <1>1, <1>2, <1>3, <1>4, <1>5, <1>6, <1>7, <1>8 DEF Next, Client

(* When clients acknowledge only ids they were told, and either take single *)
(* messages or give no limit below queue-limit, no message leaves a queue  *)
(* before its client has received it, however replies are lost.            *)
THEOREM MessagesAreKept ==
  ASSUME HonestAcks,
         OutFormats \subseteq {"single"}
         \/ \A limit \in Limits : limit > 0 => limit >= QueueLimit
  PROVE  Spec => []Reliable
<1>1. Init => Whole
  BY DEF Init, Whole, NoPayload
<1>2. Whole => Reliable
  BY DEF Whole, Reliable
<1> QED BY <1>1, <1>2, WholeStep, LinkInvariance, NumberedInvariance, PTL DEF Spec
=============================================================================
