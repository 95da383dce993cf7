---------------------------- MODULE BackendQueue ----------------------------
(***************************************************************************)
(* The way from sessions to backends (websocket.c, msgqueue.c).  Each      *)
(* backend socket has a zeromq pipe and, behind it, a queue of zerogw's    *)
(* own for what the pipe does not take: while the server is paused, or     *)
(* when zmq_send says EAGAIN.  A queued entry keeps its session alive by a *)
(* reference count.  A session announces itself with connect, sends        *)
(* messages, and ends with a disconnect to the main socket and to every    *)
(* named output attached to it.                                            *)
(*                                                                         *)
(* Heartbeats and syncs are written to the same sockets past the queue.    *)
(*                                                                         *)
(* zerogw runs one event loop, so every handler is one action.  The pipe   *)
(* and the backend that reads it are external: a pipe takes Hwm messages,  *)
(* and its watcher is woken only when a full pipe becomes writable         *)
(* (zeromq's file descriptor is edge triggered); any zmq_send may take the *)
(* signal off the descriptor before the event loop has seen it.            *)
(***************************************************************************)
EXTENDS Integers, Sequences, FiniteSets

CONSTANTS
    Hybis,          \* sessions (hybi_t); each lives once
    Forward,        \* route->websocket.forward
    Named,          \* route->websocket.named_outputs
    Capacity,       \* max-backend-queue
    Hwm,            \* messages a zeromq pipe takes
    MaxEvents,      \* bound on connects, messages and disconnects produced
    MaxBeats        \* bound on heartbeats and syncs

ASSUME ForwardAssumption == Forward \notin Named
ASSUME NamedAssumption == IsFiniteSet(Named)
ASSUME SizesAssumption == Capacity \in Nat /\ Hwm \in Nat \ {0}
ASSUME BoundsAssumption == MaxEvents \in Nat /\ MaxBeats \in Nat

VARIABLES
    paused,         \* root.hybi.paused
    queue,          \* sock->_queue, per socket
    wake,           \* why backend_unqueue of the socket will run: an event
                    \* "fed" by resume_visitor, a "signal" of zeromq
    state,          \* of a session: "none", "live", "stopped", "freed"
    refcnt,         \* hybi->refcnt
    outputs,        \* the named outputs in hybi->outputs
    pipe,           \* what zeromq holds for the backend
    got,            \* history: what the backend read
    log,            \* history: what backend_send accepted
    events,         \* how many events the sessions produced
    beats,          \* how many heartbeats and syncs went out
    stolen          \* history: a heartbeat or sync took the signal

hvars == <<state, refcnt, outputs>>

bvars == <<beats, stolen>>

vars == <<paused, queue, wake, hvars, pipe, got, log, events, bvars>>

Socks == {Forward} \cup Named

Entry == [hybi : Hybis, kind : {"connect", "message", "disconnect"}, id : Nat]

(* What a heartbeat and a sync leave in the pipe.                          *)
Beat == [kind |-> "beat"]

OfSession(e) == e.kind # "beat"

Event(h, kind) == [hybi |-> h, kind |-> kind, id |-> events]

Init ==
    /\ paused = FALSE
    /\ queue = [k \in Socks |-> <<>>]
    /\ wake = [k \in Socks |-> {}]
    /\ state = [h \in Hybis |-> "none"]
    /\ refcnt = [h \in Hybis |-> 0]
    /\ outputs = [h \in Hybis |-> {}]
    /\ pipe = [k \in Socks |-> <<>>]
    /\ got = [k \in Socks |-> <<>>]
    /\ log = [k \in Socks |-> <<>>]
    /\ events = 0
    /\ beats = 0
    /\ stolen = [k \in Socks |-> FALSE]
-----------------------------------------------------------------------------
(* backend_send goes to the pipe only past an empty queue; zmq_send of the *)
(* first part decides for the whole message (backend_send_real).  The      *)
(* mutants forget the queue, and the pause.                                *)
Overtakes(k) == ~ paused /\ Len(pipe[k]) < Hwm

IgnoresPause(k) == queue[k] = <<>> /\ Len(pipe[k]) < Hwm

GoesOut(k) == ~ paused /\ queue[k] = <<>> /\ Len(pipe[k]) < Hwm

(* Otherwise the message is queued.  "force" takes queue_push, which has   *)
(* the limit, and its absence queue_force_push, which has none.            *)
HasRoom(k, force) == force => Len(queue[k]) < Capacity

Queued(S, force) == {k \in S : ~ GoesOut(k) /\ HasRoom(k, force)}

(* backend_send of the event e to every socket of S.                       *)
backend_send(S, e, force) ==
    /\ pipe' = [k \in Socks |-> IF k \in S /\ GoesOut(k)
                                THEN Append(pipe[k], e) ELSE pipe[k]]
    /\ queue' = [k \in Socks |-> IF k \in Queued(S, force)
                                 THEN Append(queue[k], e) ELSE queue[k]]
    /\ log' = [k \in Socks |-> IF k \in S /\ (GoesOut(k) \/ HasRoom(k, force))
                               THEN Append(log[k], e) ELSE log[k]]
    /\ events' = events + 1

(* Sessions are numbered in the order in which they start.                 *)
NewHybi == CHOOSE h \in Hybis : state[h] = "none"

(* hybi_start: connect must be on its way before the session exists.       *)
hybi_start(h) ==
    /\ state[h] = "none" /\ h = NewHybi
    /\ events < MaxEvents
    /\ backend_send({Forward}, Event(h, "connect"), FALSE)
    /\ state' = [state EXCEPT ![h] = "live"]
    /\ refcnt' = [refcnt EXCEPT
                    ![h] = 1 + Cardinality(Queued({Forward}, FALSE))]
    /\ UNCHANGED <<paused, wake, outputs, got, bvars>>

(* websock_message and comet's send_message, to the socket that            *)
(* websock_resolve picks: the output whose prefix matches, or Forward.     *)
(* The mutant serves sessions that are not started, or stopped.            *)
MessageUnguarded(h) ==
    /\ events < MaxEvents
    /\ \E k \in {Forward} \cup outputs[h] :
         /\ backend_send({k}, Event(h, "message"), FALSE)
         /\ refcnt' = [refcnt EXCEPT ![h] = @ + Cardinality(Queued({k}, FALSE))]
    /\ UNCHANGED <<paused, wake, state, outputs, got, bvars>>

websock_message(h) ==
    /\ state[h] = "live"
    /\ events < MaxEvents
    /\ \E k \in {Forward} \cup outputs[h] :
         /\ backend_send({k}, Event(h, "message"), FALSE)
         /\ refcnt' = [refcnt EXCEPT ![h] = @ + Cardinality(Queued({k}, FALSE))]
    /\ UNCHANGED <<paused, wake, state, outputs, got, bvars>>

(* The effect of add_output and del_output on the set of sockets: mapping  *)
(* a prefix adds a socket, and takes the prefix away from the socket that  *)
(* had it; unmapping the last prefix of a socket removes the socket.  The  *)
(* mutant maps to the main socket too.                                     *)
AddMain(h) ==
    /\ state[h] = "live"
    /\ outputs' = [outputs EXCEPT ![h] = @ \cup {Forward}]
    /\ UNCHANGED <<paused, queue, wake, state, refcnt, pipe, got, log, events, bvars>>

add_output(h) ==
    /\ state[h] = "live"
    /\ \E k \in Named, S \in {outputs[h] \ {j} : j \in Socks} :
         outputs' = [outputs EXCEPT ![h] = S \cup {k}]
    /\ UNCHANGED <<paused, queue, wake, state, refcnt, pipe, got, log, events, bvars>>

del_output(h) ==
    /\ state[h] = "live"
    /\ \E k \in outputs[h] : outputs' = [outputs EXCEPT ![h] = @ \ {k}]
    /\ UNCHANGED <<paused, queue, wake, state, refcnt, pipe, got, log, events, bvars>>

(* hybi_stop: disconnect goes out with "force"; whether it was accepted is *)
(* not looked at.  The session is freed when no queue refers to it.        *)
hybi_stop(h) ==
    LET S == {Forward} \cup outputs[h]
        n == refcnt[h] + Cardinality(Queued(S, TRUE)) - 1
    IN  /\ state[h] = "live"
        /\ events < MaxEvents
        /\ backend_send(S, Event(h, "disconnect"), TRUE)
        /\ refcnt' = [refcnt EXCEPT ![h] = n]
        /\ state' = [state EXCEPT ![h] = IF n <= 0 THEN "freed" ELSE "stopped"]
        /\ outputs' = [outputs EXCEPT ![h] = {}]
        /\ UNCHANGED <<paused, wake, got, bvars>>

(* How many entries backend_unqueue can move before zmq_send says EAGAIN.  *)
Movable(k) ==
    LET room == Hwm - Len(pipe[k])
    IN  IF paused THEN 0
        ELSE IF Len(queue[k]) <= room THEN Len(queue[k]) ELSE room

Moved(k, h) == {i \in 1 .. Movable(k) : queue[k][i].hybi = h}

(* The watcher of socket k; each entry moved drops its reference, which    *)
(* the mutant forgets.                                                     *)
UnqueueKeepsRef(k) ==
    /\ wake[k] # {}
    /\ wake' = [wake EXCEPT ![k] = {}]
    /\ pipe' = [pipe EXCEPT ![k] = @ \o SubSeq(queue[k], 1, Movable(k))]
    /\ queue' = [queue EXCEPT ![k] = SubSeq(@, Movable(k) + 1, Len(@))]
    /\ UNCHANGED <<paused, hvars, got, log, events, bvars>>

backend_unqueue(k) ==
    /\ wake[k] # {}
    /\ wake' = [wake EXCEPT ![k] = {}]
    /\ pipe' = [pipe EXCEPT ![k] = @ \o SubSeq(queue[k], 1, Movable(k))]
    /\ queue' = [queue EXCEPT ![k] = SubSeq(@, Movable(k) + 1, Len(@))]
    /\ refcnt' = [h \in Hybis |-> refcnt[h] - Cardinality(Moved(k, h))]
    /\ state' = [h \in Hybis |-> IF Moved(k, h) # {} /\ refcnt'[h] <= 0
                                 THEN "freed" ELSE state[h]]
    /\ UNCHANGED <<paused, outputs, got, log, events, bvars>>

(* pause_websockets; resuming feeds an event to every backend socket,      *)
(* which the mutant does not.                                              *)
pause ==
    /\ ~ paused
    /\ paused' = TRUE
    /\ UNCHANGED <<queue, wake, hvars, pipe, got, log, events, bvars>>

ResumeSilently ==
    /\ paused
    /\ paused' = FALSE
    /\ UNCHANGED <<queue, wake, hvars, pipe, got, log, events, bvars>>

resume ==
    /\ paused
    /\ paused' = FALSE
    /\ wake' = [k \in Socks |-> wake[k] \cup {"fed"}]
    /\ stolen' = [k \in Socks |-> FALSE]
    /\ UNCHANGED <<queue, hvars, pipe, got, log, events, beats>>

(* heartbeat of the main socket, send_sync of a named one that sessions    *)
(* are attached to: not queued and not stopped by a pause, and given up    *)
(* when the pipe is full.                                                  *)
beat(k) ==
    /\ beats < MaxBeats
    /\ k = Forward \/ \E h \in Hybis : k \in outputs[h]
    /\ beats' = beats + 1
    /\ pipe' = [pipe EXCEPT ![k] = IF Len(@) < Hwm THEN Append(@, Beat) ELSE @]
    /\ \E w \in {wake[k], wake[k] \ {"signal"}} :
         /\ wake' = [wake EXCEPT ![k] = w]
         /\ stolen' = [stolen EXCEPT ![k] = @ \/ (w = {} /\ wake[k] # {})]
    /\ UNCHANGED <<paused, queue, hvars, got, log, events>>

(* External: the backend reads a message; a full pipe becomes writable and *)
(* zeromq signals it.                                                      *)
backend_reads(k) ==
    /\ pipe[k] # <<>>
    /\ got' = [got EXCEPT ![k] = IF OfSession(Head(pipe[k]))
                                 THEN Append(@, Head(pipe[k])) ELSE @]
    /\ pipe' = [pipe EXCEPT ![k] = Tail(@)]
    /\ IF Len(pipe[k]) = Hwm
       THEN /\ wake' = [wake EXCEPT ![k] = @ \cup {"signal"}]
            /\ stolen' = [stolen EXCEPT ![k] = FALSE]
       ELSE UNCHANGED <<wake, stolen>>
    /\ UNCHANGED <<paused, queue, hvars, log, events, beats>>

Session(h) ==
    \/ hybi_start(h) \/ websock_message(h) \/ hybi_stop(h)
    \/ add_output(h) \/ del_output(h)

Next ==
    \/ \E h \in Hybis : Session(h)
    \/ \E k \in Socks : backend_unqueue(k) \/ backend_reads(k) \/ beat(k)
    \/ pause
    \/ resume

(* The event loop serves a pending event, and a backend that is up reads.  *)
Fairness == \A k \in Socks : WF_vars(backend_unqueue(k)) /\ WF_vars(backend_reads(k))

Spec == Init /\ [][Next]_vars

FairSpec == Spec /\ Fairness
-----------------------------------------------------------------------------
TypeOK ==
    /\ paused \in BOOLEAN
    /\ queue \in [Socks -> Seq(Entry)]
    /\ wake \in [Socks -> SUBSET {"fed", "signal"}]
    /\ state \in [Hybis -> {"none", "live", "stopped", "freed"}]
    /\ refcnt \in [Hybis -> Int]
    /\ outputs \in [Hybis -> SUBSET Named]
    /\ pipe \in [Socks -> Seq(Entry \cup {Beat})]
    /\ got \in [Socks -> Seq(Entry)]
    /\ log \in [Socks -> Seq(Entry)]
    /\ events \in Nat /\ beats \in Nat
    /\ stolen \in [Socks -> BOOLEAN]

References(q, h) ==
    UNION {{<<k, i>> : i \in {j \in 1 .. Len(q[k]) : q[k][j].hybi = h}} : k \in Socks}

(* backend_send_real reads uid, flags and cookie of the session when the   *)
(* entry finally goes out, perhaps long after the client left: the session *)
(* must not be freed while any queue names it, and must be freed then.     *)
RefcntExact ==
    \A h \in Hybis :
        /\ refcnt[h] = Cardinality(References(queue, h)) + (IF state[h] = "live" THEN 1 ELSE 0)
        /\ state[h] = "freed" => References(queue, h) = {}
        /\ state[h] = "stopped" => References(queue, h) # {}

(* The session entries of a sequence, and that they are in the order in    *)
(* which the sessions produced them: ids number the events.                *)
Entries(s) == {s[i] : i \in {j \in 1 .. Len(s) : OfSession(s[j])}}

InOrder(s) ==
    \A i, j \in 1 .. Len(s) :
        i < j /\ OfSession(s[i]) /\ OfSession(s[j]) => s[i].id < s[j].id

(* Pausing, resuming, full pipes, heartbeats in between and the switch     *)
(* between sending at once and queueing never lose, repeat or reorder what *)
(* a socket accepted: what was read, what zeromq holds and what is queued  *)
(* are, one after the other, the log.                                      *)
Fifo ==
    \A k \in Socks :
        LET whole == got[k] \o pipe[k] \o queue[k]
        IN  /\ Entries(whole) = Entries(log[k])
            /\ InOrder(whole) /\ InOrder(log[k])

(* What the main backend reads of a session: connect first, and nothing    *)
(* after disconnect.                                                       *)
SessionProtocol ==
    \A i \in 1 .. Len(got[Forward]) :
        LET e == got[Forward][i]
            earlier == {got[Forward][j] : j \in 1 .. i - 1}
            of_h == {d \in earlier : d.hybi = e.hybi}
        IN  /\ e.kind = "connect" <=> of_h = {}
            /\ \A d \in of_h : d.kind # "disconnect"

(* A queue of a running server never waits for nothing: its watcher has an *)
(* event pending, or the pipe is full and will signal when it is read; or  *)
(* a heartbeat or sync took the signal, the one way to lose it.            *)
NoLostWakeup ==
    \A k \in Socks : ~ paused /\ queue[k] # <<>> =>
        wake[k] # {} \/ Len(pipe[k]) = Hwm \/ stolen[k]

(* A paused server hands nothing of a session to zeromq, whatever events   *)
(* arrive.                                                                 *)
PausedIsSilent ==
    [][paused => \A k \in Socks : Entries(pipe[k])' \subseteq Entries(pipe[k])]_vars

(* Once the server stays resumed, the backends get all that was accepted,  *)
(* but for a socket whose last signal was taken.                           *)
EventuallyDelivered ==
    <>[](~ paused) => <>[](\A k \in Socks : got[k] = log[k] \/ stolen[k])

(* max-backend-queue: "Maximum number of messages outstanding in the queue *)
(* to backend ... Also it works when server was paused by user."           *)
QueueBounded == \A k \in Socks : Len(queue[k]) <= Capacity
=============================================================================
