-------------------------------- MODULE Disk --------------------------------
(***************************************************************************)
(* Static files (disk.c).  The event loop hands a request to one of the    *)
(* disk threads over an inproc zeromq socket; the thread finds, opens and  *)
(* reads the file while other programs may change it, and its answer comes *)
(* back with the request's uid.  The uid message points into the request   *)
(* and holds a reference to it, which also keeps the path alive that the   *)
(* thread reads.  SIGINT ends the event loop; release_disk then tells the  *)
(* threads to stop and joins them.                                         *)
(*                                                                         *)
(* A handler of the event loop is one action, except disk_process, which   *)
(* takes one answer per action while threads go on (draining).  A thread   *)
(* takes a step for each system call that can see the file change.  What   *)
(* is read of a path is one file and its ".gz" neighbour; a version of a   *)
(* file is the number of the write that made it.                           *)
(*                                                                         *)
(* External: the client; the programs that write the files; zeromq, which  *)
(* gives each thread's messages in order and signals the loop when the     *)
(* first answer of a thread arrives that disk_process has not looked for.  *)
(*                                                                         *)
(* Mutants: NotFed, SentNoRef, LabelOfRead, KeepsUid, EndsEarly,           *)
(* OneStopped.                                                             *)
(***************************************************************************)
EXTENDS Request

CONSTANTS
    Threads,            \* disk-io-threads, at least one
    Others,             \* requests of other routes, which share the sieve
    WritesPerSecond,    \* writes to the files that share a Last-Modified second
    MaxWrites           \* bound on the writes

(* Static requests and threads are numbered in the order in which they     *)
(* arrive and connect.                                                     *)
ASSUME ThreadsAssumption == Threads \subseteq Nat /\ Threads # {}
ASSUME RequestsAssumption == Objects \subseteq Nat /\ Others \subseteq Objects
ASSUME WritesAssumption == WritesPerSecond \in Nat \ {0} /\ MaxWrites \in Nat \ {0}

Files == {"plain", "gz"}

VARIABLES
    version,    \* the version of each file; 0 when there is none
    writes,     \* the number of the last write
    pc,         \* thread: "starting", "idle", "resolved", "reading", "failing", "done"
    inbox,      \* the thread's socket: jobs and shutdown messages
    open,       \* what the thread knows of the file it is reading
    replies,    \* answers of the thread that disk_process has not read
    wake,       \* the loop has an event for disk_process
    draining,   \* disk_process is running
    loop,       \* "running", "releasing" (release_disk sends), "joining", "ended"
    missed,     \* history: threads that release_disk did not find connected
    dead        \* an assertion failed

file_vars == <<version, writes>>

thread_vars == <<pc, inbox, open>>

loop_vars == <<draining, loop, missed, dead>>

vars == <<request_vars, file_vars, thread_vars, replies, wake, loop_vars>>

Shutdown == [of |-> NULL]

NoFile == [file |-> "plain", version |-> 0, end |-> 0]

Init ==
    /\ request_init
    /\ version = [f \in Files |-> IF f = "plain" THEN 1 ELSE 0]
    /\ writes = 1
    /\ pc = [t \in Threads |-> "starting"]
    /\ inbox = [t \in Threads |-> <<>>]
    /\ open = [t \in Threads |-> NoFile]
    /\ replies = [t \in Threads |-> <<>>]
    /\ wake = FALSE
    /\ draining = FALSE
    /\ loop = "running"
    /\ missed = {}
    /\ dead = FALSE
-----------------------------------------------------------------------------
Connected == {t \in Threads : pc[t] \notin {"starting", "done"}}

(* The Last-Modified line of a version: its time in seconds.               *)
LastModified(v) == v \div WritesPerSecond

(* What a client has cached of the file: responses it got before.          *)
Cached == {written[q][1] : q \in {q \in Requests : written[q] # <<>>
                                                   /\ written[q][1].code = "200"}}

NoCache == [label |-> -1, content |-> 0]

(* The event loop is between two handlers.                                 *)
Idle == loop = "running" /\ ~ draining

Arrives(r) ==
    /\ Idle
    /\ client[r] = "idle"
    /\ r \notin Others /\ \A q \in Requests \ Others : q < r => client[q] # "idle"

(* ev_feed_event.  zmq_send may take the socket's signal, and the mutant   *)
(* leaves it at that.                                                      *)
NotFed == wake' = FALSE

ev_feed_event == wake' = TRUE

(* The reference of the uid message.                                       *)
SentNoRef(r) == refcnt' = [refcnt EXCEPT ![r] = 1]

SentWithRef(r) == refcnt' = [refcnt EXCEPT ![r] = 2]

(* disk_request: zeromq gives the job to a connected thread.               *)
disk_request(r, t, gzipped, cached) ==
    /\ Arrives(r)
    /\ ~ sieve_full(sieve)
    /\ t \in Connected
    /\ sieve' = sieve_find_hole(sieve, r)
    /\ uid' = [uid EXCEPT ![r] = UidOf(sieve)]
    /\ in_sieve' = [in_sieve EXCEPT ![r] = TRUE]
    /\ SentWithRef(r)
    /\ client' = [client EXCEPT ![r] = "waiting"]
    /\ inbox' = [inbox EXCEPT ![t] = Append(@, [of          |-> r,
                                                gzipped     |-> gzipped,
                                                if_modified |-> cached.label,
                                                has         |-> cached.content])]
    /\ ev_feed_event
    /\ UNCHANGED <<timeout, written, file_vars, pc, open, replies, loop_vars>>

(* The table is full (do_resolve_url), or no thread has connected yet and  *)
(* zmq_send says EAGAIN.  Then the request keeps its id until it is freed. *)
disk_request_unavailable(r) ==
    /\ Arrives(r)
    /\ refcnt' = [refcnt EXCEPT ![r] = 1]
    /\ Respond(r, Static("503"))
    /\ \/ /\ sieve_full(sieve)
          /\ UNCHANGED <<sieve, uid, in_sieve, wake>>
       \/ /\ ~ sieve_full(sieve)
          /\ Connected = {}
          /\ sieve' = sieve_find_hole(sieve, r)
          /\ uid' = [uid EXCEPT ![r] = UidOf(sieve)]
          /\ in_sieve' = [in_sieve EXCEPT ![r] = TRUE]
          /\ ev_feed_event
    /\ UNCHANGED <<timeout, file_vars, thread_vars, replies, loop_vars>>

(* A request of another route takes a slot; see HttpForward for the rest.  *)
other_request(r) ==
    /\ Idle
    /\ client[r] = "idle" /\ r \in Others
    /\ ~ sieve_full(sieve)
    /\ sieve' = sieve_find_hole(sieve, r)
    /\ uid' = [uid EXCEPT ![r] = UidOf(sieve)]
    /\ in_sieve' = [in_sieve EXCEPT ![r] = TRUE]
    /\ refcnt' = [refcnt EXCEPT ![r] = 1]
    /\ client' = [client EXCEPT ![r] = "waiting"]
    /\ UNCHANGED <<timeout, written, file_vars, thread_vars, replies, wake, loop_vars>>

(* http_request_finish: the response is with the client, or the client has *)
(* hung up.                                                                *)
http_request_finish(r) ==
    /\ Idle
    /\ client[r] \in {"waiting", "answered"}
    /\ client' = [client EXCEPT ![r] = "closed"]
    /\ UNCHANGED <<uid, written, file_vars, thread_vars, replies, wake, loop_vars>>
    /\ REQ_DECREF(r)
-----------------------------------------------------------------------------
Job(t) == Head(inbox[t])

(* Answers: an error; the file is what the client has; the file itself,    *)
(* labelled with the time that fstat gave before it was read.  The mutant  *)
(* labels it after.                                                        *)
Failure(t, code) == [code |-> code, of |-> Job(t).of]

NotModified(t, v) == [code |-> "304", of |-> Job(t).of, content |-> Job(t).has, current |-> v]

LabelOfRead(t) == LastModified(version[open[t].file])

Label(t) == LastModified(open[t].version)

Content(t, v) == [code |-> "200", of |-> Job(t).of, content |-> v, label |-> Label(t)]

(* The thread sends its answer and waits for the next job.  The socket     *)
(* signals the loop unless it has an answer of this thread to read.        *)
answer(t, reply) ==
    /\ replies' = [replies EXCEPT ![t] = Append(@, reply)]
    /\ wake' = (wake \/ (replies[t] = <<>> /\ ~ draining))
    /\ inbox' = [inbox EXCEPT ![t] = Tail(@)]
    /\ pc' = [pc EXCEPT ![t] = "idle"]
    /\ open' = [open EXCEPT ![t] = NoFile]

(* disk_loop: the thread starts, ...                                       *)
connect(t) ==
    /\ pc[t] = "starting" /\ \A u \in Threads : u < t => pc[u] # "starting"
    /\ pc' = [pc EXCEPT ![t] = "idle"]
    /\ UNCHANGED <<inbox, open, replies, wake>>

(* ... takes a job, which check_base or check_path may deny, and looks for *)
(* the plain file (join_paths), ...                                        *)
resolve(t) ==
    /\ pc[t] = "idle" /\ inbox[t] # <<>> /\ Job(t) # Shutdown
    /\ \/ answer(t, Failure(t, "402"))
       \/ version["plain"] = 0 /\ answer(t, Failure(t, "404"))
       \/ /\ version["plain"] # 0
          /\ pc' = [pc EXCEPT ![t] = "resolved"]
          /\ UNCHANGED <<inbox, open, replies, wake>>

(* ... opens it (get_file), or its compressed neighbour, ...               *)
ToOpen(t) == IF Job(t).gzipped /\ version["gz"] # 0 THEN "gz" ELSE "plain"

open_file(t) ==
    LET f == ToOpen(t)
    IN  /\ pc[t] = "resolved"
        /\ IF version[f] = 0
           THEN answer(t, Failure(t, "500"))
           ELSE IF LastModified(version[f]) = Job(t).if_modified
           THEN answer(t, NotModified(t, version[f]))
           ELSE /\ open' = [open EXCEPT ![t] = [file |-> f, version |-> version[f], end |-> 0]]
                /\ pc' = [pc EXCEPT ![t] = "reading"]
                /\ UNCHANGED <<inbox, replies, wake>>

(* ... reads it: what it opened, when that is still there or was replaced  *)
(* by another file, or what was written into it since.                     *)
Readable(t) ==
    LET now == version[open[t].file]
    IN  (IF open[t].end = 0 THEN {open[t].version} ELSE {})
        \cup (IF now > open[t].end THEN {now} ELSE {})

read_file(t) ==
    /\ pc[t] = "reading"
    /\ \E v \in Readable(t) : answer(t, Content(t, v))

(* The file was written since it was opened, and since it was too short.   *)
Rewritten(t) ==
    LET now == version[open[t].file]
    IN  now > open[t].version /\ now > open[t].end

(* A file that was cut short after fstat: read returns 0, and the thread   *)
(* goes round until somebody writes to the file again.                     *)
read_short(t) ==
    /\ pc[t] = "reading"
    /\ Rewritten(t)
    /\ open' = [open EXCEPT ![t].end = version[open[t].file]]
    /\ UNCHANGED <<pc, inbox, replies, wake>>

(* EAGAIN or EINTR: the thread gives up.                                   *)
read_interrupted(t) ==
    /\ pc[t] \in {"reading", "failing"}
    /\ answer(t, Failure(t, "500"))

(* Any other error: -1 is taken for a number of bytes.  The thread goes    *)
(* round, one byte further back and with one more to read than there is;   *)
read_fails(t) ==
    /\ pc[t] = "reading"
    /\ pc' = [pc EXCEPT ![t] = "failing"]
    /\ UNCHANGED <<inbox, open, replies, wake>>

(* it gets that byte only when the file has grown, and what it sends then  *)
(* is no version of the file (it begins in front of the buffer, which is   *)
(* undefined).                                                             *)
Garbled == 0

read_garbled(t) ==
    /\ pc[t] = "failing"
    /\ Rewritten(t)
    /\ answer(t, Content(t, Garbled))

(* ... and stops when it is told to.                                       *)
stop(t) ==
    /\ pc[t] = "idle" /\ inbox[t] # <<>> /\ Job(t) = Shutdown
    /\ pc' = [pc EXCEPT ![t] = "done"]
    /\ inbox' = [inbox EXCEPT ![t] = <<>>]
    /\ UNCHANGED <<open, replies, wake>>

(* A step of a thread, and one that the system does not promise.           *)
disk_loop(t) ==
    /\ connect(t) \/ resolve(t) \/ open_file(t) \/ read_file(t) \/ stop(t)
    /\ UNCHANGED <<request_vars, file_vars, loop_vars>>

disk_error(t) ==
    /\ read_short(t) \/ read_interrupted(t) \/ read_fails(t) \/ read_garbled(t)
    /\ UNCHANGED <<request_vars, file_vars, loop_vars>>

(* External: a file is written or removed.                                 *)
write(f) ==
    /\ writes < MaxWrites
    /\ writes' = writes + 1
    /\ version' = [version EXCEPT ![f] = writes + 1]

remove(f) ==
    /\ version[f] # 0
    /\ version' = [version EXCEPT ![f] = 0]
    /\ UNCHANGED writes

disk_changes ==
    /\ \E f \in Files : write(f) \/ remove(f)
    /\ UNCHANGED <<request_vars, thread_vars, replies, wake, loop_vars>>
-----------------------------------------------------------------------------
(* disk_process starts on an event, ...                                    *)
disk_process_starts ==
    /\ Idle
    /\ wake
    /\ wake' = FALSE
    /\ draining' = TRUE
    /\ UNCHANGED <<request_vars, file_vars, thread_vars, replies, loop, missed, dead>>

(* ... makes a response of each answer, in the order of each thread, ...   *)
Response(m) ==
    CASE m.code = "402" -> Static("403")
      [] m.code = "404" -> Static("404")
      [] OTHER -> m

(* (dropping the uid message, and its reference) ...                       *)
KeepsUid(r) == UNCHANGED refcnt

DropUid(r) == refcnt' = [refcnt EXCEPT ![r] = @ - 1]

(* ... for which it asserts that the sieve has the request under the uid,  *)
(* and that the request has no body yet, ...                               *)
Expected(m) ==
    /\ sieve.items[uid[m.of].hole] = m.of
    /\ Response(m).of # NULL => \A i \in DOMAIN written[m.of] : written[m.of][i].of = NULL

disk_process(t) ==
    LET m == Head(replies[t])
    IN  /\ draining
        /\ replies[t] # <<>>
        /\ IF Expected(m)
           THEN /\ replies' = [replies EXCEPT ![t] = Tail(@)]
                /\ Respond(m.of, Response(m))
                /\ DropUid(m.of)
                /\ UNCHANGED <<uid, dead>>
                /\ request_finish(m.of, sieve)
           ELSE dead' = TRUE /\ UNCHANGED <<request_vars, replies>>
        /\ UNCHANGED <<file_vars, thread_vars, wake, draining, loop, missed>>

(* ... until there are no more.                                            *)
EndsEarly == TRUE

Drained == \A t \in Threads : replies[t] = <<>>

disk_process_ends ==
    /\ draining
    /\ Drained
    /\ draining' = FALSE
    /\ UNCHANGED <<request_vars, file_vars, thread_vars, replies, wake, loop, missed, dead>>
-----------------------------------------------------------------------------
(* The server and the sieve are gone: requests are not looked at any more. *)
sieve_free ==
    /\ sieve' = sieve_prepare
    /\ uid' = [r \in Requests |-> NoUid]
    /\ in_sieve' = [r \in Requests |-> FALSE]
    /\ timeout' = [r \in Requests |-> FALSE]
    /\ refcnt' = [r \in Requests |-> 0]
    /\ client' = [r \in Requests |-> "closed"]
    /\ written' = [r \in Requests |-> <<>>]

(* sigint_cb breaks the loop, and main goes on to release_disk, ...        *)
sigint_cb ==
    /\ Idle
    /\ loop' = "releasing"
    /\ sieve_free
    /\ UNCHANGED <<file_vars, thread_vars, replies, wake, draining, missed, dead>>

(* ... which sends shutdown messages round ...                             *)
release_sends(t) ==
    /\ loop = "releasing"
    /\ t \in Connected
    /\ \A i \in DOMAIN inbox[t] : inbox[t][i] # Shutdown
    /\ inbox' = [inbox EXCEPT ![t] = Append(@, Shutdown)]
    /\ UNCHANGED <<loop, missed>>

(* ... until no thread is connected any more, ...                          *)
OneStopped == \E t \in Threads : pc[t] = "done"

NoneConnected == Connected = {}

release_joins ==
    /\ loop = "releasing"
    /\ NoneConnected
    /\ loop' = "joining"
    /\ missed' = {t \in Threads : pc[t] = "starting"}
    /\ UNCHANGED inbox

(* ... and then joins all of them.                                         *)
release_ends ==
    /\ loop = "joining"
    /\ \A t \in Threads : pc[t] = "done"
    /\ loop' = "ended"
    /\ UNCHANGED <<inbox, missed>>

release_disk ==
    /\ (\E t \in Threads : release_sends(t)) \/ release_joins \/ release_ends
    /\ UNCHANGED <<request_vars, file_vars, pc, open, replies, wake, draining, dead>>
-----------------------------------------------------------------------------
Process ==
    \/ disk_process_starts
    \/ \E t \in Threads : disk_process(t)
    \/ disk_process_ends

Next ==
    /\ ~ dead
    /\ \/ \E r \in Requests, t \in Threads, gzipped \in BOOLEAN, cached \in Cached \cup {NoCache} :
             disk_request(r, t, gzipped, cached)
       \/ \E r \in Requests : \/ disk_request_unavailable(r) \/ other_request(r)
                              \/ http_request_finish(r)
       \/ Process
       \/ \E t \in Threads : disk_loop(t) \/ disk_error(t)
       \/ disk_changes
       \/ sigint_cb \/ release_disk

(* The threads run, and so does the event loop, which gets to an event.    *)
Fairness ==
    /\ \A t \in Threads : WF_vars(~ dead /\ disk_loop(t))
    /\ WF_vars(~ dead /\ Process)
    /\ WF_vars(~ dead /\ release_disk)

Spec == Init /\ [][Next]_vars

FairSpec == Spec /\ Fairness
-----------------------------------------------------------------------------
Reply == [code : {"402", "404", "500"}, of : Requests]
         \cup [code : {"304"}, of : Requests, content : Nat, current : Nat]
         \cup [code : {"200"}, of : Requests, content : Nat, label : Nat]

TypeOK ==
    /\ RequestTypeOK
    /\ written \in [Requests -> Seq(Reply \cup [code : {"503", "403", "404"}, of : {NULL}])]
    /\ version \in [Files -> 0 .. writes]
    /\ writes \in 1 .. MaxWrites
    /\ pc \in [Threads -> {"starting", "idle", "resolved", "reading", "failing", "done"}]
    /\ inbox \in [Threads -> Seq({Shutdown}
          \cup [of : Requests, gzipped : BOOLEAN, if_modified : Int, has : Nat])]
    /\ open \in [Threads -> [file : Files, version : Nat, end : Nat]]
    /\ replies \in [Threads -> Seq(Reply)]
    /\ wake \in BOOLEAN /\ draining \in BOOLEAN
    /\ loop \in {"running", "releasing", "joining", "ended"}
    /\ missed \subseteq Threads
    /\ dead \in BOOLEAN

(* The uid messages of r, with threads or on their way back.               *)
HasUid(messages, r) == \E i \in DOMAIN messages : messages[i].of = r

UidMessages(r) ==
    Cardinality({t \in Threads : HasUid(inbox[t], r)})
    + Cardinality({t \in Threads : HasUid(replies[t], r)})

(* The count is that of the connection and the uid message, so a thread    *)
(* never reads the path of a request that is freed (disk_request: "it's    *)
(* not save to use path from request").                                    *)
RefcntExact ==
    loop = "running" => \A r \in Requests : refcnt[r] = ConnectionRefs(r) + UidMessages(r)

(* The assertions of disk_process hold whatever clients do meanwhile.      *)
NoAssertionFails == ~ dead

(* An answer that waits is an answer that disk_process will find, though   *)
(* sends take signals away and a busy thread gives only one.               *)
NoLostWakeup ==
    loop = "running" /\ (\E t \in Threads : replies[t] # <<>>) => wake \/ draining

(* A client is told to keep what it has only when that is what the file    *)
(* has, though files change while they are read.                           *)
Fresh304 ==
    \A r \in Requests : \A i \in DOMAIN written[r] :
        written[r][i].code = "304" => written[r][i].content = written[r][i].current

(* The thread goes round: it is at the end of a file that became shorter,  *)
(* or a read failed with another error than EAGAIN and EINTR.              *)
Stuck(t) == pc[t] = "failing" \/ (pc[t] = "reading" /\ open[t].end # 0)

(* A request is answered, its client leaves, or zerogw stops; or else its  *)
(* thread is stuck.                                                        *)
EventuallyAnswered ==
    \A r \in Requests \ Others :
        client[r] = "waiting" ~> \/ client[r] # "waiting" \/ loop # "running"
                                \/ \E t \in Threads : Stuck(t) /\ HasUid(inbox[t], r)

(* SIGINT ends zerogw, unless a thread is stuck, or had not yet connected  *)
(* when release_disk stopped sending.                                      *)
StopEnds ==
    loop # "running" ~> loop = "ended" \/ missed # {} \/ \E t \in Threads : Stuck(t)
=============================================================================
