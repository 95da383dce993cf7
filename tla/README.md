# A verification project for zerogw

zerogw is a gateway between HTTP/websocket clients and zeromq backends. It is a
single event loop (libev) around an HTTP library (libwebsite) and zeromq, plus a few
disk threads and zeromq's own I/O thread. This directory has TLA+ models of the parts
that carry its logic, the TLC configurations that check them on small instances, and
TLAPS proofs, for every size, of all the safety properties the passing runs check.

Source paths below are relative to the repository's `src/` directory.

## 1. The system

| Part | State | Operations | Talks to |
|---|---|---|---|
| Sieve and ids (`sieve.c`, `uidgen.c`) | table of slots, search offset, counter `filled`, `index` | register, withdraw, look up | everybody: requests and sessions are found by id only |
| HTTP forwarding (`http.c`, `request.c`) | per request: uid, flags, timer, retries, reference count | `http_request`, `do_forward`, `request_timeout`, `http_process`, finish callback | sieve, zeromq (zero-copy messages that point into the request), HTTP connection |
| Sessions and backend queues (`websocket.c`, `msgqueue.c`) | `paused`, a queue per backend socket, reference count per session | `hybi_start`, `websock_message`, `hybi_stop`, `backend_send`, `backend_unqueue`, pause/resume | zeromq pipes with an edge-triggered descriptor |
| Long polling (`polling.c`) | per session: held request, format, limit, queue, first index, idle watcher, inactivity timer | `comet_connect`, `comet_request` (GET, POST, BIDI, CLOSE), `send_later`, two timers, `comet_send`, `comet_close`, finish callbacks | requests (pointers both ways), backend queue, topics |
| Topics (`websocket.c`) | subscriptions in two linked lists, hash table with counters | subscribe, unsubscribe, publish, clone, drop, send, sendall | sessions: publishing may close the session it writes to |
| Named outputs (`websocket.c`) | prefix mappings in two linked lists | add_output, del_output, resolve, sync, disconnect | backend queues |
| Static files (`disk.c`) | requests in the sieve, threads, MIME tables | `disk_request`, `disk_loop`, `disk_process`, `release_disk` | inproc zeromq socket, the file system |
| Heartbeats, sync timers, frontend commands (`websocket.c`) | timers | periodic messages, echo, timestamp | the same zeromq sockets, beside the queues |
| Routing (`resolve.c`), control commands (`commands.c`), statistics and start-up (`main.c`), pools, logging, zeromq helpers, `zerogwctl.c` | none that other parts read back | dispatch, formatting | |

What makes it hard. Everything runs in callbacks of one loop, so the order of client
requests, backend messages, timers, idle watchers and finish callbacks is arbitrary. A
request is shared by the HTTP connection, the sieve, a timer, a session and zeromq's
thread. Backends hold ids long after the object is gone. Connections close inside the
loop that writes to them. Queues fill up, servers are paused, replies get lost,
requests are retried. `PROJECT.json` lists these hazards at their lines.

What makes each part correct:

* ids: one object per live id, none for a stale or foreign one, no slot lost or stolen;
* forwarding: one response per request, its own, and everything given back once;
* backend queues: nothing accepted is lost, repeated, reordered or left lying; sessions
  are freed exactly when the last queued entry is gone;
* long polling: every held request is answered, every abandoned session cleaned up, no
  message dropped before the client has it, no assertion fails;
* static files: every request is answered once, a client keeps its copy only when it is
  what the file has, and SIGINT ends the process;
* topics and outputs: the two linked lists say the same, and what backends observe is a
  plain relation (`PubSub`) and a plain table (`OutputTable`).

## 2. Modules

| Module | Models | Abstract specification | Runs from |
|---|---|---|---|
| `Sieve` | `sieve.c` as operators on a record | | |
| `Uids` (EXTENDS `Sieve`) | `uidgen.c` and its callers | `UidDirectory` | `MCUids` |
| `BackendQueue` | `backend_send`, `backend_unqueue`, pause, life of a session, heartbeats and syncs | | `MCBackendQueue` |
| `Comet` | `polling.c`, frontend commands | | `MCComet` |
| `Topics` | topics of `websocket.c` | `PubSub` | `MCTopics` |
| `Outputs` | named outputs of `websocket.c` | `OutputTable` | `MCOutputs` |
| `Request` (EXTENDS `Sieve`) | `request.c`: a counted request with its slot and timer | | |
| `HttpForward` (EXTENDS `Request`) | forwarding in `http.c` | | `MCHttpForward` |
| `Disk` (EXTENDS `Request`) | `disk.c`, and `main.c` after SIGINT | | `MCDisk` |
| `Lists` | the linked lists of `queue.h` as sequences, for `Topics` and `Outputs` | | |
| `UidsProofs`, `CometProofs`, `BackendQueueProofs`, `HttpForwardProofs`, `DiskProofs`, `TopicsProofs`, `OutputsProofs` | theorems about the module of that name | | |
| `SieveProofs` | lemmas about `Sieve`, for `HttpForwardProofs` and `DiskProofs` | | |

Every handler of the event loop is one action, with everything it calls. There are
three exceptions. A publication in `Topics` is one action per subscriber, because it
changes the lists it walks; no other action is enabled meanwhile. `disk_process` is one
action per answer, because disk threads go on while it runs. And `comet_request` and
`request_timeout` are disjunctions of one action per outcome.
The identifiers are those of the code wherever TLA+ allows. `PROJECT.json` maps each
definition to its lines.

### Sieve, Uids
`sieve` is the C structure. An id is a record of instance, slot (`hole`) and `index`.
`known` collects every id that ever left the process; `find` may be called with any of
them, and with ids of other instances (`Foreign`). Reading one word behind the table
gives `NULL` or `WILD`. `index` is a 64-bit counter that is not expected to wrap; TLC
bounds it with `MaxIndex`, the proofs hold for every bound. The eight random bytes of a
comet id are left out: they can only make ids more distinct.

### BackendQueue
`queue` is zerogw's queue of a socket, `pipe` what zeromq holds, `wake` why
`backend_unqueue` will run: an event that `resume_visitor` fed to libev, or a signal on
zeromq's descriptor. zeromq is external: a pipe takes `Hwm` messages and signals only
when a full pipe is read (the real one waits for a low-water mark, which only delays
the signal). `add_output`/`del_output` appear by their effect on the set of sockets of a
session; `Outputs` has the lists. `beat` is a heartbeat of the main socket or a sync of
a named one: neither is queued nor stopped by a pause, and its `zmq_send` may take the
signal off the descriptor; `stolen` records that the last reason to run
`backend_unqueue` went that way. `log` and `got` are history. Allocation does not fail.

### Comet
Requests and sessions are identities that are used once. `phase` says how far the HTTP
side of a request is: arrived and held, answered, hung up, finished. `inflight` is the
reference that the body in a backend queue or in zeromq keeps. A reply is the set of
messages it carries and the id in its header; `told` and `seen` record what reached the
client, `comet_request_sent(r, FALSE)` is a reply that got lost. `dead` is a failed
assertion. What clients do is a parameter: `AckedOn`, `HonestAcks`, `RefusedOn` (kinds of
request that may come with `infmt=jsonlist`), `OutFormats`, `Limits`. Requests are
interchangeable, so they arrive in a fixed order. An acknowledgement of an id that the
session has not reached is refused, as in the code. Timers may fire at any time while they are active, with one
restriction, `PollsExpireFirst`: an inactivity timer that was started while a request
with a running timer was already held does not overtake it. This is the case when
`max-timeout` (and hence every poll's timeout) is below `inactivity-timeout`, as with
the defaults (11 and 120 seconds). `backend_send` without force never fails, so a body
is always accepted. A frontend command is answered into the session's own queue
(`echo`). On POST (`request_echoes`) it closes the session when that is full. On BIDI
(`request_polls` with the body `"command"`) it is modelled when the queue has room; when
it has none, the code frees the session and goes on with it, which is undefined.

### Topics, Outputs
Both keep the two linked lists as sequences in the order of the code's insertions.
What remains after `LIST_REMOVE` is `Unlinked` of `Lists`, defined without recursion
because the prover cannot use recursive operators.
Names stand for the topics they find; hash chains are left out. In `Outputs` a message
is the set of prefixes that match it, and `sent` is what the last handler sent, with
the cookie (`set_cookie`) that goes out with it. A sync is the sequence of its message
parts as `send_sync` produces them: each user's turn sends what the turn before left in
`msg` (`Msg`), then the id, and leaves its own cookie in `msg`. `OutputTable` takes the
parts apart again and asks that each user stands before its own cookie.

### Request, HttpForward
`Request` has what forwarding and static files share: the sieve, ids, the reference
count, `request_finish` and `request_free`. In `HttpForward`, `mode` is the retry mode of
the route, fixed at the start, or `NoTimeout` for a route whose timeout is 0. A message
inside zeromq refers to the request, and its id is read when zeromq sends it
(`zmq_sends`), because the code hands over a pointer. The parts of one message share one
reference. `inbox` grows only: backends may answer anything they got, at any later time
and repeatedly. A response can be written to a request whose connection is closed; what
libwebsite makes of it is external.

### Disk
A thread takes a step per system call that can see the file change: `resolve`
(`check_base`, `realpath`, `check_path`), `open_file` (`open` and `fstat`), `read_file`.
The file and its `.gz` neighbour have a version, the number of the write that made it,
and a Last-Modified line, the version divided by `WritesPerSecond`. What a thread reads
is what it opened or what was written since. `read_short` is a file that was cut after
`fstat`, where `read` returns 0 and the loop goes round. A failing `read` is answered
with 500 only after `EAGAIN` and `EINTR` (`read_interrupted`). After any other error
(`read_fails`) the code takes -1 for a number of bytes and goes round, in the state
`"failing"`, waiting for one byte more than the file had; should the file grow, the
thread sends something that is no version of it (`read_garbled`; the reads went to the
byte in front of the buffer, which is undefined). Which paths are denied is a
choice. The socket signals the loop when a thread's first unread answer arrives;
`disk_request` takes that signal and feeds an event instead. `sigint_cb` ends the event
loop at any moment between two handlers, `release_disk` sends shutdown messages while
any thread is connected and then joins. `other_request` takes a slot of the shared table
for a request of another route. Static requests and threads are interchangeable, so they
arrive and connect in the order of their numbers.

## 3. Runs

| Run | Instance | Shows |
|---|---|---|
| `uids` | 3 objects, 2 slots, 5 ids, foreign slots 0, 1, 3 | ownership, exact counter, refinement of `UidDirectory` |
| `backend_queue` | 2 sessions, 1 named output, pipe 2, limit 1, 4 events, 1 heartbeat or sync | FIFO, reference counts, protocol order, wake-ups, silence while paused, delivery |
| `comet` | 1 session, 4 requests, 3 messages, queue 2, both output formats | all properties, liveness included, for clients as documented |
| `topics` | 3 sessions, 2 topics | lists, counters, safe traversal, refinement of `PubSub` |
| `outputs` | 2 sessions, 3 prefixes, 2 sockets, 1 cookie | grouping, mirrored lists, refinement of `OutputTable` |
| `http_forward` | 3 requests, 2 slots, pipe 1, 2 attempts, `RetryFirst`, `RetryLast` and `NoTimeout` | one own response, counts, what is tracked, every client gets an answer |
| `disk` | 2 static requests and 1 other, 2 slots, 2 threads, 2 versions | slots, counts, the assertions of `disk_process`, wake-ups, fresh 304s, every client gets an answer, SIGINT ends the process |

Bounds. Tables, pipes and queues have one or two places and there are more objects than
places, so that "full", reuse of a slot and waiting all occur within a few steps. Three
subscribers give a first, a middle and a last element; three prefixes over two sockets
let an entry move between groups that both stay non-empty. A pipe of two is the least
in which a heartbeat can take a signal while the pipe is not full again. Two versions of
a file are enough to change it between any two steps of a thread and to cut it short;
three versions with two static requests alone were checked by hand. Five comet requests
(`comet_post_ack`) allow connect, a poll that is answered, a poll whose reply is lost, a
repeated poll and a concurrent one; four, a connect and three of these.

Each passing property is also broken by a mutant of a definition it
depends on (`PROJECT.json`, "mutants"); the mutated forms stand beside the definitions.
In `Topics`, `Outputs` and `HttpForward` the type invariant is a conjunct of
`ListsMirror` and `OnlyWaitingTracked`.

Deadlock is checked where the system never stops. `Comet`, `HttpForward` and `Disk` have
a finite supply of requests and end when it is used up (`Disk` after SIGINT as well);
there `CHECK_DEADLOCK` is off.

Four properties name an exception, each a weakness of the code.

* `NoLostWakeup` and `EventuallyDelivered` of `BackendQueue` except a socket whose signal
  a heartbeat or sync took. Without the exception TLC finds: the pipe is full and a
  message queued, the backend reads, zeromq signals, the heartbeat's `zmq_send` takes the
  signal before libev looks, and the queue stays although the pipe has room, until the
  pipe was full once more or the server is paused and resumed. Unlike `disk_request`,
  `heartbeat` and `send_sync` feed no event.
* `EventuallyAnswered` and `StopEnds` of `Disk` except a thread that spins (`Stuck`):
  one that reads a file which was cut short, until somebody makes the file longer, and
  one whose `read` failed with another error than `EAGAIN` and `EINTR`, such as `EIO`.
  Without either exception TLC finds a request that is never answered, and a
  `release_disk` that joins the thread for ever.
* `StopEnds` also excepts a thread that had not connected when `release_disk` stopped
  sending (`missed`): it is never told to stop, and `pthread_join` waits for it.

### Disagreements with documentation and assertions
Five runs expect a violation; "findings" quotes the statement each contradicts.

* `queue_bound`: the branches of `force` in `backend_send` are swapped, so messages are
  queued without a limit.
* `comet_last_id`: `X-Last-ID` names a message that a limited reply does not contain.
* `comet_post_ack`: an acknowledgement on POST strands a held request, and the
  inactivity timer then fails the assertion of `free_comet`.
* `comet_bidi`: a refused BIDI request leaves a session without any timer.
* `http_alias`: `RetryLast` rewrites an id that zeromq has not sent yet.

More observations came out of writing the models and have no run of their own.
`sieve_get` accepts `holeid = max` and reads one word behind the table; ids of
instances with a larger table do arrive there. With the queue at its limit the
disconnect of a session is dropped silently (the other half of the swapped branches).
And disconnects do go to named outputs: a test expects it, `doc/proto.rst:217` says
they are "sent to main backend only".

In `disk.c`: `Last-Modified` has whole seconds, so a file that is written twice within
one may be kept stale by clients (`Fresh304` fails with `WritesPerSecond = 2`);
`get_file` gives up on `EINTR` and `EAGAIN`, the two errors of `read` that could be
tried again, and goes on after every other one; `join_paths` terminates the path one byte behind its buffer; `check_base` uses
`ext` uninitialised when the index file has no dot; `release_disk` uses a `NULL` socket
when there are no disk threads; and `disk_process` jumps to the release of an
uninitialised `req` when the first receive is interrupted. `limits.max-size`
(`config.yaml:404`) is read nowhere. `http_headers` resolves a route before
`request_init`, so a route chosen by the client's address looks at an uninitialised
`req->ip`. A frontend command on a BIDI request whose session's queue is full frees the
session, and `comet_request` goes on with it.

### Fairness
`BackendQueue`: the loop serves a pending event (`backend_unqueue`) and a backend reads
its pipe; pausing and resuming are free, and delivery is claimed only if the server
finally stays resumed. `Comet`: weak fairness of the idle watcher and of both timers,
per session and request: libev fires an active watcher that nobody stops. No fairness is
assumed of clients, backends or finish callbacks. `HttpForward`: weak fairness of
request timers only. `Disk`: weak fairness of each thread (the system schedules it; that
a read fails or comes short, and what follows a failed one, is not promised), of
`disk_process` when it has an event, and of `release_disk`.

## 4. Proofs

`UidsProofs`, for every table size, set of objects and number of ids. The inductive
invariant `IndInv` adds to types and `SlotOwned` that `filled` counts the occupied slots
and that every id ever issued has an index below the sieve's (`Issued`). The last is
what makes ids unique although slots are reused, and what the refinement needs.
Theorems: `TypeCorrect`, `SlotsAreOwned`, `FilledIsExact`, and `ImplementsDirectory`
(initial states map to initial states, every step to a step of `UidDirectory` or a
stutter), the last under the assumption that no foreign id names slot `Max`: without it
`sieve_get` may return the word behind the table, and the refinement fails.

`CometProofs`, for any number of sessions, requests and messages.

* `LinkInv` (types, `HeldLinked`, `RefcntExact`, and that a request not yet arrived is
  linked to nothing) is inductive without any assumption on clients, but for the
  frontend command on BIDI that the model leaves out (section 2): `TypeCorrect`,
  `HeldAreLinked`, `ReferencesAreCounted`.
* `ServedInv` strengthens `HeldIsServed`: a held request has a running timer, or the
  idle watcher is active, the queue is not empty and the inactivity timer is stopped.
  It is inductive when clients do not acknowledge on POST and polls expire first:
  `AssertionsHold`, `HeldAreServed`. The run `comet_post_ack` shows why the first
  assumption is needed.
* `IdleAreTimed`: inductive relative to `LinkInv` if nobody uses `infmt=jsonlist` on
  BIDI (`comet_bidi` shows the need).
* `NumberedInv` says of sessions that are not closed what `Numbered` says of live ones:
  the queue is the unbroken run of messages that begins at `first_index`, and within its
  limit. It is inductive whatever clients do, with the same exception; wrong
  acknowledgements and all other frontend commands are included: `IdsAreNumbered`. Two lemmas carry it: dropping a prefix of such a queue
  (`DropKeepsOrder`) and appending the next message (`AppendKeepsOrder`) keep the order.
* `Whole` strengthens `Reliable`: for every reply on its way, and every id a client was
  told, all messages up to that id are in the reply or were received. It is inductive,
  relative to `NumberedInv`, when clients acknowledge only what they were told and either
  replies carry single messages or no limit is below the queue's: `MessagesAreKept`. The
  run `comet_last_id` shows why the last assumption is needed.

The proofs are hierarchical, one step per action. What a reply to the held request
does, which most handlers share, is proved once (`ReleaseKeepsLinks`,
`ReleaseKeepsServed`).

That links, counts and numbers hold for several sessions and these clients is shown
by these theorems; the run `comet` has one session and clients that follow the
documentation.

`BackendQueueProofs`, for any number of sessions, named outputs, events and pipe sizes;
of the constants it needs that `Forward` is not a named output, that there are finitely
many named outputs (they come from the configuration) and that a pipe takes a message.
`IndInv` consists of

* the types and `Fifo`: what a backend read, what its pipe holds and what its queue
  holds have, of sessions, the same entries as the log, and both go by increasing ids;
* `Numbered`: ids in the log are below the next one, so that what is accepted now is
  behind everything accepted before;
* `Announced` and `Bracketed`: a session that ever started has its connect in the log of
  the main socket, a live one has no disconnect there, connects come first and
  disconnects last. With `Fifo` this gives `SessionProtocol`, which speaks of what was
  read only and is not inductive;
* `RefcntExact`: a session's references are its connection and the entries queued
  anywhere; `UnqueueRefs` shows that a round of `backend_unqueue` drops as many
  references as it takes entries, and frees a session only with its last one;
* `PipeBounded` and `NoLostWakeup`, which need each other: a queue without a pending
  event is safe only because its pipe is full, and the read that makes room signals
  exactly when the pipe was full.

`PausedIsSilent` is an action property and follows from the types, action by action.

`SieveProofs` states once what the table owes its users: `Tracks` says that the counter
is exact, that a request flagged as tracked is in the slot its id names, and that
nobody else is in the table. Registering, withdrawing and re-registering keep it
(`TracksInsert`, `TracksRemove`, `TracksRelease`).

`HttpForwardProofs`, for any number of requests, slots, attempts and pipe sizes and every
retry mode. Beside `Tracks` the inductive invariant has `Waiting` (a request in the
table arrived, is not freed and has no response, and its timer runs iff it has a
timeout), `RefcntExact`, and `IdsUnique`: an index names one request for ever, in the
table, in the pipe and in every message a backend may answer. `IdsUnique` is what makes
a late or repeated answer harmless although `RetryLast` gives a request a new id and
slots are reused. Theorems: `OneOwnResponseHolds`, `RefcntHolds`,
`OnlyWaitingTrackedHolds`.

`DiskProofs`, for any number of requests, threads, slots and versions of the files.

* `RequestsInv` has `Tracks` as above. `Pending` says that while the loop runs each
  request is carried by at most one message, a job or an answer of one thread, that a
  carried request is in the table and has no response, and that the message holds one
  reference. `NoAssertionFails`, `OneOwnResponse` and `RefcntExact` follow from it: an
  answer finds its request because nobody else can have answered it. `Pending` says
  nothing after SIGINT, when answers are thrown away. `Busy` keeps a thread's position
  and its mailbox together; `NoLostWakeup` is inductive with the rest.
* `Fresh` is the argument for `Fresh304`: no two files have the same version, and
  the `Last-Modified` a client, a job, an open file or an answer carries is that of the
  content it goes with, or one that no file has any more (the latter also for what
  `read_garbled` sends). It is inductive if no two writes fall into the same second (`WritesPerSecond = 1`). That is a hypothesis
  of the theorem, not of the module: `Last-Modified` has whole seconds, and with two
  writes in a second the property fails (section 3).

`TopicsProofs`, for finite sets of sessions and topics (the counters count them) and a
`NULL` that is none of them. `TopicsInv` says that the two lists mirror each other, that
the table and both counters are exact, and `Traverses`: the entry a publication stands
on is still in its list, and nobody from there on has been reached. The last is
`SafeTraversal` plus what the refinement needs to know about who is left. Removal keeps
the order (`UnlinkedIs`) and `FromOnIs`, `ListNextIs` relate the entry after the current
one to the rest of the list; with them every action is shown to keep `TopicsInv` and to
be a step of `PubSub`: `ListsMirrorHolds`, `TopicsExactHolds`, `SafeTraversalHolds`,
`Refinement`.

`OutputsProofs`, for any sets of sessions, prefixes, sockets and cookies, finite or not,
if `Forward` is not one of the sockets. `OutputsInv` says that the lists mirror each other, that a
prefix occurs once in a session's list, and that entries of one socket, or of one
session, are together. The two halves need each other: `add_output` finds an
earlier entry for the socket in the session's list and inserts behind it in the socket's
list, which is inside the session's group there only because the lists mirror each other. Grouping
is what `Refinement` rests on, since `hybi_stop` and `send_sync` notice a new socket or
user only by comparing neighbours: `LastOfRunsIs` and `FirstOfRunsIs` show that in a
grouped list such a walk meets each key exactly once, and `SyncRefines` that the parts
of a sync, taken by two, are the users with their cookies. Theorems: `RunsGroupedHolds`,
`ListsMirrorHolds`, `Refinement` (of `OutputTable`).

The lemmas about `Nth` and `Kept` stand in both `TopicsProofs` and `OutputsProofs`; they
are the same.

Only model-checked: the liveness properties, because the prover does not reason about
fairness and ENABLED. These are `EventuallyDelivered` of `BackendQueue`, `HeldIsAnswered`
and `SessionsEnd` of `Comet`, `EventuallyAnswered` of `HttpForward` and of `Disk`, and
`StopEnds` of `Disk`. The five runs that expect a violation have no theorem, of course;
three of them show that theorems about `Comet` need the hypotheses they state.

## 5. Not modelled

* Routing (`resolve.c`): a walk down a constant tree with string matching; it keeps no
  state, and its one refusal, the full table, is in `HttpForward` and `Disk`.
* Control commands (`commands.c`), `zerogwctl.c`: dispatch on a name and formatting. The
  commands that change state are actions of the modules whose state they change.
* Statistics, logging, start-up, configuration: counters, formatting and calls into
  coyaml and libc, without state that other parts read back.
* Allocation pools (`pool.c`): the models assume that allocation gives a fresh object.
* zeromq helpers (`zutils.c`, `openport.c`): opening and closing of sockets.
* String handling: paths, MIME types, headers. Where a decision depends on it (a denied
  path, a prefix that matches), the outcome is a choice.
* The internals of libwebsite, libev and zeromq, which appear by their effects; errors
  of `zmq_send` other than `EAGAIN`.
* Websocket frames: `start_websocket`, idle pings, and the notification of paused
  sessions, which sends a message to each client as `sendall` does.
* A frontend command on BIDI that finds the session's queue full (undefined, since the
  session is freed and used on), and the data race of
  `request_free` when zeromq's I/O thread drops the last reference.

## 6. Plan

Done: ids, requests, forwarding, static files, backend queues with heartbeats, long
polling, topics, outputs; proofs of all their safety properties and of the three
refinements. What is left:

1. A module that composes sessions, topics and queues, so that closing a session inside
   a publication reaches the backend queue.
2. An abstract specification of a backend's view of a session (connect, messages,
   disconnect, in order), with `BackendQueue` shown to implement it, in the place of
   `SessionProtocol`.
