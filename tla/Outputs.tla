------------------------------ MODULE Outputs ------------------------------
(***************************************************************************)
(* Named outputs (websocket.c): a backend maps prefixes of a session's     *)
(* messages to other backend sockets.  A mapping is an entry (output_t) of *)
(* two lists: the outputs of the session, which websock_resolve and        *)
(* hybi_stop walk, and the outputs of the socket, which send_sync walks.   *)
(* Both walks avoid duplicates by comparing neighbours only, so entries of *)
(* one socket must stay together in the first list and entries of one      *)
(* session in the second.  A message is abstracted to the set of prefixes  *)
(* that match it.  What is sent carries the session's cookie; in a sync    *)
(* the cookie of each user is put into the message part that the next      *)
(* user's turn, or the end of the list, sends.                             *)
(***************************************************************************)
EXTENDS Lists, SequencesExt

CONSTANTS
    Sessions,
    MsgPrefixes,    \* prefixes that backends map
    Sockets,        \* route->websocket.named_outputs
    Forward,        \* route->websocket.forward
    Cookies,        \* what backends set with set_cookie
    NoCookie        \* WS_HAS_COOKIE is not set

ASSUME ForwardAssumption == Forward \notin Sockets

VARIABLES
    live,           \* sessions that are connected
    outputs,        \* hybi->outputs: a sequence of [prefix, socket]
    attached,       \* socket->_int.outputs: a sequence of [connection, prefix]
    cookie,         \* hybi->cookie
    sent            \* what the last handler sent to backends

vars == <<live, outputs, attached, cookie, sent>>

Output(p, k) == [prefix |-> p, socket |-> k]

Attachment(s, p) == [connection |-> s, prefix |-> p]

Nothing == [kind |-> "nothing"]

(* disconnect to each of the sockets to, a sync of these parts, a message. *)
Disconnects(s, to) ==
    [kind |-> "disconnect", hybi |-> s, cookie |-> cookie[s], to |-> to]

Sync(k, parts) == [kind |-> "sync", to |-> k, parts |-> parts]

Message(s, M, k) ==
    [kind |-> "message", hybi |-> s, cookie |-> cookie[s], matched |-> M, to |-> k]

Init ==
    /\ live = {}
    /\ outputs = [s \in Sessions |-> <<>>]
    /\ attached = [k \in Sockets |-> <<>>]
    /\ cookie = [s \in Sessions |-> NoCookie]
    /\ sent = Nothing
-----------------------------------------------------------------------------
HasPrefix(s, p) == \E i \in DOMAIN outputs[s] : outputs[s][i].prefix = p

SocketOf(s, p) ==
    outputs[s][CHOOSE i \in DOMAIN outputs[s] : outputs[s][i].prefix = p].socket

(* The lists without the entry of prefix p, if there is one.               *)
OutputsWithout(s, p) == Unlinked(outputs[s], {Output(p, k) : k \in Sockets})

AttachedWithout(k, s, p) == Unlinked(attached[k], {Attachment(s, p)})

(* LIST_INSERT_AFTER the last of the positions at, LIST_INSERT_HEAD if     *)
(* there are none.                                                         *)
InsertAfterLast(seq, new, at) == InsertAt(seq, Max(at \cup {0}) + 1, new)

(* Where a session's list has entries of socket k, prev_output last.       *)
OfSocket(list, k) == {i \in DOMAIN list : list[i].socket = k}

(* Where the socket's list has prev_output, the last entry of s for k.     *)
PrevOutput(s, k) ==
    {i \in DOMAIN attached[k] : \E j \in OfSocket(outputs[s], k) :
        /\ j = Max(OfSocket(outputs[s], k))
        /\ attached[k][i] = Attachment(s, outputs[s][j].prefix)}

(* add_output.  A prefix that is mapped to this socket already is left     *)
(* alone; one mapped to another socket is moved.  The mutant inserts at    *)
(* the head always.                                                        *)
AddAtHead(s, p, k) ==
    /\ s \in live
    /\ ~ (HasPrefix(s, p) /\ SocketOf(s, p) = k)
    /\ outputs' = [outputs EXCEPT ![s] = <<Output(p, k)>> \o OutputsWithout(s, p)]
    /\ attached' = [j \in Sockets |->
         IF j = k THEN <<Attachment(s, p)>> \o attached[k] ELSE AttachedWithout(j, s, p)]
    /\ sent' = Nothing
    /\ UNCHANGED <<live, cookie>>

add_output(s, p, k) ==
    /\ s \in live
    /\ ~ (HasPrefix(s, p) /\ SocketOf(s, p) = k)
    /\ outputs' = [outputs EXCEPT
         ![s] = InsertAfterLast(OutputsWithout(s, p), Output(p, k),
                                OfSocket(OutputsWithout(s, p), k))]
    /\ attached' = [j \in Sockets |->
         IF j = k THEN InsertAfterLast(attached[k], Attachment(s, p), PrevOutput(s, k))
         ELSE AttachedWithout(j, s, p)]
    /\ sent' = Nothing
    /\ UNCHANGED <<live, cookie>>

(* del_output; the mutant leaves the entry in the socket's list.           *)
DeletesHalf(s, p) ==
    /\ s \in live
    /\ HasPrefix(s, p)
    /\ outputs' = [outputs EXCEPT ![s] = OutputsWithout(s, p)]
    /\ sent' = Nothing
    /\ UNCHANGED <<live, attached, cookie>>

del_output(s, p) ==
    /\ s \in live
    /\ HasPrefix(s, p)
    /\ outputs' = [outputs EXCEPT ![s] = OutputsWithout(s, p)]
    /\ attached' = [k \in Sockets |-> AttachedWithout(k, s, p)]
    /\ sent' = Nothing
    /\ UNCHANGED <<live, cookie>>

hybi_start(s) ==
    /\ s \notin live
    /\ live' = live \cup {s}
    /\ outputs' = [outputs EXCEPT ![s] = <<>>]
    /\ cookie' = [cookie EXCEPT ![s] = NoCookie]
    /\ sent' = Nothing
    /\ UNCHANGED attached

set_cookie(s, c) ==
    /\ s \in live
    /\ cookie' = [cookie EXCEPT ![s] = c]
    /\ sent' = Nothing
    /\ UNCHANGED <<live, outputs, attached>>

(* Entries whose successor has another key, or that have none.  The mutant *)
(* takes every entry.                                                      *)
EveryEntry(seq) == DOMAIN seq

LastOfRuns(seq) == {i \in DOMAIN seq : i = Len(seq) \/ seq[i + 1] # seq[i]}

(* hybi_stop: a disconnect for the last entry of each run of one socket.   *)
hybi_stop(s) ==
    LET sockets == [i \in DOMAIN outputs[s] |-> outputs[s][i].socket]
    IN  /\ s \in live
        /\ live' = live \ {s}
        /\ sent' = Disconnects(s, Kept(sockets, LastOfRuns(sockets)))
        /\ outputs' = [outputs EXCEPT ![s] = <<>>]
        /\ cookie' = [cookie EXCEPT ![s] = NoCookie]
        /\ attached' = [k \in Sockets |->
                          Unlinked(attached[k], {Attachment(s, p) : p \in MsgPrefixes})]

(* Entries whose predecessor has another key, or that have none.           *)
FirstOfRuns(seq) == {i \in DOMAIN seq : i = 1 \/ seq[i - 1] # seq[i]}

(* What send_sync has in msg when the ids of i users went out: the name of *)
(* the message, or the cookie of the last of them, which zeromq leaves     *)
(* empty if there is none.  The mutant copies the first user's cookie.     *)
CookieOfFirst(users, i) == IF i = 0 THEN "sync" ELSE cookie[users[1]]

Msg(users, i) == IF i = 0 THEN "sync" ELSE cookie[users[i]]

(* send_sync: the first entry of each run sends msg, then its user's id,   *)
(* and fills msg again; the end of the list sends msg once more.           *)
send_sync(k) ==
    LET users == [i \in DOMAIN attached[k] |-> attached[k][i].connection]
        first == Kept(users, FirstOfRuns(users))
    IN  /\ attached[k] # <<>>
        /\ sent' = Sync(k, [n \in 1 .. 2 * Len(first) + 1 |->
                            IF n % 2 = 1 THEN Msg(first, n \div 2) ELSE first[n \div 2]])
        /\ UNCHANGED <<live, outputs, attached, cookie>>

(* websock_resolve of a message that the prefixes M match: the first entry *)
(* with one of them decides.                                               *)
websock_resolve(s, M) ==
    LET matching == {i \in DOMAIN outputs[s] : outputs[s][i].prefix \in M}
    IN  /\ s \in live
        /\ sent' = Message(s, M, IF matching = {} THEN Forward
                                 ELSE outputs[s][Min(matching)].socket)
        /\ UNCHANGED <<live, outputs, attached, cookie>>

Next ==
    \/ \E s \in Sessions : hybi_start(s) \/ hybi_stop(s)
    \/ \E s \in Sessions, c \in Cookies : set_cookie(s, c)
    \/ \E s \in Sessions, p \in MsgPrefixes, k \in Sockets : add_output(s, p, k)
    \/ \E s \in Sessions, p \in MsgPrefixes : del_output(s, p)
    \/ \E s \in Sessions, M \in SUBSET MsgPrefixes : websock_resolve(s, M)
    \/ \E k \in Sockets : send_sync(k)

Spec == Init /\ [][Next]_vars
-----------------------------------------------------------------------------
TypeOK ==
    /\ live \subseteq Sessions
    /\ outputs \in [Sessions -> Seq([prefix : MsgPrefixes, socket : Sockets])]
    /\ attached \in [Sockets -> Seq([connection : Sessions, prefix : MsgPrefixes])]
    /\ cookie \in [Sessions -> Cookies \cup {NoCookie}]
    /\ sent.kind \in {"nothing", "disconnect", "sync", "message"}

(* Equal elements are next to each other.                                  *)
Grouped(seq) ==
    \A i, j \in DOMAIN seq : i < j /\ seq[i] = seq[j] =>
        \A k \in i .. j : seq[k] = seq[i]

(* "single output will use subsequent list entries for a single socket",   *)
(* and "same users are guaranteed to be on subsequent entries", however    *)
(* prefixes are mapped, moved and unmapped by several sessions.            *)
RunsGrouped ==
    /\ \A s \in Sessions : Grouped([i \in DOMAIN outputs[s] |-> outputs[s][i].socket])
    /\ \A k \in Sockets : Grouped([i \in DOMAIN attached[k] |-> attached[k][i].connection])

(* The lists are well typed; an entry is in both or in neither, once, and  *)
(* a prefix of a session is mapped once: hybi_stop frees the entries it    *)
(* finds in its own list, and send_sync follows the pointers that it finds *)
(* in the other.                                                           *)
ListsMirror ==
    /\ TypeOK
    /\ \A s \in Sessions, p \in MsgPrefixes, k \in Sockets :
          Contains(outputs[s], Output(p, k)) <=> Contains(attached[k], Attachment(s, p))
    /\ \A s \in Sessions : \A i, j \in DOMAIN outputs[s] :
          outputs[s][i].prefix = outputs[s][j].prefix => i = j
    /\ \A k \in Sockets : IsInjective(attached[k])
    /\ \A s \in Sessions \ live : outputs[s] = <<>>

(* The lists as a table: where each prefix of a session goes.              *)
Mapping == [s \in Sessions |-> [p \in MsgPrefixes |->
              IF HasPrefix(s, p) THEN SocketOf(s, p) ELSE Forward]]

Table == INSTANCE OutputTable
    WITH Session <- Sessions, Prefix <- MsgPrefixes, Named <- Sockets, Main <- Forward,
         Cookie <- Cookies, present <- live, target <- Mapping, known <- cookie

(* What backends see is what the table promises: each attached socket gets *)
(* one disconnect, a sync names each user once with its cookie, messages   *)
(* go by the table.                                                        *)
OutputTableSpec == Table!TSpec
=============================================================================
