---------------------------- MODULE OutputTable ----------------------------
(***************************************************************************)
(* What add_output and del_output promise to backends: a table of targets  *)
(* per session and prefix, a cookie per session, and who is told what      *)
(* because of it.                                                          *)
(***************************************************************************)
EXTENDS Integers, Sequences, SequencesExt

CONSTANTS Session, Prefix, Named, Main, Cookie, NoCookie

VARIABLES
    present,    \* connected sessions
    target,     \* session -> prefix -> socket
    known,      \* session -> cookie
    sent        \* what the last step sent to backends

tvars == <<present, target, known, sent>>

Empty == [p \in Prefix |-> Main]

Attached(s) == {target[s][p] : p \in Prefix} \ {Main}

(* seq has each element of set once.                                       *)
Lists(seq, set) == ToSet(seq) = set /\ IsInjective(seq)

TInit ==
    /\ present = {}
    /\ target = [s \in Session |-> Empty]
    /\ known = [s \in Session |-> NoCookie]
    /\ sent.kind = "nothing"

Map(s, p, k) ==
    /\ s \in present
    /\ target' = [target EXCEPT ![s][p] = k]
    /\ sent'.kind = "nothing"
    /\ UNCHANGED <<present, known>>

Mark(s, c) ==
    /\ s \in present
    /\ known' = [known EXCEPT ![s] = c]
    /\ sent'.kind = "nothing"
    /\ UNCHANGED <<present, target>>

Enter(s) ==
    /\ present' = present \cup {s}
    /\ target' = [target EXCEPT ![s] = Empty]
    /\ known' = [known EXCEPT ![s] = NoCookie]
    /\ sent'.kind = "nothing"

(* Every socket attached to a session that leaves is told so, once, with   *)
(* its cookie.                                                             *)
Leave(s) ==
    /\ s \in present
    /\ present' = present \ {s}
    /\ target' = [target EXCEPT ![s] = Empty]
    /\ known' = [known EXCEPT ![s] = NoCookie]
    /\ sent'.kind = "disconnect" /\ sent'.hybi = s /\ sent'.cookie = known[s]
    /\ Lists(sent'.to, Attached(s))

(* The users that the parts of a sync name: behind the name of the message *)
(* comes the id of each, followed by its cookie.                           *)
Users(parts) ==
    [i \in 1 .. Len(parts) \div 2 |-> <<parts[2 * i], parts[2 * i + 1]>>]

(* A sync tells a socket about every user attached to it, once, each with  *)
(* its own cookie.                                                         *)
Synchronise(k) ==
    /\ sent'.kind = "sync" /\ sent'.to = k
    /\ Len(sent'.parts) % 2 = 1 /\ sent'.parts[1] = "sync"
    /\ Lists(Users(sent'.parts), {<<s, known[s]>> : s \in {t \in Session : k \in Attached(t)}})
    /\ UNCHANGED <<present, target, known>>

(* A message goes to a target of a prefix that matches it and is mapped,   *)
(* and to the main socket if there is none.                                *)
Route(s, M) ==
    /\ s \in present
    /\ sent'.kind = "message" /\ sent'.hybi = s /\ sent'.matched = M
    /\ sent'.cookie = known[s]
    /\ LET mapped == {target[s][p] : p \in M} \ {Main}
       IN  IF mapped = {} THEN sent'.to = Main ELSE sent'.to \in mapped
    /\ UNCHANGED <<present, target, known>>

TNext ==
    \/ \E s \in Session : Enter(s) \/ Leave(s)
    \/ \E s \in Session, c \in Cookie : Mark(s, c)
    \/ \E s \in Session, M \in SUBSET Prefix : Route(s, M)
    \/ \E s \in Session, p \in Prefix, k \in Named \cup {Main} : Map(s, p, k)
    \/ \E k \in Named : Synchronise(k)

TSpec == TInit /\ [][TNext]_tvars
=============================================================================
