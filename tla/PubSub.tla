------------------------------- MODULE PubSub -------------------------------
(***************************************************************************)
(* What the topics of a route promise to backends: a relation between      *)
(* sessions and topics, and a publication that reaches every session that  *)
(* was subscribed when it began, once, even if sessions are closed because *)
(* of that very publication.                                               *)
(***************************************************************************)
CONSTANTS Session, Topic

VARIABLES
    present,    \* sessions that are connected
    member,     \* pairs of a session and a topic
    pending,    \* sessions that the running publication has yet to reach
    reached     \* sessions that it has reached

avars == <<present, member, pending, reached>>

Without(s) == {m \in member : m[1] # s}

AInit == present = {} /\ member = {} /\ pending = {} /\ reached = {}

Quiet == pending = {} /\ UNCHANGED <<pending, reached>>

Connect(s) == Quiet /\ present' = present \cup {s} /\ UNCHANGED member

(* A session leaves and so do its subscriptions.                           *)
Leave(s) == Quiet /\ present' = present \ {s} /\ member' = Without(s)

Subscribe(s, t) ==
    /\ Quiet
    /\ s \in present
    /\ member' = member \cup {<<s, t>>}
    /\ UNCHANGED present

Unsubscribe(s, t) == Quiet /\ member' = member \ {<<s, t>>} /\ UNCHANGED present

(* Everybody subscribed to t becomes a subscriber of u too.                *)
Clone(t, u) ==
    /\ Quiet
    /\ member' = member \cup {<<m[1], u>> : m \in {n \in member : n[2] = t}}
    /\ UNCHANGED present

Drop(t) == Quiet /\ member' = {m \in member : m[2] # t} /\ UNCHANGED present

(* To the subscribers of a topic, to all sessions, or to one.              *)
Start(audience) ==
    /\ pending = {}
    /\ audience # {}
    /\ \/ audience = present
       \/ \E t \in Topic : audience = {s \in Session : <<s, t>> \in member}
       \/ \E s \in present : audience = {s}
    /\ pending' = audience
    /\ reached' = {}
    /\ UNCHANGED <<present, member>>

(* The message is handed to s, which may lose its connection by that.      *)
Reach(s) ==
    /\ s \in pending
    /\ s \notin reached
    /\ pending' = pending \ {s}
    /\ reached' = reached \cup {s}
    /\ \/ UNCHANGED <<present, member>>
       \/ present' = present \ {s} /\ member' = Without(s)

ANext ==
    \/ \E s \in Session : Connect(s) \/ Leave(s) \/ Reach(s)
    \/ \E s \in Session, t \in Topic : Subscribe(s, t) \/ Unsubscribe(s, t)
    \/ \E t, u \in Topic : Clone(t, u)
    \/ \E t \in Topic : Drop(t)
    \/ \E audience \in SUBSET Session : Start(audience)

ASpec == AInit /\ [][ANext]_avars
=============================================================================
