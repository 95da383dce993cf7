------------------------------- MODULE Topics -------------------------------
(***************************************************************************)
(* Topics (websocket.c).  A subscription is an entry of two lists: the     *)
(* subscribers of the topic and the subscriptions of the session.  A topic *)
(* exists in the route's hash table as long as it has subscribers.         *)
(*                                                                         *)
(* Every command of a backend is one action, except that a publication is  *)
(* modelled one subscriber at a time: handing over a message may close the *)
(* connection, which runs hybi_stop inside the loop and changes the lists  *)
(* that the loop walks.  Nothing else runs meanwhile (the process has one  *)
(* thread).  A name stands for the topic it finds: the hash chains and the *)
(* allocator, which does not fail here, are left out.                      *)
(***************************************************************************)
EXTENDS Lists, SequencesExt

CONSTANTS Sessions, TopicNames, NULL

(* A publication that is running: of topic_publish, of send_all or send.   *)
Publications ==
    [topic : TopicNames, sub : Sessions] \cup [topic : {NULL}, left : SUBSET Sessions]

ASSUME FiniteAssumption == IsFiniteSet(Sessions) /\ IsFiniteSet(TopicNames)
ASSUME NullAssumption == NULL \notin Sessions \cup TopicNames \cup Publications

VARIABLES
    live,           \* sessions that are connected (in the sieve)
    topics,         \* names that the hash table holds
    subscribers,    \* topic->subscribers
    subscriptions,  \* hybi->subscribers
    ntopics, nsubscriptions,    \* topic_hash_t
    pub,            \* the topic_publish or send_all that is running, or NULL
    reached         \* history: sessions the last publication was handed to

lists == <<topics, subscribers, subscriptions, ntopics, nsubscriptions>>

vars == <<live, lists, pub, reached>>

Init ==
    /\ live = {}
    /\ topics = {}
    /\ subscribers = [t \in TopicNames |-> <<>>]
    /\ subscriptions = [s \in Sessions |-> <<>>]
    /\ ntopics = 0
    /\ nsubscriptions = 0
    /\ pub = NULL
    /\ reached = {}

(* No handler is halfway through a publication.                            *)
Idle == pub = NULL /\ UNCHANGED <<pub, reached>>
-----------------------------------------------------------------------------
(* find_topic(create): how many topics it makes.                           *)
Created(t) == IF t \in topics THEN 0 ELSE 1

(* "already subscribed"; the mutant does not look.                         *)
NeverSubscribed(s, t) == FALSE

Subscribed(s, t) == Contains(subscriptions[s], t)

(* topic_subscribe of each session of the sequence new, in that order.     *)
topic_subscribe(new, t) ==
    /\ topics' = topics \cup {t}
    /\ ntopics' = ntopics + Created(t)
    /\ subscribers' = [subscribers EXCEPT ![t] = Reverse(new) \o @]
    /\ subscriptions' = [s \in Sessions |-> IF Contains(new, s) THEN <<t>> \o subscriptions[s]
                                            ELSE subscriptions[s]]
    /\ nsubscriptions' = nsubscriptions + Len(new)

(* The subscriptions leave both lists, and topics without a subscriber are *)
(* freed: the part that topic_unsubscribe, free_topic and hybi_stop share. *)
(* The mutant keeps empty topics.                                          *)
UnlinkOnly(gone) ==
    /\ subscribers' = [t \in TopicNames |->
                Unlinked(subscribers[t], {s \in Sessions : <<s, t>> \in gone})]
    /\ subscriptions' = [s \in Sessions |->
                Unlinked(subscriptions[s], {t \in TopicNames : <<s, t>> \in gone})]
    /\ nsubscriptions' = nsubscriptions - Cardinality(gone)
    /\ UNCHANGED <<topics, ntopics>>

Unlink(gone) ==
    LET left  == [t \in TopicNames |->
                    Unlinked(subscribers[t], {s \in Sessions : <<s, t>> \in gone})]
        freed == {t \in topics : left[t] = <<>>}
    IN  /\ subscribers' = left
        /\ subscriptions' = [s \in Sessions |->
                    Unlinked(subscriptions[s], {t \in TopicNames : <<s, t>> \in gone})]
        /\ nsubscriptions' = nsubscriptions - Cardinality(gone)
        /\ topics' = topics \ freed
        /\ ntopics' = ntopics - Cardinality(freed)

hybi_stop(s) ==
    /\ live' = live \ {s}
    /\ Unlink({<<s, t>> : t \in ToSet(subscriptions[s])})

hybi_start(s) ==
    /\ Idle
    /\ s \notin live
    /\ live' = live \cup {s}
    /\ subscriptions' = [subscriptions EXCEPT ![s] = <<>>]
    /\ UNCHANGED <<topics, subscribers, ntopics, nsubscriptions>>

(* A client leaves, its session times out, or a backend disconnects it.    *)
websock_stop(s) ==
    /\ Idle
    /\ s \in live
    /\ hybi_stop(s)

subscribe(s, t) ==
    /\ Idle
    /\ s \in live
    /\ topic_subscribe(IF Subscribed(s, t) THEN <<>> ELSE <<s>>, t)
    /\ UNCHANGED live

unsubscribe(s, t) ==
    /\ Idle
    /\ s \in live
    /\ t \in topics
    /\ Subscribed(s, t)
    /\ Unlink({<<s, t>>})
    /\ UNCHANGED live

topic_clone(t, u) ==
    /\ Idle
    /\ t \in topics
    /\ topic_subscribe(Unlinked(subscribers[t], {s \in Sessions : Subscribed(s, u)}), u)
    /\ UNCHANGED live

(* free_topic of a topic that has subscribers.                             *)
drop(t) ==
    /\ Idle
    /\ t \in topics
    /\ Unlink({<<s, t>> : s \in ToSet(subscribers[t])})
    /\ UNCHANGED live

(* publish, sendall which walks the sieve instead of a topic's list, and   *)
(* send, a loop of one.                                                    *)
topic_publish(t) ==
    /\ pub = NULL
    /\ t \in topics
    /\ pub' = [topic |-> t, sub |-> Head(subscribers[t])]
    /\ reached' = {}
    /\ UNCHANGED <<live, lists>>

send_all ==
    /\ pub = NULL
    /\ live # {}
    /\ pub' = [topic |-> NULL, left |-> live]
    /\ reached' = {}
    /\ UNCHANGED <<live, lists>>

send(s) ==
    /\ pub = NULL
    /\ s \in live
    /\ pub' = [topic |-> NULL, left |-> {s}]
    /\ reached' = {}
    /\ UNCHANGED <<live, lists>>

(* do_send.  A connection whose queue is full is closed, and its session   *)
(* stopped, within the call.                                               *)
do_send(s) ==
    /\ reached' = reached \cup {s}
    /\ \/ hybi_stop(s)
       \/ UNCHANGED <<live, lists>>

(* LIST_NEXT(sub, topic_list)                                              *)
ListNext(t, s) ==
    LET i == CHOOSE j \in 1 .. Len(subscribers[t]) : subscribers[t][j] = s
    IN  IF i = Len(subscribers[t]) THEN NULL ELSE subscribers[t][i + 1]

(* One turn of the loop of topic_publish: nxt is read before do_send.  The *)
(* mutants read nxt after do_send, and end the loop when a connection was  *)
(* closed.                                                                 *)
PublishReadsLate ==
    /\ pub # NULL /\ pub.topic # NULL
    /\ LET nxt == ListNext(pub.topic, pub.sub)
       IN  /\ do_send(pub.sub)
           /\ pub' = IF ~ Contains(subscribers'[pub.topic], pub.sub) THEN pub
                     ELSE IF nxt = NULL THEN NULL ELSE [pub EXCEPT !.sub = nxt]

PublishBreaks ==
    /\ pub # NULL /\ pub.topic # NULL
    /\ LET nxt == ListNext(pub.topic, pub.sub)
       IN  /\ do_send(pub.sub)
           /\ pub' = IF nxt = NULL \/ pub.sub \notin live' THEN NULL
                     ELSE [pub EXCEPT !.sub = nxt]

publish_one ==
    /\ pub # NULL /\ pub.topic # NULL
    /\ LET nxt == ListNext(pub.topic, pub.sub)
       IN  /\ do_send(pub.sub)
           /\ pub' = IF nxt = NULL THEN NULL ELSE [pub EXCEPT !.sub = nxt]

(* One turn of the loop of send_all; send has only this one.               *)
send_all_one ==
    /\ pub # NULL /\ pub.topic = NULL
    /\ \E s \in pub.left :
         /\ do_send(s)
         /\ pub' = IF pub.left = {s} THEN NULL ELSE [pub EXCEPT !.left = @ \ {s}]

Next ==
    \/ \E s \in Sessions : hybi_start(s) \/ websock_stop(s) \/ send(s)
    \/ \E s \in Sessions, t \in TopicNames : subscribe(s, t) \/ unsubscribe(s, t)
    \/ \E t, u \in TopicNames : topic_clone(t, u)
    \/ \E t \in TopicNames : drop(t) \/ topic_publish(t)
    \/ send_all
    \/ publish_one
    \/ send_all_one

Spec == Init /\ [][Next]_vars
-----------------------------------------------------------------------------
TypeOK ==
    /\ live \subseteq Sessions
    /\ topics \subseteq TopicNames
    /\ subscribers \in [TopicNames -> Seq(Sessions)]
    /\ subscriptions \in [Sessions -> Seq(TopicNames)]
    /\ ntopics \in Int
    /\ nsubscriptions \in Int
    /\ pub \in Publications \cup {NULL}
    /\ reached \subseteq Sessions

(* The lists are well typed, and the two of subscriptions say the same,    *)
(* nobody is subscribed twice, and no entry outlives its session:          *)
(* hybi_stop and free_topic unlink entries from the other owner's list     *)
(* without looking.                                                        *)
ListsMirror ==
    /\ TypeOK
    /\ \A s \in Sessions, t \in TopicNames :
          Contains(subscriptions[s], t) <=> Contains(subscribers[t], s)
    /\ \A t \in TopicNames : IsInjective(subscribers[t])
    /\ \A s \in Sessions : IsInjective(subscriptions[s])
    /\ \A s \in Sessions \ live : subscriptions[s] = <<>>

(* A topic is in the table exactly while it has subscribers, and the       *)
(* counters are right, whichever way subscriptions and topics end.         *)
TopicsExact ==
    /\ topics = {t \in TopicNames : subscribers[t] # <<>>}
    /\ ntopics = Cardinality(topics)
    /\ nsubscriptions = Cardinality({m \in Sessions \X TopicNames : Contains(subscribers[m[2]], m[1])})

(* "Subscribers, and whole topic can be deleted while traversing list of   *)
(* subscribers": the entry that the loop will look at next is still there. *)
SafeTraversal ==
    pub # NULL => \/ pub.topic = NULL /\ pub.left \subseteq live
                  \/ pub.topic # NULL /\ Contains(subscribers[pub.topic], pub.sub)

(* The entries of a list from s on.                                        *)
FromOn(list, s) ==
    {list[i] : i \in {j \in 1 .. Len(list) : \E k \in 1 .. j : list[k] = s}}

(* Whom the running publication has yet to reach.                          *)
Pending ==
    IF pub = NULL THEN {}
    ELSE IF pub.topic = NULL THEN pub.left
    ELSE FromOn(subscribers[pub.topic], pub.sub)

Member == {m \in Sessions \X TopicNames : Contains(subscriptions[m[1]], m[2])}

Abstract == INSTANCE PubSub
    WITH Session <- Sessions, Topic <- TopicNames, present <- live,
         member <- Member, pending <- Pending

(* The lists implement the relation and its publications (PubSub).         *)
PubSubSpec == Abstract!ASpec
=============================================================================
