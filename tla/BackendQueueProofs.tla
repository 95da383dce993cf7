------------------------- MODULE BackendQueueProofs -------------------------
(***************************************************************************)
(* For every set of sessions and of sockets, every capacity and high-water *)
(* mark: what a socket accepted arrives once and in order, the main        *)
(* backend sees connect first and disconnect last, a queued entry keeps    *)
(* its session alive, and a queue never waits for a wake-up that nothing   *)
(* will give it.                                                           *)
(***************************************************************************)
EXTENDS BackendQueue, SequenceTheorems, FiniteSetTheorems, TLAPS

(* What a session has produced, by its state: nothing before it starts;    *)
(* then its connect, which is its first entry at the main socket, and its  *)
(* disconnect, which only a session that has ended has and which is the    *)
(* last.  Fifo carries this over to what the backend reads.                *)
Numbered == \A k \in Socks : \A e \in Entries(log[k]) : e.id < events

Announced ==
    \A h \in Hybis :
        /\ state[h] = "none" =>
              \A k \in Socks : \A e \in Entries(log[k]) : e.hybi # h
        /\ state[h] # "none" =>
              \E e \in Entries(log[Forward]) : e.hybi = h /\ e.kind = "connect"
        /\ state[h] = "live" =>
              \A e \in Entries(log[Forward]) : e.hybi = h => e.kind # "disconnect"

Bracketed ==
    \A d, e \in Entries(log[Forward]) : d.hybi = e.hybi /\ d # e =>
        /\ d.kind = "connect" => d.id < e.id
        /\ d.kind = "disconnect" => e.id < d.id

PipeBounded == \A k \in Socks : Len(pipe[k]) <= Hwm

IndInv ==
    /\ TypeOK /\ Fifo
    /\ Numbered /\ Announced /\ Bracketed
    /\ RefcntExact
    /\ PipeBounded /\ NoLostWakeup
-----------------------------------------------------------------------------
(* Sequences of entries and beats.                                         *)

Msgs == Entry \cup {Beat}

Precedes(s, t) == \A x \in Entries(s), y \in Entries(t) : x.id < y.id

(* Beats are not session entries, and entries are. *)
LEMMA MsgKinds ==
  /\ ~ OfSession(Beat)
  /\ \A e \in Entry : OfSession(e) /\ e.id \in Nat /\ e.hybi \in Hybis
  /\ \A e \in Msgs : OfSession(e) => e \in Entry
BY DEF OfSession, Beat, Entry, Msgs

(* A sequence of session entries is one of messages.                       *)
LEMMA EntrySeqs == Seq(Entry) \subseteq Seq(Msgs)
BY DEF Msgs

(* The session entries of a sequence of messages. *)
LEMMA EntriesType ==
  ASSUME NEW s \in Seq(Msgs)
  PROVE  Entries(s) \subseteq Entry /\ \A x \in Entries(s) : x.id \in Nat
BY MsgKinds DEF Entries

(* The session entries of two sequences, one after the other. *)
LEMMA EntriesConcat ==
  ASSUME NEW s \in Seq(Msgs), NEW t \in Seq(Msgs)
  PROVE  Entries(s \o t) = Entries(s) \cup Entries(t)
<1>1. /\ s \o t \in Seq(Msgs)
      /\ Len(s \o t) = Len(s) + Len(t)
      /\ \A i \in 1 .. Len(s) + Len(t) :
            (s \o t)[i] = IF i <= Len(s) THEN s[i] ELSE t[i - Len(s)]
  BY ConcatProperties
<1>2. Len(s) \in Nat /\ Len(t) \in Nat
  BY LenProperties
<1>3. ASSUME NEW x \in Entries(s \o t) PROVE x \in Entries(s) \cup Entries(t)
  <2>1. PICK i \in 1 .. Len(s) + Len(t) : x = (s \o t)[i] /\ OfSession((s \o t)[i])
    BY <1>1 DEF Entries
  <2>2. CASE i <= Len(s)
    BY <1>1, <1>2, <2>1, <2>2 DEF Entries
  <2>3. CASE ~ (i <= Len(s))
    <3>1. i - Len(s) \in 1 .. Len(t) /\ x = t[i - Len(s)]
      BY <1>1, <1>2, <2>1, <2>3
    <3> QED BY <2>1, <3>1 DEF Entries
  <2> QED BY <2>2, <2>3
<1>4. ASSUME NEW x \in Entries(s) PROVE x \in Entries(s \o t)
  <2>1. PICK i \in 1 .. Len(s) : x = s[i] /\ OfSession(s[i])
    BY <1>4 DEF Entries
  <2>2. i \in 1 .. Len(s) + Len(t) /\ (s \o t)[i] = s[i]
    BY <1>1, <1>2, <2>1
  <2> QED BY <1>1, <2>1, <2>2 DEF Entries
<1>5. ASSUME NEW x \in Entries(t) PROVE x \in Entries(s \o t)
  <2>1. PICK i \in 1 .. Len(t) : x = t[i] /\ OfSession(t[i])
    BY <1>5 DEF Entries
  <2>2. /\ i + Len(s) \in 1 .. Len(s) + Len(t)
        /\ ~ (i + Len(s) <= Len(s))
        /\ (i + Len(s)) - Len(s) = i
    BY <1>2, <2>1
  <2>3. (s \o t)[i + Len(s)] = t[i]
    BY <1>1, <2>2
  <2> QED BY <1>1, <2>1, <2>2, <2>3 DEF Entries
<1> QED BY <1>3, <1>4, <1>5

(* Two sequences, one after the other, are in order when both are and the  *)
(* first precedes the second.                                              *)
LEMMA InOrderConcat ==
  ASSUME NEW s \in Seq(Msgs), NEW t \in Seq(Msgs)
  PROVE  InOrder(s \o t) <=> InOrder(s) /\ InOrder(t) /\ Precedes(s, t)
<1>1. /\ Len(s \o t) = Len(s) + Len(t)
      /\ \A i \in 1 .. Len(s) + Len(t) :
            (s \o t)[i] = IF i <= Len(s) THEN s[i] ELSE t[i - Len(s)]
  BY ConcatProperties
<1>2. Len(s) \in Nat /\ Len(t) \in Nat
  BY LenProperties
<1> DEFINE w == s \o t
<1>3. \A i \in 1 .. Len(s) : i \in 1 .. Len(w) /\ w[i] = s[i]
  BY <1>1, <1>2
<1>4. \A i \in 1 .. Len(t) : i + Len(s) \in 1 .. Len(w) /\ w[i + Len(s)] = t[i]
  <2> TAKE i \in 1 .. Len(t)
  <2>1. /\ i + Len(s) \in 1 .. Len(s) + Len(t)
        /\ ~ (i + Len(s) <= Len(s))
        /\ (i + Len(s)) - Len(s) = i
    BY <1>2
  <2> QED BY <1>1, <2>1
<1>5. \A i \in 1 .. Len(w) : \/ i \in 1 .. Len(s)
                             \/ \E j \in 1 .. Len(t) : i = j + Len(s)
  <2> SUFFICES ASSUME NEW i \in 1 .. Len(w), ~ (i \in 1 .. Len(s))
               PROVE  \E j \in 1 .. Len(t) : i = j + Len(s)
    OBVIOUS
  <2>1. i - Len(s) \in 1 .. Len(t) /\ i = (i - Len(s)) + Len(s)
    BY <1>1, <1>2
  <2> QED BY <2>1
<1>6. Len(w) \in Nat
  BY <1>1, <1>2
<1> HIDE DEF w
<1>7. ASSUME InOrder(w) PROVE InOrder(s) /\ InOrder(t) /\ Precedes(s, t)
  <2>1. InOrder(s)
    BY <1>3, <1>7 DEF InOrder
  <2>2. InOrder(t)
    <3> SUFFICES ASSUME NEW i \in 1 .. Len(t), NEW j \in 1 .. Len(t),
                        i < j, OfSession(t[i]), OfSession(t[j])
                 PROVE  t[i].id < t[j].id
      BY DEF InOrder
    <3>1. i + Len(s) < j + Len(s)
      BY <1>2
    <3> QED BY <1>4, <1>7, <3>1 DEF InOrder
  <2>3. Precedes(s, t)
    <3> SUFFICES ASSUME NEW i \in 1 .. Len(s), NEW j \in 1 .. Len(t),
                        OfSession(s[i]), OfSession(t[j])
                 PROVE  s[i].id < t[j].id
      BY DEF Precedes, Entries
    <3>1. i < j + Len(s)
      BY <1>2
    <3> QED BY <1>3, <1>4, <1>7, <3>1 DEF InOrder
  <2> QED BY <2>1, <2>2, <2>3
<1>8. ASSUME InOrder(s), InOrder(t), Precedes(s, t) PROVE InOrder(w)
  <2> SUFFICES ASSUME NEW i \in 1 .. Len(w), NEW j \in 1 .. Len(w),
                      i < j, OfSession(w[i]), OfSession(w[j])
               PROVE  w[i].id < w[j].id
    BY DEF InOrder
  <2>1. CASE i \in 1 .. Len(s) /\ j \in 1 .. Len(s)
    BY <1>3, <1>8, <2>1 DEF InOrder
  <2>2. CASE i \in 1 .. Len(s) /\ j \notin 1 .. Len(s)
    <3>1. PICK n \in 1 .. Len(t) : j = n + Len(s)
      BY <1>5, <2>2
    <3>2. w[i] = s[i] /\ w[j] = t[n]
      BY <1>3, <1>4, <2>2, <3>1
    <3>3. w[i] \in Entries(s) /\ w[j] \in Entries(t)
      BY <2>2, <3>1, <3>2 DEF Entries
    <3> QED BY <1>8, <3>3 DEF Precedes
  <2>3. CASE i \notin 1 .. Len(s)
    <3>1. PICK m \in 1 .. Len(t) : i = m + Len(s)
      BY <1>5, <2>3
    <3>2. j \notin 1 .. Len(s)
      BY <1>2, <3>1
    <3>3. PICK n \in 1 .. Len(t) : j = n + Len(s)
      BY <1>5, <3>2
    <3>4. m < n
      BY <1>2, <3>1, <3>3
    <3>5. w[i] = t[m] /\ w[j] = t[n]
      BY <1>4, <3>1, <3>3
    <3> QED BY <1>8, <3>4, <3>5 DEF InOrder
  <2> QED BY <2>1, <2>2, <2>3
<1> QED BY <1>7, <1>8 DEF w

(* One message. *)
LEMMA OneMessage ==
  ASSUME NEW e \in Msgs
  PROVE  /\ <<e>> \in Seq(Msgs)
         /\ Entries(<<e>>) = IF OfSession(e) THEN {e} ELSE {}
         /\ InOrder(<<e>>)
<1>1. <<e>> \in Seq(Msgs) /\ Len(<<e>>) = 1 /\ <<e>>[1] = e
  OBVIOUS
<1>2. 1 .. 1 = {1}
  OBVIOUS
<1>3. Entries(<<e>>) = IF OfSession(e) THEN {e} ELSE {}
  BY <1>1, <1>2 DEF Entries
<1>4. InOrder(<<e>>)
  BY <1>1, <1>2 DEF InOrder
<1> QED BY <1>1, <1>3, <1>4

(* No message. *)
LEMMA NoMessage ==
  << >> \in Seq(Msgs) /\ Entries(<< >>) = {} /\ InOrder(<< >>)
BY DEF Entries, InOrder

(* A session entry more. *)
LEMMA AppendEntry ==
  ASSUME NEW s \in Seq(Msgs), NEW e \in Entry,
         InOrder(s), \A x \in Entries(s) : x.id < e.id
  PROVE  Entries(Append(s, e)) = Entries(s) \cup {e} /\ InOrder(Append(s, e))
<1>1. Append(s, e) = s \o <<e>>
  BY AppendIsConcat DEF Msgs
<1>2. e \in Msgs /\ OfSession(e)
  BY MsgKinds DEF Msgs
<1>3. Entries(<<e>>) = {e} /\ InOrder(<<e>>) /\ <<e>> \in Seq(Msgs)
  BY <1>2, OneMessage
<1>4. Precedes(s, <<e>>)
  BY <1>3 DEF Precedes
<1> QED BY <1>1, <1>3, <1>4, EntriesConcat, InOrderConcat

(* Three sequences, one after the other. *)
LEMMA Parts ==
  ASSUME NEW a \in Seq(Msgs), NEW b \in Seq(Msgs), NEW c \in Seq(Msgs)
  PROVE  /\ Entries(a \o b \o c) = Entries(a) \cup Entries(b) \cup Entries(c)
         /\ InOrder(a \o b \o c) <=>
              /\ InOrder(a) /\ InOrder(b) /\ InOrder(c)
              /\ Precedes(a, b) /\ Precedes(a, c) /\ Precedes(b, c)
<1>1. a \o b \in Seq(Msgs)
  BY ConcatProperties
<1>2. Entries(a \o b) = Entries(a) \cup Entries(b)
  BY EntriesConcat
<1>3. Entries(a \o b \o c) = Entries(a \o b) \cup Entries(c)
  BY <1>1, EntriesConcat
<1>4. InOrder(a \o b \o c) <=> InOrder(a \o b) /\ InOrder(c) /\ Precedes(a \o b, c)
  BY <1>1, InOrderConcat
<1>5. Precedes(a \o b, c) <=> Precedes(a, c) /\ Precedes(b, c)
  BY <1>2 DEF Precedes
<1>6. InOrder(a \o b) <=> InOrder(a) /\ InOrder(b) /\ Precedes(a, b)
  BY InOrderConcat
<1> QED BY <1>2, <1>3, <1>4, <1>5, <1>6

(* The first entries of a queue and the rest. *)
LEMMA Split ==
  ASSUME NEW S, NEW q \in Seq(S), NEW n \in 0 .. Len(q)
  PROVE  /\ SubSeq(q, 1, n) \in Seq(S) /\ SubSeq(q, n + 1, Len(q)) \in Seq(S)
         /\ Len(SubSeq(q, 1, n)) = n /\ Len(SubSeq(q, n + 1, Len(q))) = Len(q) - n
         /\ \A i \in 1 .. n : SubSeq(q, 1, n)[i] = q[i]
         /\ \A i \in 1 .. Len(q) - n : SubSeq(q, n + 1, Len(q))[i] = q[i + n]
         /\ q = SubSeq(q, 1, n) \o SubSeq(q, n + 1, Len(q))
<1> DEFINE a == SubSeq(q, 1, n)
           b == SubSeq(q, n + 1, Len(q))
<1>1. Len(q) \in Nat
  BY LenProperties
<1>2. \A i \in 1 .. n : q[i] \in S
  BY <1>1, ElementOfSeq
<1>3. \A i \in n + 1 .. Len(q) : q[i] \in S
  BY <1>1, ElementOfSeq
<1>4. a \in Seq(S) /\ Len(a) = n /\ \A i \in 1 .. n : a[i] = q[i]
  BY <1>1, <1>2
<1>5. b \in Seq(S) /\ Len(b) = Len(q) - n
  BY <1>1, <1>3
<1>6. \A i \in 1 .. Len(q) - n : b[i] = q[i + n]
  BY <1>1
<1>7. /\ Len(a \o b) = Len(q)
      /\ \A i \in 1 .. Len(q) : (a \o b)[i] = q[i]
      /\ a \o b \in Seq(S)
  <2>1. /\ a \o b \in Seq(S)
        /\ Len(a \o b) = Len(a) + Len(b)
        /\ \A i \in 1 .. Len(a) + Len(b) :
              (a \o b)[i] = IF i <= Len(a) THEN a[i] ELSE b[i - Len(a)]
    BY <1>4, <1>5, ConcatProperties
  <2> HIDE DEF a, b
  <2>2. Len(a) + Len(b) = Len(q)
    BY <1>1, <1>4, <1>5
  <2>3. ASSUME NEW i \in 1 .. Len(q) PROVE (a \o b)[i] = q[i]
    <3>1. CASE i <= n
      BY <1>1, <1>4, <2>1, <2>2, <3>1
    <3>2. CASE ~ (i <= n)
      <4>1. i - n \in 1 .. Len(q) - n /\ (i - n) + n = i
        BY <1>1, <3>2
      <4>2. (a \o b)[i] = b[i - n]
        BY <1>4, <2>1, <2>2, <3>2
      <4> QED BY <1>6, <4>1, <4>2
    <3> QED BY <3>1, <3>2
  <2> QED BY <2>1, <2>2, <2>3
<1> HIDE DEF a, b
<1>8. q = a \o b
  BY <1>7, SeqEqual
<1> QED BY <1>4, <1>5, <1>6, <1>8 DEF a, b

(* The head of a sequence and its tail. *)
LEMMA HeadThenTail ==
  ASSUME NEW S, NEW q \in Seq(S), q # << >>
  PROVE  /\ Head(q) \in S /\ Tail(q) \in Seq(S)
         /\ Len(q) > 0 /\ Len(Tail(q)) = Len(q) - 1
         /\ q = <<Head(q)>> \o Tail(q)
<1>1. /\ Head(q) \in S /\ Tail(q) \in Seq(S) /\ Len(q) > 0 /\ Len(q) \in Nat
      /\ Len(Tail(q)) = Len(q) - 1
      /\ \A i \in 1 .. Len(Tail(q)) : Tail(q)[i] = q[i + 1]
      /\ Head(q) = q[1]
  OBVIOUS
<1> DEFINE w == <<Head(q)>> \o Tail(q)
<1>2. /\ w \in Seq(S) /\ Len(w) = 1 + Len(Tail(q))
      /\ \A i \in 1 .. 1 + Len(Tail(q)) :
            w[i] = IF i <= 1 THEN <<Head(q)>>[i] ELSE Tail(q)[i - 1]
  <2>1. <<Head(q)>> \in Seq(S) /\ Len(<<Head(q)>>) = 1
    BY <1>1
  <2> QED BY <1>1, <2>1, ConcatProperties
<1> HIDE DEF w
<1>3. ASSUME NEW i \in 1 .. Len(q) PROVE w[i] = q[i]
  <2>1. CASE i = 1
    BY <1>1, <1>2, <2>1
  <2>2. CASE i # 1
    <3>1. i - 1 \in 1 .. Len(Tail(q)) /\ (i - 1) + 1 = i /\ ~ (i <= 1)
      BY <1>1, <2>2
    <3> QED BY <1>1, <1>2, <3>1
  <2> QED BY <2>1, <2>2
<1>4. w = q
  BY <1>1, <1>2, <1>3, SeqEqual
<1> QED BY <1>1, <1>4 DEF w

-----------------------------------------------------------------------------
(* The order of what a socket accepted.                                    *)

(* Fifo of one socket, part by part. *)
Ordered(g, p, q, l) ==
    /\ Entries(g) \cup Entries(p) \cup Entries(q) = Entries(l)
    /\ InOrder(g) /\ InOrder(p) /\ InOrder(q) /\ InOrder(l)
    /\ Precedes(g, p) /\ Precedes(g, q) /\ Precedes(p, q)

(* Fifo of one socket, in terms of its three stores. *)
LEMMA FifoOfOne ==
  ASSUME NEW g \in Seq(Msgs), NEW p \in Seq(Msgs), NEW q \in Seq(Msgs), NEW l
  PROVE  /\ Entries(g \o p \o q) = Entries(l)
         /\ InOrder(g \o p \o q) /\ InOrder(l)
         <=> Ordered(g, p, q, l)
<1>1. Entries(g \o p \o q) = Entries(g) \cup Entries(p) \cup Entries(q)
  BY Parts
<1>2. InOrder(g \o p \o q) <=>
        /\ InOrder(g) /\ InOrder(p) /\ InOrder(q)
        /\ Precedes(g, p) /\ Precedes(g, q) /\ Precedes(p, q)
  BY Parts
<1> QED BY <1>1, <1>2 DEF Ordered

(* Fifo is the order of each socket. *)
LEMMA FifoParts ==
  ASSUME TypeOK
  PROVE  Fifo <=> \A k \in Socks : Ordered(got[k], pipe[k], queue[k], log[k])
<1>1. \A k \in Socks : /\ got[k] \in Seq(Msgs) /\ pipe[k] \in Seq(Msgs)
                       /\ queue[k] \in Seq(Msgs)
  BY EntrySeqs DEF TypeOK, Msgs
<1> QED BY <1>1, FifoOfOne DEF Fifo

(* Likewise after a step. *)
LEMMA FifoAfter ==
  ASSUME TypeOK', \A k \in Socks : Ordered(got'[k], pipe'[k], queue'[k], log'[k])
  PROVE  Fifo'
<1>1. \A k \in Socks : /\ got'[k] \in Seq(Msgs) /\ pipe'[k] \in Seq(Msgs)
                       /\ queue'[k] \in Seq(Msgs)
  BY EntrySeqs DEF TypeOK, Msgs
<1> QED BY <1>1, FifoOfOne DEF Fifo

(* backend_send puts an accepted entry behind everything the socket has.   *)
LEMMA SendOrdered ==
  ASSUME NEW g \in Seq(Msgs), NEW p \in Seq(Msgs), NEW q \in Seq(Msgs),
         NEW l \in Seq(Msgs), NEW e \in Entry,
         Ordered(g, p, q, l), \A x \in Entries(l) : x.id < e.id
  PROVE  /\ Ordered(g, p, Append(q, e), Append(l, e))
         /\ q = << >> => Ordered(g, Append(p, e), q, Append(l, e))
<1>1. /\ \A x \in Entries(g) : x.id < e.id
      /\ \A x \in Entries(p) : x.id < e.id
      /\ \A x \in Entries(q) : x.id < e.id
  BY DEF Ordered
<1>2. Entries(Append(q, e)) = Entries(q) \cup {e} /\ InOrder(Append(q, e))
  BY <1>1, AppendEntry DEF Ordered
<1>3. Entries(Append(p, e)) = Entries(p) \cup {e} /\ InOrder(Append(p, e))
  BY <1>1, AppendEntry DEF Ordered
<1>4. Entries(Append(l, e)) = Entries(l) \cup {e} /\ InOrder(Append(l, e))
  BY AppendEntry DEF Ordered
<1>5. Ordered(g, p, Append(q, e), Append(l, e))
  BY <1>1, <1>2, <1>4 DEF Ordered, Precedes
<1>6. ASSUME q = << >> PROVE Ordered(g, Append(p, e), q, Append(l, e))
  <2>1. Entries(q) = {}
    BY <1>6, NoMessage
  <2> QED BY <1>1, <1>3, <1>4, <2>1 DEF Ordered, Precedes
<1> QED BY <1>5, <1>6

(* backend_unqueue moves the first entries of the queue behind the pipe.   *)
LEMMA MoveOrdered ==
  ASSUME NEW g \in Seq(Msgs), NEW p \in Seq(Msgs), NEW a \in Seq(Msgs),
         NEW b \in Seq(Msgs), NEW l \in Seq(Msgs),
         Ordered(g, p, a \o b, l)
  PROVE  Ordered(g, p \o a, b, l)
<1>1. Entries(a \o b) = Entries(a) \cup Entries(b)
  BY EntriesConcat
<1>2. InOrder(a) /\ InOrder(b) /\ Precedes(a, b)
  BY InOrderConcat DEF Ordered
<1>3. Entries(p \o a) = Entries(p) \cup Entries(a)
  BY EntriesConcat
<1>4. Precedes(p, a)
  BY <1>1 DEF Ordered, Precedes
<1>5. InOrder(p \o a)
  BY <1>2, <1>4, InOrderConcat DEF Ordered
<1>6. Precedes(g, p \o a) /\ Precedes(g, b) /\ Precedes(p \o a, b)
  BY <1>1, <1>2, <1>3 DEF Ordered, Precedes
<1> QED BY <1>1, <1>2, <1>3, <1>5, <1>6 DEF Ordered

(* The backend takes the head of the pipe; it keeps a session entry.       *)
LEMMA ReadOrdered ==
  ASSUME NEW g \in Seq(Msgs), NEW m \in Msgs, NEW p \in Seq(Msgs),
         NEW q \in Seq(Msgs), NEW l \in Seq(Msgs),
         Ordered(g, <<m>> \o p, q, l)
  PROVE  Ordered(IF OfSession(m) THEN Append(g, m) ELSE g, p, q, l)
<1>1. /\ <<m>> \in Seq(Msgs)
      /\ Entries(<<m>>) = IF OfSession(m) THEN {m} ELSE {}
  BY OneMessage
<1>2. Entries(<<m>> \o p) = Entries(<<m>>) \cup Entries(p)
  BY <1>1, EntriesConcat
<1>3. InOrder(p) /\ Precedes(<<m>>, p)
  BY <1>1, InOrderConcat DEF Ordered
<1>4. CASE OfSession(m)
  <2>1. m \in Entry
    BY <1>4, MsgKinds
  <2>2. \A x \in Entries(g) : x.id < m.id
    BY <1>1, <1>2, <1>4 DEF Ordered, Precedes
  <2>3. Entries(Append(g, m)) = Entries(g) \cup {m} /\ InOrder(Append(g, m))
    BY <2>1, <2>2, AppendEntry DEF Ordered
  <2>4. Ordered(Append(g, m), p, q, l)
    BY <1>1, <1>2, <1>3, <1>4, <2>3 DEF Ordered, Precedes
  <2> QED BY <1>4, <2>4
<1>5. CASE ~ OfSession(m)
  <2>1. Ordered(g, p, q, l)
    BY <1>1, <1>2, <1>3, <1>5 DEF Ordered, Precedes
  <2> QED BY <1>5, <2>1
<1> QED BY <1>4, <1>5

(* A heartbeat or sync behind the pipe changes nothing. *)
LEMMA BeatOrdered ==
  ASSUME NEW g \in Seq(Msgs), NEW p \in Seq(Msgs), NEW q \in Seq(Msgs),
         NEW l \in Seq(Msgs), Ordered(g, p, q, l)
  PROVE  Ordered(g, Append(p, Beat), q, l) /\ Entries(Append(p, Beat)) = Entries(p)
<1>1. Append(p, Beat) = p \o <<Beat>>
  BY AppendIsConcat DEF Msgs
<1>2. /\ <<Beat>> \in Seq(Msgs) /\ Entries(<<Beat>>) = {} /\ InOrder(<<Beat>>)
  BY OneMessage, MsgKinds DEF Msgs
<1>3. Entries(p \o <<Beat>>) = Entries(p)
  <2>1. Entries(p \o <<Beat>>) = Entries(p) \cup Entries(<<Beat>>)
    BY <1>2, EntriesConcat
  <2> QED BY <1>2, <2>1
<1>4. InOrder(p \o <<Beat>>)
  <2>1. InOrder(p) /\ Precedes(p, <<Beat>>)
    BY <1>2 DEF Ordered, Precedes
  <2> QED BY <1>2, <2>1, InOrderConcat
<1> QED BY <1>1, <1>3, <1>4 DEF Ordered, Precedes

-----------------------------------------------------------------------------
(* What backend_send does.                                                 *)

(* It appends the entry to pipe, queue or neither, and to the log unless   *)
(* it was refused; where it was not "forced", it is never refused.         *)
LEMMA SendCases ==
  ASSUME TypeOK, NEW S, NEW e, NEW force \in BOOLEAN,
         backend_send(S, e, force), NEW k \in Socks
  PROVE  \/ /\ k \in S /\ GoesOut(k) /\ k \notin Queued(S, force)
            /\ pipe'[k] = Append(pipe[k], e) /\ queue'[k] = queue[k]
            /\ log'[k] = Append(log[k], e)
         \/ /\ k \in S /\ ~ GoesOut(k) /\ k \in Queued(S, force)
            /\ pipe'[k] = pipe[k] /\ queue'[k] = Append(queue[k], e)
            /\ log'[k] = Append(log[k], e)
         \/ /\ k \in S => force
            /\ k \notin Queued(S, force)
            /\ pipe'[k] = pipe[k] /\ queue'[k] = queue[k] /\ log'[k] = log[k]
<1>1. /\ pipe'[k] = IF k \in S /\ GoesOut(k) THEN Append(pipe[k], e) ELSE pipe[k]
      /\ queue'[k] = IF k \in Queued(S, force) THEN Append(queue[k], e) ELSE queue[k]
      /\ log'[k] = IF k \in S /\ (GoesOut(k) \/ HasRoom(k, force))
                   THEN Append(log[k], e) ELSE log[k]
  BY DEF backend_send
<1>2. k \in Queued(S, force) <=> k \in S /\ ~ GoesOut(k) /\ HasRoom(k, force)
  BY DEF Queued
<1>3. ~ force => HasRoom(k, force)
  BY DEF HasRoom
<1> QED BY <1>1, <1>2, <1>3

(* backend_send keeps the types of what it changes. *)
LEMMA SendTypes ==
  ASSUME TypeOK, NEW S, NEW e \in Entry, NEW force \in BOOLEAN,
         backend_send(S, e, force)
  PROVE  /\ pipe' \in [Socks -> Seq(Msgs)]
         /\ queue' \in [Socks -> Seq(Entry)]
         /\ log' \in [Socks -> Seq(Entry)]
         /\ events' \in Nat
<1>1. e \in Msgs
  BY DEF Msgs
<1>2. \A k \in Socks : pipe[k] \in Seq(Msgs) /\ queue[k] \in Seq(Entry) /\ log[k] \in Seq(Entry)
  BY DEF TypeOK, Msgs
<1>3. \A k \in Socks : Append(pipe[k], e) \in Seq(Msgs)
  BY <1>1, <1>2, AppendProperties
<1>4. \A k \in Socks : Append(queue[k], e) \in Seq(Entry) /\ Append(log[k], e) \in Seq(Entry)
  BY <1>2, AppendProperties
<1>5. events' \in Nat
  BY DEF backend_send, TypeOK
<1>6. pipe' \in [Socks -> Seq(Msgs)]
  BY <1>2, <1>3 DEF backend_send
<1>7. queue' \in [Socks -> Seq(Entry)]
  BY <1>2, <1>4 DEF backend_send
<1>8. log' \in [Socks -> Seq(Entry)]
  BY <1>2, <1>4 DEF backend_send
<1> QED BY <1>5, <1>6, <1>7, <1>8

(* An event keeps the order and the numbering, and adds one entry to the   *)
(* log of the sockets that accept it.                                      *)
LEMMA SendLog ==
  ASSUME TypeOK, Fifo, Numbered, NEW S, NEW e \in Entry, NEW force \in BOOLEAN,
         e.id = events, backend_send(S, e, force), UNCHANGED got
  PROVE  /\ \A k \in Socks : Ordered(got[k], pipe[k], queue[k], log[k])'
         /\ \A k \in Socks : /\ Entries(log'[k]) \subseteq Entries(log[k]) \cup {e}
                             /\ Entries(log[k]) \subseteq Entries(log'[k])
                             /\ k \in S /\ ~ force => e \in Entries(log'[k])
         /\ Numbered'
<1>1. ASSUME NEW k \in Socks
      PROVE  /\ Ordered(got'[k], pipe'[k], queue'[k], log'[k])
             /\ Entries(log'[k]) \subseteq Entries(log[k]) \cup {e}
             /\ Entries(log[k]) \subseteq Entries(log'[k])
             /\ k \in S /\ ~ force => e \in Entries(log'[k])
  <2>1. /\ got[k] \in Seq(Msgs) /\ pipe[k] \in Seq(Msgs)
        /\ queue[k] \in Seq(Msgs) /\ log[k] \in Seq(Msgs)
    BY EntrySeqs DEF TypeOK, Msgs
  <2>2. Ordered(got[k], pipe[k], queue[k], log[k])
    BY FifoParts
  <2>3. \A x \in Entries(log[k]) : x.id < e.id
    BY DEF Numbered
  <2>4. /\ Ordered(got[k], pipe[k], Append(queue[k], e), Append(log[k], e))
        /\ queue[k] = << >> =>
              Ordered(got[k], Append(pipe[k], e), queue[k], Append(log[k], e))
    BY <2>1, <2>2, <2>3, SendOrdered
  <2>5. Entries(Append(log[k], e)) = Entries(log[k]) \cup {e}
    BY <2>1, <2>2, <2>3, AppendEntry DEF Ordered
  <2>6. GoesOut(k) => queue[k] = << >>
    BY DEF GoesOut
  <2>7. got'[k] = got[k]
    OBVIOUS
  <2>8. CASE /\ GoesOut(k) /\ pipe'[k] = Append(pipe[k], e) /\ queue'[k] = queue[k]
             /\ log'[k] = Append(log[k], e)
    <3>1. Ordered(got'[k], pipe'[k], queue'[k], log'[k])
      BY <2>4, <2>6, <2>7, <2>8
    <3>2. Entries(log'[k]) = Entries(log[k]) \cup {e}
      BY <2>5, <2>8
    <3> QED BY <3>1, <3>2
  <2>9. CASE /\ pipe'[k] = pipe[k] /\ queue'[k] = Append(queue[k], e)
             /\ log'[k] = Append(log[k], e)
    <3>1. Ordered(got'[k], pipe'[k], queue'[k], log'[k])
      BY <2>4, <2>7, <2>9
    <3>2. Entries(log'[k]) = Entries(log[k]) \cup {e}
      BY <2>5, <2>9
    <3> QED BY <3>1, <3>2
  <2>10. CASE /\ pipe'[k] = pipe[k] /\ queue'[k] = queue[k]
              /\ log'[k] = log[k] /\ (k \in S => force)
    <3>1. Ordered(got'[k], pipe'[k], queue'[k], log'[k])
      BY <2>2, <2>7, <2>10
    <3> QED BY <2>10, <3>1
  <2> QED BY <2>8, <2>9, <2>10, SendCases
<1>2. Numbered'
  <2> SUFFICES ASSUME NEW k \in Socks, NEW x \in Entries(log'[k])
               PROVE  x.id < events + 1
    BY DEF Numbered, backend_send
  <2>1. events \in Nat
    BY DEF TypeOK
  <2>2. CASE x = e
    BY <2>1, <2>2
  <2>3. CASE x \in Entries(log[k])
    <3>1. x.id < events
      BY <2>3 DEF Numbered
    <3>2. x.id \in Nat
      BY <2>3, EntriesType, EntrySeqs DEF TypeOK
    <3> QED BY <2>1, <3>1, <3>2
  <2> QED BY <1>1, <2>2, <2>3
<1> QED BY <1>1, <1>2

(* A pipe never takes more than Hwm, and an entry is queued only behind    *)
(* others, under a pause or behind a full pipe.                            *)
LEMMA SendWakeup ==
  ASSUME TypeOK, PipeBounded, NoLostWakeup, NEW S, NEW e \in Entry,
         NEW force \in BOOLEAN, backend_send(S, e, force),
         UNCHANGED <<paused, wake, stolen>>
  PROVE  PipeBounded' /\ NoLostWakeup'
<1> SUFFICES ASSUME NEW k \in Socks
             PROVE  /\ Len(pipe'[k]) <= Hwm
                    /\ ~ paused /\ queue'[k] # << >> =>
                         wake[k] # {} \/ Len(pipe'[k]) = Hwm \/ stolen[k]
  BY DEF PipeBounded, NoLostWakeup
<1>1. /\ pipe[k] \in Seq(Msgs) /\ queue[k] \in Seq(Entry) /\ e \in Msgs
      /\ Len(pipe[k]) \in Nat /\ Len(pipe[k]) <= Hwm /\ Hwm \in Nat
  BY SizesAssumption DEF TypeOK, Msgs, PipeBounded
<1>2. Len(Append(pipe[k], e)) = Len(pipe[k]) + 1
  BY <1>1, AppendProperties
<1>3. ~ paused /\ queue[k] # << >> =>
        wake[k] # {} \/ Len(pipe[k]) = Hwm \/ stolen[k]
  BY DEF NoLostWakeup
<1>4. CASE GoesOut(k) /\ pipe'[k] = Append(pipe[k], e) /\ queue'[k] = queue[k]
  BY <1>1, <1>2, <1>4 DEF GoesOut
<1>5. CASE ~ GoesOut(k) /\ pipe'[k] = pipe[k]
  BY <1>1, <1>3, <1>5 DEF GoesOut
<1>6. CASE pipe'[k] = pipe[k] /\ queue'[k] = queue[k]
  BY <1>1, <1>3, <1>6
<1> QED BY <1>4, <1>5, <1>6, SendCases

-----------------------------------------------------------------------------
(* The entries that refer to a session.                                    *)

(* Two sets in one-to-one correspondence have as many elements. *)
LEMMA SameSize ==
  ASSUME NEW S, NEW T, IsFiniteSet(S), NEW f \in [S -> T],
         \A x, y \in S : f[x] = f[y] => x = y,
         \A t \in T : \E x \in S : f[x] = t
  PROVE  IsFiniteSet(T) /\ Cardinality(T) = Cardinality(S)
<1>1. f \in Bijection(S, T)
  BY DEF Bijection, Injection, Surjection, IsInjective
<1>2. ExistsBijection(S, T)
  BY <1>1 DEF ExistsBijection
<1> QED BY <1>2, FS_Bijection

(* A reference is a place in a queue. *)
LEMMA ReferencePlaces ==
  ASSUME NEW q, NEW h
  PROVE  \A x : x \in References(q, h) <=>
           \E k \in Socks : \E i \in 1 .. Len(q[k]) :
              x = <<k, i>> /\ q[k][i].hybi = h
BY DEF References

(* A route has finitely many sockets. *)
LEMMA SocksFinite == IsFiniteSet(Socks) /\ Forward \in Socks
<1>1. IsFiniteSet({Forward})
  BY FS_Singleton
<1> QED BY <1>1, NamedAssumption, FS_Union DEF Socks

(* Finitely many queued entries refer to a session, *)
LEMMA FiniteReferences ==
  ASSUME NEW q \in [Socks -> Seq(Entry)], NEW h
  PROVE  IsFiniteSet(References(q, h))
<1> DEFINE At(k) == {<<k, i>> : i \in {j \in 1 .. Len(q[k]) : q[k][j].hybi = h}}
           F == [k \in Socks |-> At(k)]
           All == {At(k) : k \in Socks}
<1>1. F \in Surjection(Socks, All)
  <2> HIDE DEF At
  <2> QED BY DEF Surjection
<1>2. IsFiniteSet(All)
  BY <1>1, SocksFinite, FS_Surjection
<1>3. ASSUME NEW k \in Socks PROVE IsFiniteSet(At(k))
  <2> DEFINE I == {j \in 1 .. Len(q[k]) : q[k][j].hybi = h}
             G == [i \in I |-> <<k, i>>]
  <2>1. Len(q[k]) \in Nat
    OBVIOUS
  <2>2. IsFiniteSet(1 .. Len(q[k]))
    BY <2>1, FS_Interval
  <2>3. IsFiniteSet(I)
    BY <2>2, FS_Subset
  <2>4. G \in Surjection(I, At(k))
    BY DEF Surjection
  <2> QED BY <2>3, <2>4, FS_Surjection
<1>4. References(q, h) = UNION All
  BY DEF References
<1> HIDE DEF All, At
<1>5. \A T \in All : IsFiniteSet(T)
  BY <1>3 DEF All
<1>6. IsFiniteSet(UNION All)
  BY <1>2, <1>5, FS_UNION
<1> QED BY <1>4, <1>6

(* so that they can be counted. *)
LEMMA ReferencesFinite ==
  ASSUME NEW q \in [Socks -> Seq(Entry)], NEW h
  PROVE  /\ IsFiniteSet(References(q, h)) /\ Cardinality(References(q, h)) \in Nat
         /\ Cardinality(References(q, h)) = 0 <=> References(q, h) = {}
BY FiniteReferences, FS_CardinalityType, FS_EmptySet

(* backend_send adds a reference for each socket that queues the entry.    *)
LEMMA SendRefs ==
  ASSUME TypeOK, NEW S, NEW e \in Entry, NEW force \in BOOLEAN,
         S \subseteq Socks, backend_send(S, e, force)
  PROVE  /\ Cardinality(Queued(S, force)) \in Nat
         /\ \A h \in Hybis :
              /\ Cardinality(References(queue, h)) \in Nat
              /\ Cardinality(References(queue', h)) \in Nat
              /\ Cardinality(References(queue', h)) = 0 <=> References(queue', h) = {}
              /\ h # e.hybi => References(queue', h) = References(queue, h)
              /\ h = e.hybi => Cardinality(References(queue', h)) =
                    Cardinality(References(queue, h)) + Cardinality(Queued(S, force))
<1> DEFINE Q == Queued(S, force)
           New == {<<k, Len(queue[k]) + 1>> : k \in Q}
           f == [k \in Q |-> <<k, Len(queue[k]) + 1>>]
<1>1. Q \subseteq Socks
  BY DEF Queued
<1>2. IsFiniteSet(Q) /\ Cardinality(Q) \in Nat
  BY <1>1, SocksFinite, FS_Subset, FS_CardinalityType
<1>3. IsFiniteSet(New) /\ Cardinality(New) = Cardinality(Q)
  <2>1. f \in [Q -> New]
    OBVIOUS
  <2>2. \A x, y \in Q : f[x] = f[y] => x = y
    OBVIOUS
  <2>3. \A t \in New : \E x \in Q : f[x] = t
    OBVIOUS
  <2> HIDE DEF f, New, Q
  <2> QED BY <1>2, <2>1, <2>2, <2>3, SameSize
<1>4. ASSUME NEW k \in Socks
      PROVE  /\ Len(queue[k]) \in Nat
             /\ k \in Q => /\ Len(queue'[k]) = Len(queue[k]) + 1
                           /\ queue'[k][Len(queue[k]) + 1] = e
                           /\ \A i \in 1 .. Len(queue[k]) : queue'[k][i] = queue[k][i]
             /\ k \notin Q => queue'[k] = queue[k]
  <2>1. queue[k] \in Seq(Entry)
    BY DEF TypeOK
  <2>2. k \in Q => queue'[k] = Append(queue[k], e)
    BY DEF backend_send
  <2>3. k \notin Q => queue'[k] = queue[k]
    BY DEF backend_send
  <2>4. Len(queue[k]) \in Nat
    BY <2>1, LenProperties
  <2>5. k \in Q => /\ Len(queue'[k]) = Len(queue[k]) + 1
                   /\ queue'[k][Len(queue[k]) + 1] = e
                   /\ \A i \in 1 .. Len(queue[k]) : queue'[k][i] = queue[k][i]
    BY <2>1, <2>2, AppendProperties
  <2> QED BY <2>3, <2>4, <2>5
<1> HIDE DEF Q
<1>5. ASSUME NEW h \in Hybis
      PROVE  References(queue', h) = References(queue, h) \cup (IF h = e.hybi THEN New ELSE {})
  <2>1. ASSUME NEW x, x \in References(queue', h)
        PROVE  x \in References(queue, h) \/ (h = e.hybi /\ x \in New)
    <3>1k. PICK k \in Socks : \E i \in 1 .. Len(queue'[k]) : x = <<k, i>> /\ queue'[k][i].hybi = h
      BY <2>1 DEF References
    <3>1. PICK i \in 1 .. Len(queue'[k]) : x = <<k, i>> /\ queue'[k][i].hybi = h
      BY <3>1k
    <3>2. CASE i \in 1 .. Len(queue[k])
      <4>1. queue[k][i].hybi = h
        BY <1>4, <3>1, <3>2
      <4> QED BY <3>1, <3>2, <4>1, ReferencePlaces
    <3>3. CASE i \notin 1 .. Len(queue[k])
      <4>1. k \in Q
        BY <1>4, <3>1, <3>3
      <4>2. i = Len(queue[k]) + 1
        BY <1>4, <3>1, <3>3, <4>1
      <4>3. queue'[k][i] = e
        BY <1>4, <4>1, <4>2
      <4> QED BY <3>1, <4>1, <4>2, <4>3
    <3> QED BY <3>2, <3>3
  <2>2. ASSUME NEW x, x \in References(queue, h)
        PROVE  x \in References(queue', h)
    <3>1k. PICK k \in Socks : \E i \in 1 .. Len(queue[k]) : x = <<k, i>> /\ queue[k][i].hybi = h
      BY <2>2, ReferencePlaces
    <3>1. PICK i \in 1 .. Len(queue[k]) : x = <<k, i>> /\ queue[k][i].hybi = h
      BY <3>1k
    <3>2. i \in 1 .. Len(queue'[k]) /\ queue'[k][i] = queue[k][i]
      BY <1>4, <3>1
    <3> QED BY <3>1, <3>2 DEF References
  <2>3. ASSUME h = e.hybi, NEW k \in Q
        PROVE  <<k, Len(queue[k]) + 1>> \in References(queue', h)
    <3>1. /\ k \in Socks
          /\ Len(queue[k]) + 1 \in 1 .. Len(queue'[k])
          /\ queue'[k][Len(queue[k]) + 1].hybi = h
      BY <1>1, <1>4, <2>3
    <3> QED BY <3>1 DEF References
  <2> QED BY <2>1, <2>2, <2>3
<1>6. ASSUME NEW h \in Hybis PROVE References(queue, h) \cap New = {}
  <2> SUFFICES ASSUME NEW x, x \in References(queue, h), x \in New PROVE FALSE
    OBVIOUS
  <2>1k. PICK k \in Socks : \E i \in 1 .. Len(queue[k]) : x = <<k, i>>
    BY ReferencePlaces
  <2>1. PICK i \in 1 .. Len(queue[k]) : x = <<k, i>>
    BY <2>1k
  <2>2. PICK j \in Q : x = <<j, Len(queue[j]) + 1>>
    OBVIOUS
  <2>3. k = j /\ i = Len(queue[k]) + 1
    BY <2>1, <2>2
  <2> QED BY <1>4, <2>1, <2>3
<1> HIDE DEF New
<1>7. ASSUME NEW h \in Hybis, h = e.hybi
      PROVE  Cardinality(References(queue', h)) = Cardinality(References(queue, h)) + Cardinality(Q)
  <2>1. References(queue', h) = References(queue, h) \cup New
    BY <1>5, <1>7
  <2>2. IsFiniteSet(References(queue, h)) /\ Cardinality(References(queue, h)) \in Nat
    BY ReferencesFinite DEF TypeOK
  <2>3. Cardinality(References(queue, h) \cap New) = 0
    BY <1>6, FS_EmptySet
  <2>4. Cardinality(References(queue, h) \cup New) =
           Cardinality(References(queue, h)) + Cardinality(New) - Cardinality(References(queue, h) \cap New)
    BY <1>3, <2>2, FS_Union
  <2> QED BY <1>2, <1>3, <2>1, <2>2, <2>3, <2>4
<1>8. \A h \in Hybis : h # e.hybi => References(queue', h) = References(queue, h)
  BY <1>5
<1>9. queue' \in [Socks -> Seq(Entry)]
  BY SendTypes
<1>10. \A h \in Hybis :
         /\ Cardinality(References(queue, h)) \in Nat
         /\ Cardinality(References(queue', h)) \in Nat
         /\ Cardinality(References(queue', h)) = 0 <=> References(queue', h) = {}
  BY <1>9, ReferencesFinite DEF TypeOK
<1> QED BY <1>2, <1>7, <1>8, <1>10 DEF Q

(* What backend_unqueue moves, and what it leaves in the queue. *)
LEMMA UnqueueShape ==
  ASSUME TypeOK, PipeBounded, NEW k \in Socks, backend_unqueue(k)
  PROVE  /\ Movable(k) \in 0 .. Len(queue[k])
         /\ queue[k] = SubSeq(queue[k], 1, Movable(k)) \o queue'[k]
         /\ queue'[k] = SubSeq(queue[k], Movable(k) + 1, Len(queue[k]))
         /\ queue'[k] \in Seq(Entry)
         /\ SubSeq(queue[k], 1, Movable(k)) \in Seq(Entry)
         /\ Len(SubSeq(queue[k], 1, Movable(k))) = Movable(k)
         /\ Len(queue'[k]) = Len(queue[k]) - Movable(k)
         /\ \A i \in 1 .. Len(queue[k]) - Movable(k) : queue'[k][i] = queue[k][i + Movable(k)]
         /\ pipe'[k] = pipe[k] \o SubSeq(queue[k], 1, Movable(k))
         /\ \A j \in Socks : j # k => queue'[j] = queue[j] /\ pipe'[j] = pipe[j]
<1> DEFINE n == Movable(k)
<1>1. queue[k] \in Seq(Entry) /\ Len(queue[k]) \in Nat
  BY DEF TypeOK
<1>2. n \in 0 .. Len(queue[k])
  <2>1. pipe[k] \in Seq(Msgs)
    BY DEF TypeOK, Msgs
  <2>2. Len(pipe[k]) \in Nat /\ Len(pipe[k]) <= Hwm
    BY <2>1, LenProperties DEF PipeBounded
  <2>3. Hwm - Len(pipe[k]) \in Nat
    BY <2>2, SizesAssumption
  <2> QED BY <1>1, <2>3 DEF Movable
<1>3. /\ queue'[k] = SubSeq(queue[k], n + 1, Len(queue[k]))
      /\ pipe'[k] = pipe[k] \o SubSeq(queue[k], 1, n)
      /\ \A j \in Socks : j # k => queue'[j] = queue[j] /\ pipe'[j] = pipe[j]
  BY DEF backend_unqueue, TypeOK
<1> HIDE DEF n
<1>4. /\ SubSeq(queue[k], 1, n) \in Seq(Entry)
      /\ SubSeq(queue[k], n + 1, Len(queue[k])) \in Seq(Entry)
      /\ Len(SubSeq(queue[k], 1, n)) = n
      /\ Len(SubSeq(queue[k], n + 1, Len(queue[k]))) = Len(queue[k]) - n
      /\ \A i \in 1 .. Len(queue[k]) - n :
            SubSeq(queue[k], n + 1, Len(queue[k]))[i] = queue[k][i + n]
      /\ queue[k] = SubSeq(queue[k], 1, n) \o SubSeq(queue[k], n + 1, Len(queue[k]))
  BY <1>1, <1>2, Split
<1>5. QED BY <1>2, <1>3, <1>4 DEF n

(* backend_unqueue takes away a reference for each entry it moves; the     *)
(* others are the same entries, nearer to the head.                        *)
LEMMA UnqueueRefs ==
  ASSUME TypeOK, PipeBounded, NEW k \in Socks, backend_unqueue(k), NEW h \in Hybis
  PROVE  /\ Cardinality(Moved(k, h)) \in Nat
         /\ Cardinality(References(queue', h)) = Cardinality(References(queue, h)) - Cardinality(Moved(k, h))
         /\ Moved(k, h) = {} => Cardinality(Moved(k, h)) = 0
         /\ Moved(k, h) # {} => References(queue, h) # {}
<1> DEFINE n == Movable(k)
           Out == {<<k, i>> : i \in Moved(k, h)}
           Stay == References(queue, h) \ Out
           f == [x \in Stay |-> IF x[1] = k THEN <<k, x[2] - n>> ELSE x]
           g == [i \in Moved(k, h) |-> <<k, i>>]
<1>1. /\ n \in 0 .. Len(queue[k])
      /\ Len(queue'[k]) = Len(queue[k]) - n
      /\ \A i \in 1 .. Len(queue[k]) - n : queue'[k][i] = queue[k][i + n]
      /\ \A j \in Socks : j # k => queue'[j] = queue[j]
  BY UnqueueShape
<1>2. \A j \in Socks : Len(queue[j]) \in Nat
  BY DEF TypeOK
<1>3. Moved(k, h) = {i \in 1 .. n : queue[k][i].hybi = h}
  BY DEF Moved
<1> HIDE DEF n
<1>4. IsFiniteSet(Moved(k, h)) /\ Cardinality(Moved(k, h)) \in Nat
  <2>1. IsFiniteSet(1 .. n)
    BY <1>1, <1>2, FS_Interval
  <2>2. Moved(k, h) \in SUBSET (1 .. n)
    BY <1>3
  <2>3. IsFiniteSet(Moved(k, h))
    BY <2>1, <2>2, FS_Subset
  <2> QED BY <2>3, FS_CardinalityType
<1>5. Out \subseteq References(queue, h)
  <2> SUFFICES ASSUME NEW i \in Moved(k, h) PROVE <<k, i>> \in References(queue, h)
    OBVIOUS
  <2>1. i \in 1 .. Len(queue[k]) /\ queue[k][i].hybi = h
    BY <1>1, <1>2, <1>3
  <2> QED BY <2>1, ReferencePlaces
<1>6. Cardinality(Out) = Cardinality(Moved(k, h))
  <2>1. g \in [Moved(k, h) -> Out]
    OBVIOUS
  <2>2. \A x, y \in Moved(k, h) : g[x] = g[y] => x = y
    OBVIOUS
  <2>3. \A t \in Out : \E x \in Moved(k, h) : g[x] = t
    OBVIOUS
  <2> HIDE DEF g, Out
  <2> QED BY <1>4, <2>1, <2>2, <2>3, SameSize
<1>7. IsFiniteSet(References(queue, h)) /\ Cardinality(References(queue, h)) \in Nat
  BY ReferencesFinite DEF TypeOK
<1>8. /\ IsFiniteSet(Stay)
      /\ Cardinality(Stay) = Cardinality(References(queue, h)) - Cardinality(Moved(k, h))
  <2>1. References(queue, h) \cap Out = Out
    BY <1>5
  <2> HIDE DEF Out
  <2>2. /\ IsFiniteSet(References(queue, h) \ Out)
        /\ Cardinality(References(queue, h) \ Out) =
              Cardinality(References(queue, h)) - Cardinality(References(queue, h) \cap Out)
    BY <1>7, FS_Difference
  <2> QED BY <1>6, <2>1, <2>2
<1>9. ASSUME NEW x \in Stay
      PROVE  /\ f[x] \in References(queue', h)
             /\ \E j \in Socks : \E i \in 1 .. Len(queue[j]) :
                   /\ x = <<j, i>> /\ queue[j][i].hybi = h
                   /\ j = k => i \in n + 1 .. Len(queue[k]) /\ f[x] = <<k, i - n>>
                   /\ j # k => f[x] = x
  <2>1. PICK j \in Socks : \E i \in 1 .. Len(queue[j]) : x = <<j, i>> /\ queue[j][i].hybi = h
    BY ReferencePlaces
  <2>2. PICK i \in 1 .. Len(queue[j]) : x = <<j, i>> /\ queue[j][i].hybi = h
    BY <2>1
  <2>3. CASE j = k
    <3>1. i \notin Moved(k, h)
      BY <2>2, <2>3
    <3>2. i \in n + 1 .. Len(queue[k])
      BY <1>1, <1>2, <1>3, <2>2, <2>3, <3>1
    <3>3. f[x] = <<k, i - n>>
      BY <2>2, <2>3
    <3>4. i - n \in 1 .. Len(queue'[k]) /\ (i - n) + n = i
      BY <1>1, <1>2, <3>2
    <3>5. queue'[k][i - n].hybi = h
      BY <1>1, <2>2, <2>3, <3>4
    <3>6. f[x] \in References(queue', h)
      BY <3>3, <3>4, <3>5 DEF References
    <3> QED BY <2>2, <2>3, <3>2, <3>3, <3>6
  <2>4. CASE j # k
    <3>1. f[x] = x
      BY <2>2, <2>4
    <3>2. queue'[j] = queue[j]
      BY <1>1, <2>4
    <3>3. x \in References(queue', h)
      BY <2>2, <3>2 DEF References
    <3> QED BY <2>2, <2>4, <3>1, <3>3
  <2> QED BY <2>3, <2>4
<1>10. ASSUME NEW x \in Stay, NEW y \in Stay, f[x] = f[y] PROVE x = y
  <2> HIDE DEF f, Stay
  <2>1. PICK j \in Socks : \E i \in 1 .. Len(queue[j]) :
           /\ x = <<j, i>>
           /\ j = k => i \in n + 1 .. Len(queue[k]) /\ f[x] = <<k, i - n>>
           /\ j # k => f[x] = x
    BY <1>9
  <2>2. PICK i \in 1 .. Len(queue[j]) :
           /\ x = <<j, i>>
           /\ j = k => i \in n + 1 .. Len(queue[k]) /\ f[x] = <<k, i - n>>
           /\ j # k => f[x] = x
    BY <2>1
  <2>3. PICK p \in Socks : \E q \in 1 .. Len(queue[p]) :
           /\ y = <<p, q>>
           /\ p = k => q \in n + 1 .. Len(queue[k]) /\ f[y] = <<k, q - n>>
           /\ p # k => f[y] = y
    BY <1>9
  <2>4. PICK q \in 1 .. Len(queue[p]) :
           /\ y = <<p, q>>
           /\ p = k => q \in n + 1 .. Len(queue[k]) /\ f[y] = <<k, q - n>>
           /\ p # k => f[y] = y
    BY <2>3
  <2>5. j = p
    BY <1>10, <2>2, <2>4
  <2>6. j = k => i - n = q - n
    BY <1>10, <2>2, <2>4, <2>5
  <2>7. j = k => i = q
    BY <1>1, <1>2, <2>2, <2>4, <2>5, <2>6
  <2> QED BY <1>10, <2>2, <2>4, <2>5, <2>7
<1>11. ASSUME NEW t \in References(queue', h) PROVE \E x \in Stay : f[x] = t
  <2>1. PICK j \in Socks : \E i \in 1 .. Len(queue'[j]) : t = <<j, i>> /\ queue'[j][i].hybi = h
    BY <1>11 DEF References
  <2>2. PICK i \in 1 .. Len(queue'[j]) : t = <<j, i>> /\ queue'[j][i].hybi = h
    BY <2>1
  <2>3. CASE j = k
    <3>1. i \in 1 .. Len(queue[k]) - n /\ i + n \in 1 .. Len(queue[k]) /\ ~ (i + n \in 1 .. n)
      BY <1>1, <1>2, <2>2, <2>3
    <3>2. queue[k][i + n].hybi = h
      BY <1>1, <2>2, <2>3, <3>1
    <3>3. <<k, i + n>> \in References(queue, h)
      BY <3>1, <3>2, ReferencePlaces
    <3>4. <<k, i + n>> \in Stay
      BY <1>3, <3>1, <3>3
    <3>5. f[<<k, i + n>>] = <<k, (i + n) - n>> /\ (i + n) - n = i
      BY <1>1, <1>2, <2>2, <3>4
    <3> QED BY <2>2, <2>3, <3>4, <3>5
  <2>4. CASE j # k
    <3>1. queue'[j] = queue[j]
      BY <1>1, <2>4
    <3>2. t \in References(queue, h)
      BY <2>2, <3>1, ReferencePlaces
    <3>3. t \in Stay /\ f[t] = t
      BY <2>2, <2>4, <3>2
    <3> QED BY <3>3
  <2> QED BY <2>3, <2>4
<1>12. Cardinality(References(queue', h)) = Cardinality(Stay)
  <2>1. f \in [Stay -> References(queue', h)]
    BY <1>9
  <2> HIDE DEF f, Stay
  <2> QED BY <1>8, <1>10, <1>11, <2>1, SameSize
<1>13. Moved(k, h) = {} => Cardinality(Moved(k, h)) = 0
  BY FS_EmptySet
<1>14. Moved(k, h) # {} => References(queue, h) # {}
  BY <1>5
<1> QED BY <1>4, <1>8, <1>12, <1>13, <1>14

-----------------------------------------------------------------------------
(* The initial state, and each action.                                     *)

(* The inductive invariant holds initially. *)
LEMMA InitInv == Init => IndInv
<1> SUFFICES ASSUME Init PROVE IndInv
  OBVIOUS
<1>1. TypeOK
  <2>1. << >> \in Seq(Entry) /\ << >> \in Seq(Entry \cup {Beat})
    OBVIOUS
  <2>2. /\ queue \in [Socks -> Seq(Entry)] /\ got \in [Socks -> Seq(Entry)]
        /\ log \in [Socks -> Seq(Entry)] /\ pipe \in [Socks -> Seq(Entry \cup {Beat})]
    BY <2>1 DEF Init
  <2>3. /\ wake \in [Socks -> SUBSET {"fed", "signal"}]
        /\ outputs \in [Hybis -> SUBSET Named]
    BY DEF Init
  <2>4. /\ paused \in BOOLEAN /\ stolen \in [Socks -> BOOLEAN]
    BY DEF Init
  <2>5. /\ state \in [Hybis -> {"none", "live", "stopped", "freed"}]
        /\ refcnt \in [Hybis -> Int] /\ events \in Nat /\ beats \in Nat
    BY DEF Init
  <2> QED BY <2>2, <2>3, <2>4, <2>5 DEF TypeOK
<1>2. \A k \in Socks : got[k] = << >> /\ pipe[k] = << >> /\ queue[k] = << >> /\ log[k] = << >>
  BY DEF Init
<1>3. Fifo
  <2>1. Ordered(<< >>, << >>, << >>, << >>)
    BY NoMessage DEF Ordered, Precedes
  <2> QED BY <1>1, <1>2, <2>1, FifoParts
<1>4. \A k \in Socks : Entries(log[k]) = {}
  BY <1>2, NoMessage
<1>5. Numbered /\ Announced /\ Bracketed
  BY <1>4, SocksFinite DEF Init, Numbered, Announced, Bracketed
<1>6. \A h \in Hybis : References(queue, h) = {}
  BY <1>2 DEF References
<1>7. RefcntExact
  <2>1. \A h \in Hybis : Cardinality(References(queue, h)) = 0
    BY <1>6, FS_EmptySet
  <2>2. \A h \in Hybis : refcnt[h] = 0 /\ state[h] = "none"
    BY DEF Init
  <2> QED BY <1>6, <2>1, <2>2 DEF RefcntExact
<1>8. PipeBounded /\ NoLostWakeup
  BY <1>2, SizesAssumption DEF PipeBounded, NoLostWakeup
<1> QED BY <1>1, <1>3, <1>5, <1>7, <1>8 DEF IndInv

(* No queue names a session that has not started. *)
LEMMA NotYetQueued ==
  ASSUME TypeOK, Fifo, Announced, NEW h \in Hybis, state[h] = "none"
  PROVE  References(queue, h) = {}
<1> SUFFICES ASSUME NEW x, x \in References(queue, h) PROVE FALSE
  OBVIOUS
<1>1. PICK k \in Socks : \E i \in 1 .. Len(queue[k]) : queue[k][i].hybi = h
  BY ReferencePlaces
<1>2. PICK i \in 1 .. Len(queue[k]) : queue[k][i].hybi = h
  BY <1>1
<1>3. queue[k] \in Seq(Entry) /\ queue[k][i] \in Entry
  BY ElementOfSeq DEF TypeOK
<1>4. queue[k][i] \in Entries(queue[k])
  BY <1>3, MsgKinds DEF Entries
<1>5. queue[k][i] \in Entries(log[k])
  BY <1>4, FifoParts DEF Ordered
<1> QED BY <1>2, <1>5 DEF Announced

(* The entry of a new event. *)
LEMMA NewEvent ==
  ASSUME TypeOK, NEW h \in Hybis, NEW kind \in {"connect", "message", "disconnect"}
  PROVE  /\ Event(h, kind) \in Entry /\ Event(h, kind).id = events
         /\ Event(h, kind).hybi = h /\ Event(h, kind).kind = kind
BY DEF TypeOK, Event, Entry

(* What the three actions that produce an event have in common. *)
HybisOK ==
    /\ outputs \in [Hybis -> SUBSET Named]
    /\ state \in [Hybis -> {"none", "live", "stopped", "freed"}]
    /\ refcnt \in [Hybis -> Int]

LogGrowsBy(S, e, force) ==
    \A k \in Socks : /\ Entries(log'[k]) \subseteq Entries(log[k]) \cup {e}
                     /\ Entries(log[k]) \subseteq Entries(log'[k])
                     /\ k \in S /\ ~ force => e \in Entries(log'[k])

SocksQuiet ==
    paused' = paused /\ wake' = wake /\ got' = got /\ beats' = beats /\ stolen' = stolen

(* backend_send, whoever calls it, keeps what is said about the sockets.   *)
LEMMA SendInv ==
  ASSUME IndInv, NEW S, NEW e \in Entry, NEW force \in BOOLEAN,
         e.id = events, backend_send(S, e, force),
         SocksQuiet, HybisOK'
  PROVE  /\ TypeOK' /\ Fifo' /\ Numbered' /\ PipeBounded' /\ NoLostWakeup'
         /\ LogGrowsBy(S, e, force)
<1> USE DEF IndInv, SocksQuiet
<1>1. /\ pipe' \in [Socks -> Seq(Entry \cup {Beat})]
      /\ queue' \in [Socks -> Seq(Entry)]
      /\ log' \in [Socks -> Seq(Entry)]
      /\ events' \in Nat
  BY SendTypes DEF Msgs
<1>2. /\ \A k \in Socks : Ordered(got'[k], pipe'[k], queue'[k], log'[k])
      /\ \A k \in Socks : /\ Entries(log'[k]) \subseteq Entries(log[k]) \cup {e}
                          /\ Entries(log[k]) \subseteq Entries(log'[k])
                          /\ k \in S /\ ~ force => e \in Entries(log'[k])
      /\ Numbered'
  BY SendLog
<1>3. PipeBounded' /\ NoLostWakeup'
  BY SendWakeup
<1>4. TypeOK'
  BY <1>1 DEF TypeOK, HybisOK
<1>5. Fifo'
  BY <1>2, <1>4, FifoAfter
<1> QED BY <1>2, <1>3, <1>4, <1>5 DEF LogGrowsBy

(* An event of h, seen at the sessions: what is left to show for it is     *)
(* that the new entry respects the order of h's entries.                   *)
LEMMA StartInv ==
  ASSUME IndInv, NEW h \in Hybis, hybi_start(h)
  PROVE  IndInv'
<1> DEFINE e == Event(h, "connect")
           S == {Forward}
           force == FALSE
<1>1. /\ backend_send(S, e, force) /\ state[h] = "none"
      /\ state' = [state EXCEPT ![h] = "live"]
      /\ refcnt' = [refcnt EXCEPT ![h] = 1 + Cardinality(Queued(S, force))]
      /\ UNCHANGED <<paused, wake, outputs, got, bvars>>
  BY DEF hybi_start
<1>2. e \in Entry /\ e.id = events /\ e.hybi = h /\ e.kind = "connect"
  BY NewEvent DEF IndInv
<1>3. S \subseteq Socks
  BY SocksFinite
<1>f. force \in BOOLEAN
  OBVIOUS
<1>s. backend_send(S, e, force) /\ SocksQuiet
  BY <1>1 DEF bvars, SocksQuiet
<1> HIDE DEF e, S, force
<1> DEFINE n == Cardinality(Queued(S, force))
<1>5. /\ n \in Nat
      /\ \A g \in Hybis :
           /\ Cardinality(References(queue, g)) \in Nat
           /\ Cardinality(References(queue', g)) \in Nat
           /\ Cardinality(References(queue', g)) = 0 <=> References(queue', g) = {}
           /\ g # e.hybi => References(queue', g) = References(queue, g)
           /\ g = e.hybi =>
                Cardinality(References(queue', g)) = Cardinality(References(queue, g)) + n
  BY <1>s, <1>2, <1>3, <1>f, SendRefs DEF IndInv
<1>6. refcnt' = [refcnt EXCEPT ![h] = 1 + n]
  BY <1>1, <1>5
<1> HIDE DEF n
<1>7. /\ TypeOK' /\ Fifo' /\ Numbered' /\ PipeBounded' /\ NoLostWakeup'
      /\ \A k \in Socks : /\ Entries(log'[k]) \subseteq Entries(log[k]) \cup {e}
                          /\ Entries(log[k]) \subseteq Entries(log'[k])
                          /\ k \in S /\ ~ force => e \in Entries(log'[k])
  <2>1. outputs' \in [Hybis -> SUBSET Named]
    BY <1>1 DEF IndInv, TypeOK
  <2>2. state' \in [Hybis -> {"none", "live", "stopped", "freed"}]
    BY <1>1 DEF IndInv, TypeOK
  <2>3. refcnt' \in [Hybis -> Int]
    BY <1>5, <1>6 DEF IndInv, TypeOK
  <2>4. HybisOK'
    BY <2>1, <2>2, <2>3 DEF HybisOK
  <2>5. /\ TypeOK' /\ Fifo' /\ Numbered' /\ PipeBounded' /\ NoLostWakeup'
        /\ LogGrowsBy(S, e, force)
    BY <1>s, <1>2, <1>f, <2>4, SendInv
  <2> QED BY <2>5 DEF LogGrowsBy
<1>8. e \in Entries(log'[Forward])
  BY <1>7, SocksFinite DEF S, force
<1>9. Announced'
  <2> SUFFICES ASSUME NEW g \in Hybis
               PROVE  /\ state'[g] = "none" =>
                            \A k \in Socks : \A x \in Entries(log'[k]) : x.hybi # g
                      /\ state'[g] # "none" =>
                            \E x \in Entries(log'[Forward]) : x.hybi = g /\ x.kind = "connect"
                      /\ state'[g] = "live" =>
                            \A x \in Entries(log'[Forward]) : x.hybi = g => x.kind # "disconnect"
    BY DEF Announced
  <2>1. CASE g = h
    <3>1. state'[g] = "live"
      BY <1>1, <2>1 DEF IndInv, TypeOK
    <3>2. \A x \in Entries(log'[Forward]) : x.hybi = g => x = e
      BY <1>1, <1>7, <2>1, SocksFinite DEF IndInv, Announced
    <3> QED BY <1>2, <1>8, <2>1, <3>1, <3>2
  <2>2. CASE g # h
    <3>1. state'[g] = state[g]
      BY <1>1, <2>2 DEF IndInv, TypeOK
    <3> QED BY <1>2, <1>7, <2>2, <3>1, SocksFinite DEF IndInv, Announced
  <2> QED BY <2>1, <2>2
<1>10. Bracketed'
  <2>1. \A x \in Entries(log[Forward]) : x.hybi # h
    BY <1>1, SocksFinite DEF IndInv, Announced
  <2>2. Entries(log'[Forward]) \subseteq Entries(log[Forward]) \cup {e}
    BY <1>7, SocksFinite
  <2> QED BY <1>2, <2>1, <2>2 DEF IndInv, Bracketed
<1>11. RefcntExact'
  <2>1. Cardinality(References(queue, h)) = 0
    BY <1>1, NotYetQueued, FS_EmptySet DEF IndInv
  <2>2. refcnt'[h] = 1 + n /\ state'[h] = "live"
    BY <1>1, <1>6 DEF IndInv, TypeOK
  <2>3. refcnt'[h] = Cardinality(References(queue', h)) + 1
    BY <1>2, <1>5, <2>1, <2>2
  <2>4. \A g \in Hybis : g # h => refcnt'[g] = refcnt[g] /\ state'[g] = state[g]
    BY <1>1, <1>6 DEF IndInv, TypeOK
  <2> QED BY <1>2, <1>5, <2>2, <2>3, <2>4 DEF IndInv, RefcntExact
<1> QED BY <1>7, <1>9, <1>10, <1>11 DEF IndInv

(* websock_message keeps the inductive invariant. *)
LEMMA MessageInv ==
  ASSUME IndInv, NEW h \in Hybis, websock_message(h)
  PROVE  IndInv'
<1> DEFINE e == Event(h, "message")
<1>1. PICK s \in {Forward} \cup outputs[h] :
        /\ backend_send({s}, e, FALSE)
        /\ refcnt' = [refcnt EXCEPT ![h] = @ + Cardinality(Queued({s}, FALSE))]
  BY DEF websock_message
<1> DEFINE S == {s}
           force == FALSE
<1>2. state[h] = "live" /\ UNCHANGED <<paused, wake, state, outputs, got, bvars>>
  BY DEF websock_message
<1>3. e \in Entry /\ e.id = events /\ e.hybi = h /\ e.kind = "message"
  BY NewEvent DEF IndInv
<1>4. S \subseteq Socks
  BY DEF Socks, IndInv, TypeOK
<1>5. backend_send(S, e, force) /\ refcnt' = [refcnt EXCEPT ![h] = @ + Cardinality(Queued(S, force))]
  BY <1>1
<1>f. force \in BOOLEAN
  OBVIOUS
<1>s. backend_send(S, e, force) /\ SocksQuiet
  BY <1>2, <1>5 DEF bvars, SocksQuiet
<1> HIDE DEF e, S, force
<1> DEFINE n == Cardinality(Queued(S, force))
<1>7. /\ n \in Nat
      /\ \A g \in Hybis :
           /\ Cardinality(References(queue, g)) \in Nat
           /\ Cardinality(References(queue', g)) \in Nat
           /\ Cardinality(References(queue', g)) = 0 <=> References(queue', g) = {}
           /\ g # e.hybi => References(queue', g) = References(queue, g)
           /\ g = e.hybi =>
                Cardinality(References(queue', g)) = Cardinality(References(queue, g)) + n
  BY <1>s, <1>3, <1>4, <1>f, SendRefs DEF IndInv
<1>8. refcnt' = [refcnt EXCEPT ![h] = @ + n]
  BY <1>5, <1>7
<1> HIDE DEF n
<1>9. /\ TypeOK' /\ Fifo' /\ Numbered' /\ PipeBounded' /\ NoLostWakeup'
      /\ \A k \in Socks : /\ Entries(log'[k]) \subseteq Entries(log[k]) \cup {e}
                          /\ Entries(log[k]) \subseteq Entries(log'[k])
                          /\ k \in S /\ ~ force => e \in Entries(log'[k])
  <2>1. outputs' \in [Hybis -> SUBSET Named]
    BY <1>2 DEF IndInv, TypeOK
  <2>2. state' \in [Hybis -> {"none", "live", "stopped", "freed"}]
    BY <1>2 DEF IndInv, TypeOK
  <2>3. refcnt' \in [Hybis -> Int]
    BY <1>7, <1>8 DEF IndInv, TypeOK
  <2>4. HybisOK'
    BY <2>1, <2>2, <2>3 DEF HybisOK
  <2>5. /\ TypeOK' /\ Fifo' /\ Numbered' /\ PipeBounded' /\ NoLostWakeup'
        /\ LogGrowsBy(S, e, force)
    BY <1>s, <1>3, <1>f, <2>4, SendInv
  <2> QED BY <2>5 DEF LogGrowsBy
<1>10. \A x \in Entries(log'[Forward]) : x \in Entries(log[Forward]) \/ x = e
  BY <1>9, SocksFinite
<1>11. Announced'
  <2> SUFFICES ASSUME NEW g \in Hybis
               PROVE  /\ state'[g] = "none" =>
                            \A k \in Socks : \A x \in Entries(log'[k]) : x.hybi # g
                      /\ state'[g] # "none" =>
                            \E x \in Entries(log'[Forward]) : x.hybi = g /\ x.kind = "connect"
                      /\ state'[g] = "live" =>
                            \A x \in Entries(log'[Forward]) : x.hybi = g => x.kind # "disconnect"
    BY DEF Announced
  <2>1. state'[g] = state[g]
    BY <1>2
  <2>2. state[g] = "none" => g # h
    BY <1>2
  <2> QED BY <1>3, <1>9, <2>1, <2>2, SocksFinite DEF IndInv, Announced
<1>12. Bracketed'
  <2>1. \A x \in Entries(log[Forward]) :
           x.id < events /\ (x.hybi = h => x.kind # "disconnect")
    BY <1>2, SocksFinite DEF IndInv, Announced, Numbered
  <2> QED BY <1>3, <1>10, <2>1 DEF IndInv, Bracketed
<1>13. RefcntExact'
  <2>1. refcnt[h] = Cardinality(References(queue, h)) + 1 /\ refcnt[h] \in Int
    BY <1>2 DEF IndInv, RefcntExact, TypeOK
  <2>2. refcnt'[h] = refcnt[h] + n /\ state'[h] = "live"
    BY <1>2, <1>8 DEF IndInv, TypeOK
  <2>3. refcnt'[h] = Cardinality(References(queue', h)) + 1
    BY <1>3, <1>7, <2>1, <2>2
  <2>4. \A g \in Hybis : g # h => refcnt'[g] = refcnt[g] /\ state'[g] = state[g]
    BY <1>2, <1>8 DEF IndInv, TypeOK
  <2> QED BY <1>3, <1>7, <2>2, <2>3, <2>4 DEF IndInv, RefcntExact
<1> QED BY <1>9, <1>11, <1>12, <1>13 DEF IndInv

(* hybi_stop keeps it, although the disconnect takes new references. *)
LEMMA StopInv ==
  ASSUME IndInv, NEW h \in Hybis, hybi_stop(h)
  PROVE  IndInv'
<1> DEFINE e == Event(h, "disconnect")
           S == {Forward} \cup outputs[h]
           force == TRUE
<1>1. /\ state[h] = "live"
      /\ backend_send(S, e, force)
      /\ refcnt' = [refcnt EXCEPT ![h] = refcnt[h] + Cardinality(Queued(S, force)) - 1]
      /\ state' = [state EXCEPT
                     ![h] = IF refcnt[h] + Cardinality(Queued(S, force)) - 1 <= 0
                            THEN "freed" ELSE "stopped"]
      /\ outputs' = [outputs EXCEPT ![h] = {}]
      /\ UNCHANGED <<paused, wake, got, bvars>>
  BY DEF hybi_stop
<1>2. e \in Entry /\ e.id = events /\ e.hybi = h /\ e.kind = "disconnect"
  BY NewEvent DEF IndInv
<1>3. S \subseteq Socks
  BY DEF Socks, IndInv, TypeOK
<1>f. force \in BOOLEAN
  OBVIOUS
<1>s. backend_send(S, e, force) /\ SocksQuiet
  BY <1>1 DEF bvars, SocksQuiet
<1> HIDE DEF e, S, force
<1> DEFINE n == Cardinality(Queued(S, force))
<1>5. /\ n \in Nat
      /\ \A g \in Hybis :
           /\ Cardinality(References(queue, g)) \in Nat
           /\ Cardinality(References(queue', g)) \in Nat
           /\ Cardinality(References(queue', g)) = 0 <=> References(queue', g) = {}
           /\ g # e.hybi => References(queue', g) = References(queue, g)
           /\ g = e.hybi =>
                Cardinality(References(queue', g)) = Cardinality(References(queue, g)) + n
  BY <1>s, <1>2, <1>3, <1>f, SendRefs DEF IndInv
<1>6. /\ refcnt' = [refcnt EXCEPT ![h] = refcnt[h] + n - 1]
      /\ state' = [state EXCEPT ![h] = IF refcnt[h] + n - 1 <= 0 THEN "freed" ELSE "stopped"]
  BY <1>1, <1>5
<1> HIDE DEF n
<1>7. /\ TypeOK' /\ Fifo' /\ Numbered' /\ PipeBounded' /\ NoLostWakeup'
      /\ \A k \in Socks : /\ Entries(log'[k]) \subseteq Entries(log[k]) \cup {e}
                          /\ Entries(log[k]) \subseteq Entries(log'[k])
                          /\ k \in S /\ ~ force => e \in Entries(log'[k])
  <2>1. outputs' \in [Hybis -> SUBSET Named]
    BY <1>1 DEF IndInv, TypeOK
  <2>2. state' \in [Hybis -> {"none", "live", "stopped", "freed"}]
    BY <1>6 DEF IndInv, TypeOK
  <2>3. refcnt' \in [Hybis -> Int]
    BY <1>5, <1>6 DEF IndInv, TypeOK
  <2>4. HybisOK'
    BY <2>1, <2>2, <2>3 DEF HybisOK
  <2>5. /\ TypeOK' /\ Fifo' /\ Numbered' /\ PipeBounded' /\ NoLostWakeup'
        /\ LogGrowsBy(S, e, force)
    BY <1>s, <1>2, <1>f, <2>4, SendInv
  <2> QED BY <2>5 DEF LogGrowsBy
<1>8. \A x \in Entries(log'[Forward]) : x \in Entries(log[Forward]) \/ x = e
  BY <1>7, SocksFinite
<1>9. /\ \A g \in Hybis : g # h => refcnt'[g] = refcnt[g] /\ state'[g] = state[g]
      /\ state'[h] \in {"freed", "stopped"}
      /\ state'[h] = "freed" <=> refcnt[h] + n - 1 <= 0
      /\ refcnt'[h] = refcnt[h] + n - 1
  BY <1>6 DEF IndInv, TypeOK
<1>10. Announced'
  <2> SUFFICES ASSUME NEW g \in Hybis
               PROVE  /\ state'[g] = "none" =>
                            \A k \in Socks : \A x \in Entries(log'[k]) : x.hybi # g
                      /\ state'[g] # "none" =>
                            \E x \in Entries(log'[Forward]) : x.hybi = g /\ x.kind = "connect"
                      /\ state'[g] = "live" =>
                            \A x \in Entries(log'[Forward]) : x.hybi = g => x.kind # "disconnect"
    BY DEF Announced
  <2>1. CASE g = h
    <3>1. \E x \in Entries(log[Forward]) : x.hybi = g /\ x.kind = "connect"
      BY <1>1, <2>1 DEF IndInv, Announced
    <3>2. \E x \in Entries(log'[Forward]) : x.hybi = g /\ x.kind = "connect"
      BY <1>7, <3>1, SocksFinite
    <3> QED BY <1>9, <2>1, <3>2
  <2>2. CASE g # h
    <3>1. state'[g] = state[g]
      BY <1>9, <2>2
    <3> QED BY <1>2, <1>7, <2>2, <3>1, SocksFinite DEF IndInv, Announced
  <2> QED BY <2>1, <2>2
<1>11. Bracketed'
  <2>1. \A x \in Entries(log[Forward]) :
           x.id < events /\ (x.hybi = h => x.kind # "disconnect")
    BY <1>1, SocksFinite DEF IndInv, Announced, Numbered
  <2> QED BY <1>2, <1>8, <2>1 DEF IndInv, Bracketed
<1>12. RefcntExact'
  <2>1. refcnt[h] = Cardinality(References(queue, h)) + 1 /\ refcnt[h] \in Int
    BY <1>1 DEF IndInv, RefcntExact, TypeOK
  <2>2. refcnt'[h] = Cardinality(References(queue', h)) /\ refcnt'[h] \in Nat
    BY <1>2, <1>5, <1>9, <2>1
  <2>3. state'[h] = "freed" <=> References(queue', h) = {}
    BY <1>5, <1>9, <2>1, <2>2
  <2> QED BY <1>2, <1>5, <1>9, <2>2, <2>3 DEF IndInv, RefcntExact
<1> QED BY <1>7, <1>10, <1>11, <1>12 DEF IndInv

(* Actions that produce no event leave the log, and what it says of the    *)
(* sessions, as long as no session starts or ends.                         *)
LEMMA LogUnchanged ==
  ASSUME IndInv, log' = log, events' = events,
         \A h \in Hybis : state'[h] = state[h]
                          \/ (state[h] # "none" /\ state'[h] = "freed")
  PROVE  Numbered' /\ Announced' /\ Bracketed'
<1>1. Numbered' /\ Bracketed'
  BY DEF IndInv, Numbered, Bracketed
<1>2. Announced'
  <2> SUFFICES ASSUME NEW g \in Hybis
               PROVE  /\ state'[g] = "none" =>
                            \A k \in Socks : \A x \in Entries(log[k]) : x.hybi # g
                      /\ state'[g] # "none" =>
                            \E x \in Entries(log[Forward]) : x.hybi = g /\ x.kind = "connect"
                      /\ state'[g] = "live" =>
                            \A x \in Entries(log[Forward]) : x.hybi = g => x.kind # "disconnect"
    BY DEF Announced
  <2>1. CASE state'[g] = state[g]
    BY <2>1 DEF IndInv, Announced
  <2>2. CASE state[g] # "none" /\ state'[g] = "freed"
    BY <2>2 DEF IndInv, Announced
  <2> QED BY <2>1, <2>2
<1> QED BY <1>1, <1>2

(* backend_unqueue keeps it: entries move to the pipe and give up theirs.  *)
LEMMA UnqueueInv ==
  ASSUME IndInv, NEW k \in Socks, backend_unqueue(k)
  PROVE  IndInv'
<1> DEFINE n == Movable(k)
           moved == SubSeq(queue[k], 1, n)
<1>1. /\ n \in 0 .. Len(queue[k])
      /\ queue[k] = moved \o queue'[k]
      /\ queue'[k] \in Seq(Entry) /\ moved \in Seq(Entry) /\ Len(moved) = n
      /\ Len(queue'[k]) = Len(queue[k]) - n
      /\ pipe'[k] = pipe[k] \o moved
      /\ \A j \in Socks : j # k => queue'[j] = queue[j] /\ pipe'[j] = pipe[j]
  BY UnqueueShape DEF IndInv
<1>2. /\ wake' = [wake EXCEPT ![k] = {}]
      /\ paused' = paused /\ outputs' = outputs /\ got' = got /\ log' = log
      /\ events' = events /\ beats' = beats /\ stolen' = stolen
  BY DEF backend_unqueue, bvars
<1>3. /\ pipe' \in [Socks -> Seq(Entry \cup {Beat})]
      /\ queue' \in [Socks -> Seq(Entry)]
  <2>1. moved \in Seq(Msgs) /\ pipe[k] \in Seq(Msgs)
    BY <1>1, EntrySeqs DEF IndInv, TypeOK, Msgs
  <2>2. pipe'[k] \in Seq(Msgs)
    BY <1>1, <2>1, ConcatProperties
  <2>3. DOMAIN pipe' = Socks /\ DOMAIN queue' = Socks
    BY DEF backend_unqueue, IndInv, TypeOK
  <2>4. pipe' = [j \in Socks |-> pipe'[j]] /\ queue' = [j \in Socks |-> queue'[j]]
    BY DEF backend_unqueue, IndInv, TypeOK
  <2>5. \A j \in Socks : pipe'[j] \in Seq(Msgs) /\ queue'[j] \in Seq(Entry)
    BY <1>1, <2>2 DEF IndInv, TypeOK, Msgs
  <2>6. pipe' \in [Socks -> Seq(Msgs)] /\ queue' \in [Socks -> Seq(Entry)]
    BY <2>4, <2>5
  <2> QED BY <2>6 DEF Msgs
<1>4. ASSUME NEW h \in Hybis
      PROVE  \E m \in Nat :
               /\ refcnt'[h] = refcnt[h] - m
               /\ state'[h] = IF Moved(k, h) # {} /\ refcnt'[h] <= 0
                              THEN "freed" ELSE state[h]
               /\ Cardinality(References(queue', h)) = Cardinality(References(queue, h)) - m
               /\ Moved(k, h) = {} => m = 0
               /\ Moved(k, h) # {} => References(queue, h) # {}
  <2> DEFINE m == Cardinality(Moved(k, h))
  <2>1. /\ m \in Nat
        /\ Cardinality(References(queue', h)) = Cardinality(References(queue, h)) - m
        /\ Moved(k, h) = {} => m = 0
        /\ Moved(k, h) # {} => References(queue, h) # {}
    BY UnqueueRefs DEF IndInv
  <2>2. refcnt'[h] = refcnt[h] - m
    BY DEF backend_unqueue
  <2>3. state'[h] = IF Moved(k, h) # {} /\ refcnt'[h] <= 0 THEN "freed" ELSE state[h]
    BY DEF backend_unqueue
  <2> HIDE DEF m
  <2> QED BY <2>1, <2>2, <2>3
<1>5. ASSUME NEW h \in Hybis
      PROVE  /\ refcnt'[h] \in Int
             /\ state'[h] = state[h] \/ (state[h] # "none" /\ state'[h] = "freed")
             /\ refcnt'[h] = Cardinality(References(queue', h))
                             + (IF state'[h] = "live" THEN 1 ELSE 0)
             /\ state'[h] = "freed" => References(queue', h) = {}
             /\ state'[h] = "stopped" => References(queue', h) # {}
  <2> DEFINE old == Cardinality(References(queue, h))
             new == Cardinality(References(queue', h))
  <2>1. PICK m \in Nat :
               /\ refcnt'[h] = refcnt[h] - m
               /\ state'[h] = IF Moved(k, h) # {} /\ refcnt'[h] <= 0
                              THEN "freed" ELSE state[h]
               /\ new = old - m
               /\ Moved(k, h) = {} => m = 0
               /\ Moved(k, h) # {} => References(queue, h) # {}
    BY <1>4
  <2>2. /\ old \in Nat /\ new \in Nat
        /\ old = 0 <=> References(queue, h) = {}
        /\ new = 0 <=> References(queue', h) = {}
    BY <1>3, ReferencesFinite DEF IndInv, TypeOK
  <2>3. /\ refcnt[h] = old + (IF state[h] = "live" THEN 1 ELSE 0)
        /\ state[h] = "freed" => References(queue, h) = {}
        /\ state[h] = "stopped" => References(queue, h) # {}
        /\ refcnt[h] \in Int
        /\ state[h] \in {"none", "live", "stopped", "freed"}
    BY DEF IndInv, RefcntExact, TypeOK
  <2>4. state[h] = "none" => References(queue, h) = {}
    BY NotYetQueued DEF IndInv
  <2> HIDE DEF old, new
  <2>5. CASE Moved(k, h) = {}
    <3>1. state'[h] = state[h] /\ m = 0
      BY <2>1, <2>5
    <3> QED BY <2>1, <2>2, <2>3, <3>1 DEF old, new
  <2>6. CASE Moved(k, h) # {}
    <3>1. state[h] \in {"live", "stopped"}
      BY <2>1, <2>3, <2>4, <2>6
    <3>2. CASE state[h] = "live"
      <4>1. refcnt'[h] = new + 1 /\ ~ (refcnt'[h] <= 0)
        BY <2>1, <2>2, <2>3, <3>2
      <4>2. state'[h] = "live"
        BY <2>1, <3>2, <4>1
      <4> QED BY <2>2, <3>2, <4>1, <4>2 DEF new
    <3>3. CASE state[h] = "stopped"
      <4>1. refcnt'[h] = new
        BY <2>1, <2>2, <2>3, <3>3
      <4>2. state'[h] = IF new = 0 THEN "freed" ELSE "stopped"
        BY <2>1, <2>2, <2>6, <3>3, <4>1
      <4> QED BY <2>2, <3>3, <4>1, <4>2 DEF new
    <3> QED BY <3>1, <3>2, <3>3
  <2> QED BY <2>5, <2>6
<1>6. TypeOK'
  <2>1. wake' \in [Socks -> SUBSET {"fed", "signal"}]
    BY <1>2 DEF IndInv, TypeOK
  <2>2. refcnt' \in [Hybis -> Int]
    <3>1. refcnt' = [h \in Hybis |-> refcnt[h] - Cardinality(Moved(k, h))]
      BY DEF backend_unqueue
    <3>2. refcnt' = [h \in Hybis |-> refcnt'[h]]
      BY <3>1
    <3> QED BY <1>5, <3>2
  <2>3. state' \in [Hybis -> {"none", "live", "stopped", "freed"}]
    <3>1. \A h \in Hybis : state'[h] \in {"none", "live", "stopped", "freed"}
      BY <1>5 DEF IndInv, TypeOK
    <3>2. state' = [h \in Hybis |-> state'[h]]
      BY DEF backend_unqueue
    <3> QED BY <3>1, <3>2
  <2> QED BY <1>2, <1>3, <2>1, <2>2, <2>3 DEF IndInv, TypeOK
<1>7. Fifo'
  <2> SUFFICES ASSUME NEW j \in Socks
               PROVE  Ordered(got'[j], pipe'[j], queue'[j], log'[j])
    BY <1>6, FifoAfter
  <2>1. Ordered(got[j], pipe[j], queue[j], log[j])
    BY FifoParts DEF IndInv
  <2>2. got'[j] = got[j] /\ log'[j] = log[j]
    BY <1>2
  <2>3. CASE j = k
    <3>1. /\ got[k] \in Seq(Msgs) /\ pipe[k] \in Seq(Msgs) /\ log[k] \in Seq(Msgs)
          /\ moved \in Seq(Msgs) /\ queue'[k] \in Seq(Msgs)
      BY <1>1, EntrySeqs DEF IndInv, TypeOK, Msgs
    <3>2. Ordered(got[k], pipe[k], moved \o queue'[k], log[k])
      BY <1>1, <2>1, <2>3
    <3> HIDE DEF moved
    <3>3. Ordered(got[k], pipe[k] \o moved, queue'[k], log[k])
      BY <3>1, <3>2, MoveOrdered
    <3> QED BY <1>1, <2>2, <2>3, <3>3
  <2>4. CASE j # k
    BY <1>1, <2>1, <2>2, <2>4
  <2> QED BY <2>3, <2>4
<1>8. Numbered' /\ Announced' /\ Bracketed'
  BY <1>2, <1>5, LogUnchanged
<1>9. RefcntExact'
  BY <1>5 DEF RefcntExact
<1>10. PipeBounded' /\ NoLostWakeup'
  <2> SUFFICES ASSUME NEW j \in Socks
               PROVE  /\ Len(pipe'[j]) <= Hwm
                      /\ ~ paused /\ queue'[j] # << >> =>
                           wake'[j] # {} \/ Len(pipe'[j]) = Hwm \/ stolen[j]
    BY <1>2 DEF PipeBounded, NoLostWakeup
  <2>1. CASE j # k
    <3>1. wake'[j] = wake[j] /\ queue'[j] = queue[j] /\ pipe'[j] = pipe[j]
      BY <1>1, <1>2, <2>1 DEF IndInv, TypeOK
    <3> QED BY <3>1 DEF IndInv, PipeBounded, NoLostWakeup
  <2>2. CASE j = k
    <3>1. /\ pipe[k] \in Seq(Msgs) /\ moved \in Seq(Msgs)
          /\ Len(pipe[k]) \in Nat /\ Len(queue[k]) \in Nat
          /\ Len(pipe[k]) <= Hwm /\ Hwm \in Nat
      BY <1>1, EntrySeqs, SizesAssumption DEF IndInv, TypeOK, Msgs, PipeBounded
    <3>2. Len(pipe'[k]) = Len(pipe[k]) + n
      BY <1>1, <3>1, ConcatProperties
    <3> DEFINE room == Hwm - Len(pipe[k])
    <3>r. room \in Nat
      BY <3>1
    <3>n. n = IF paused THEN 0 ELSE IF Len(queue[k]) <= room THEN Len(queue[k]) ELSE room
      BY DEF Movable
    <3> HIDE DEF n, moved, room
    <3>3. n <= room
      BY <3>1, <3>r, <3>n
    <3>4. ~ paused /\ n < Len(queue[k]) => n = room
      BY <3>1, <3>r, <3>n
    <3>5. queue'[k] # << >> => n < Len(queue[k])
      <4>1. queue'[k] # << >> => Len(queue'[k]) > 0
        BY <1>1
      <4> QED BY <1>1, <3>1, <4>1
    <3> QED BY <1>1, <2>2, <3>1, <3>2, <3>3, <3>4, <3>5 DEF room
  <2> QED BY <2>1, <2>2
<1> QED BY <1>6, <1>7, <1>8, <1>9, <1>10 DEF IndInv

(* A backend that reads its pipe keeps it. *)
LEMMA ReadInv ==
  ASSUME IndInv, NEW k \in Socks, backend_reads(k)
  PROVE  IndInv'
<1> DEFINE m == Head(pipe[k])
           rest == Tail(pipe[k])
<1>1. /\ pipe[k] # << >>
      /\ got' = [got EXCEPT ![k] = IF OfSession(m) THEN Append(@, m) ELSE @]
      /\ pipe' = [pipe EXCEPT ![k] = rest]
      /\ \/ /\ Len(pipe[k]) = Hwm
            /\ wake' = [wake EXCEPT ![k] = @ \cup {"signal"}]
            /\ stolen' = [stolen EXCEPT ![k] = FALSE]
         \/ Len(pipe[k]) # Hwm /\ wake' = wake /\ stolen' = stolen
      /\ paused' = paused /\ queue' = queue /\ state' = state /\ refcnt' = refcnt
      /\ outputs' = outputs /\ log' = log /\ events' = events /\ beats' = beats
  BY DEF backend_reads, hvars
<1>2. /\ pipe[k] \in Seq(Msgs) /\ got[k] \in Seq(Msgs)
      /\ queue[k] \in Seq(Msgs) /\ log[k] \in Seq(Msgs)
  BY EntrySeqs DEF IndInv, TypeOK, Msgs
<1>3. /\ m \in Msgs /\ rest \in Seq(Msgs) /\ Len(rest) = Len(pipe[k]) - 1
      /\ pipe[k] = <<m>> \o rest
  BY <1>1, <1>2, HeadThenTail
<1> HIDE DEF m, rest
<1>4. /\ got'[k] = IF OfSession(m) THEN Append(got[k], m) ELSE got[k]
      /\ pipe'[k] = rest
      /\ \A j \in Socks : j # k => got'[j] = got[j] /\ pipe'[j] = pipe[j]
  BY <1>1 DEF IndInv, TypeOK
<1>5. TypeOK'
  <2>1. got' \in [Socks -> Seq(Entry)]
    <3>1. got[k] \in Seq(Entry)
      BY DEF IndInv, TypeOK
    <3>2. OfSession(m) => Append(got[k], m) \in Seq(Entry)
      BY <1>3, <3>1, MsgKinds, AppendProperties
    <3> QED BY <1>1, <3>1, <3>2 DEF IndInv, TypeOK
  <2>2. pipe' \in [Socks -> Seq(Entry \cup {Beat})]
    BY <1>1, <1>3 DEF IndInv, TypeOK, Msgs
  <2>3. wake' \in [Socks -> SUBSET {"fed", "signal"}]
    <3>1. wake' = wake \/ wake' = [wake EXCEPT ![k] = @ \cup {"signal"}]
      BY <1>1
    <3>2. wake \in [Socks -> SUBSET {"fed", "signal"}]
      BY DEF IndInv, TypeOK
    <3>3. wake[k] \cup {"signal"} \in SUBSET {"fed", "signal"}
      BY <3>2
    <3> QED BY <3>1, <3>2, <3>3
  <2>4. stolen' \in [Socks -> BOOLEAN]
    BY <1>1 DEF IndInv, TypeOK
  <2> QED BY <1>1, <2>1, <2>2, <2>3, <2>4 DEF IndInv, TypeOK
<1>6. Fifo'
  <2> SUFFICES ASSUME NEW j \in Socks
               PROVE  Ordered(got'[j], pipe'[j], queue'[j], log'[j])
    BY <1>5, FifoAfter
  <2>1. Ordered(got[j], pipe[j], queue[j], log[j])
    BY FifoParts DEF IndInv
  <2>2. CASE j = k
    <3>1. Ordered(got[k], <<m>> \o rest, queue[k], log[k])
      BY <1>3, <2>1, <2>2
    <3>2. Ordered(IF OfSession(m) THEN Append(got[k], m) ELSE got[k], rest, queue[k], log[k])
      BY <1>2, <1>3, <3>1, ReadOrdered
    <3> QED BY <1>1, <1>4, <2>2, <3>2
  <2>3. CASE j # k
    BY <1>1, <1>4, <2>1, <2>3
  <2> QED BY <2>2, <2>3
<1>7. Numbered' /\ Announced' /\ Bracketed'
  BY <1>1, LogUnchanged
<1>8. RefcntExact'
  BY <1>1 DEF IndInv, RefcntExact
<1>9. PipeBounded' /\ NoLostWakeup'
  <2> SUFFICES ASSUME NEW j \in Socks
               PROVE  /\ Len(pipe'[j]) <= Hwm
                      /\ ~ paused /\ queue[j] # << >> =>
                           wake'[j] # {} \/ Len(pipe'[j]) = Hwm \/ stolen'[j]
    BY <1>1 DEF PipeBounded, NoLostWakeup
  <2>1. /\ Len(pipe[j]) <= Hwm /\ Hwm \in Nat
        /\ ~ paused /\ queue[j] # << >> =>
             wake[j] # {} \/ Len(pipe[j]) = Hwm \/ stolen[j]
    BY SizesAssumption DEF IndInv, PipeBounded, NoLostWakeup
  <2>2. CASE j # k
    <3>1. wake'[j] = wake[j] /\ stolen'[j] = stolen[j] /\ pipe'[j] = pipe[j]
      BY <1>1, <1>4, <2>2 DEF IndInv, TypeOK
    <3> QED BY <2>1, <3>1
  <2>3. CASE j = k
    <3>1. Len(pipe'[k]) <= Hwm
      BY <1>2, <1>3, <1>4, <2>1, <2>3, LenProperties
    <3>2. CASE Len(pipe[k]) = Hwm
      <4>1. wake'[k] # {}
        BY <1>1, <3>2 DEF IndInv, TypeOK
      <4> QED BY <2>3, <3>1, <4>1
    <3>3. CASE Len(pipe[k]) # Hwm
      <4>1. wake' = wake /\ stolen' = stolen
        BY <1>1, <3>3
      <4> QED BY <2>1, <2>3, <3>1, <3>3, <4>1
    <3> QED BY <3>2, <3>3
  <2> QED BY <2>2, <2>3
<1> QED BY <1>5, <1>6, <1>7, <1>8, <1>9 DEF IndInv

(* A heartbeat or sync keeps it; a signal it takes is recorded. *)
LEMMA BeatInv ==
  ASSUME IndInv, NEW k \in Socks, beat(k)
  PROVE  IndInv'
<1>1. PICK w \in {wake[k], wake[k] \ {"signal"}} :
         /\ wake' = [wake EXCEPT ![k] = w]
         /\ stolen' = [stolen EXCEPT ![k] = @ \/ (w = {} /\ wake[k] # {})]
  BY DEF beat
<1>2. /\ pipe' = [pipe EXCEPT ![k] = IF Len(@) < Hwm THEN Append(@, Beat) ELSE @]
      /\ beats' = beats + 1
      /\ paused' = paused /\ queue' = queue /\ state' = state /\ refcnt' = refcnt
      /\ outputs' = outputs /\ got' = got /\ log' = log /\ events' = events
  BY DEF beat, hvars
<1>3. /\ pipe[k] \in Seq(Msgs) /\ got[k] \in Seq(Msgs) /\ Beat \in Msgs
      /\ queue[k] \in Seq(Msgs) /\ log[k] \in Seq(Msgs)
  BY EntrySeqs DEF IndInv, TypeOK, Msgs
<1>4. /\ pipe'[k] = IF Len(pipe[k]) < Hwm THEN Append(pipe[k], Beat) ELSE pipe[k]
      /\ \A j \in Socks : j # k => pipe'[j] = pipe[j]
  BY <1>2 DEF IndInv, TypeOK
<1>5. /\ Append(pipe[k], Beat) \in Seq(Msgs)
      /\ Len(Append(pipe[k], Beat)) = Len(pipe[k]) + 1
      /\ Len(pipe[k]) \in Nat
  BY <1>3, AppendProperties
<1>6. TypeOK'
  <2>1. pipe' \in [Socks -> Seq(Entry \cup {Beat})]
    BY <1>2, <1>3, <1>5 DEF IndInv, TypeOK, Msgs
  <2>2. wake' \in [Socks -> SUBSET {"fed", "signal"}]
    BY <1>1 DEF IndInv, TypeOK
  <2>3. stolen' \in [Socks -> BOOLEAN]
    BY <1>1 DEF IndInv, TypeOK
  <2>4. beats' \in Nat
    BY <1>2 DEF IndInv, TypeOK
  <2> QED BY <1>2, <2>1, <2>2, <2>3, <2>4 DEF IndInv, TypeOK
<1>7. Fifo'
  <2> SUFFICES ASSUME NEW j \in Socks
               PROVE  Ordered(got'[j], pipe'[j], queue'[j], log'[j])
    BY <1>6, FifoAfter
  <2>1. Ordered(got[j], pipe[j], queue[j], log[j])
    BY FifoParts DEF IndInv
  <2>2. CASE pipe'[j] = pipe[j]
    BY <1>2, <2>1, <2>2
  <2>3. CASE j = k /\ pipe'[k] = Append(pipe[k], Beat)
    <3>1. Ordered(got[k], Append(pipe[k], Beat), queue[k], log[k])
      BY <1>3, <2>1, <2>3, BeatOrdered
    <3> QED BY <1>2, <2>3, <3>1
  <2> QED BY <1>4, <2>2, <2>3
<1>8. Numbered' /\ Announced' /\ Bracketed'
  BY <1>2, LogUnchanged
<1>9. RefcntExact'
  BY <1>2 DEF IndInv, RefcntExact
<1>10. PipeBounded' /\ NoLostWakeup'
  <2> SUFFICES ASSUME NEW j \in Socks
               PROVE  /\ Len(pipe'[j]) <= Hwm
                      /\ ~ paused /\ queue[j] # << >> =>
                           wake'[j] # {} \/ Len(pipe'[j]) = Hwm \/ stolen'[j]
    BY <1>2 DEF PipeBounded, NoLostWakeup
  <2>1. /\ Len(pipe[j]) <= Hwm /\ Hwm \in Nat
        /\ ~ paused /\ queue[j] # << >> =>
             wake[j] # {} \/ Len(pipe[j]) = Hwm \/ stolen[j]
    BY SizesAssumption DEF IndInv, PipeBounded, NoLostWakeup
  <2>2. CASE j # k
    <3>1. wake'[j] = wake[j] /\ stolen'[j] = stolen[j] /\ pipe'[j] = pipe[j]
      BY <1>1, <1>4, <2>2 DEF IndInv, TypeOK
    <3> QED BY <2>1, <3>1
  <2>3. CASE j = k
    <3>1. Len(pipe'[k]) <= Hwm /\ (Len(pipe[k]) = Hwm => Len(pipe'[k]) = Hwm)
      BY <1>4, <1>5, <2>1, <2>3
    <3>2. wake[k] # {} => wake'[k] # {} \/ stolen'[k]
      <4>1. wake'[k] = w
        BY <1>1 DEF IndInv, TypeOK
      <4>2. stolen'[k] = (stolen[k] \/ (w = {} /\ wake[k] # {}))
        BY <1>1 DEF IndInv, TypeOK
      <4> QED BY <4>1, <4>2
    <3>3. stolen[k] => stolen'[k]
      BY <1>1 DEF IndInv, TypeOK
    <3> QED BY <2>1, <2>3, <3>1, <3>2, <3>3
  <2> QED BY <2>2, <2>3
<1> QED BY <1>6, <1>7, <1>8, <1>9, <1>10 DEF IndInv

(* Mapping and unmapping outputs touches no socket. *)
LEMMA OutputInv ==
  ASSUME IndInv, NEW h \in Hybis, add_output(h) \/ del_output(h)
  PROVE  IndInv'
<1>1. /\ paused' = paused /\ queue' = queue /\ wake' = wake /\ state' = state
      /\ refcnt' = refcnt /\ pipe' = pipe /\ got' = got /\ log' = log
      /\ events' = events /\ beats' = beats /\ stolen' = stolen
  BY DEF add_output, del_output, bvars
<1>2. outputs' \in [Hybis -> SUBSET Named]
  <2>1. CASE add_output(h)
    <3>1. PICK k \in Named, S \in {outputs[h] \ {j} : j \in Socks} :
             outputs' = [outputs EXCEPT ![h] = S \cup {k}]
      BY <2>1 DEF add_output
    <3>2. S \cup {k} \in SUBSET Named
      BY <3>1 DEF IndInv, TypeOK
    <3> QED BY <3>1, <3>2 DEF IndInv, TypeOK
  <2>2. CASE del_output(h)
    BY <2>2 DEF del_output, IndInv, TypeOK
  <2> QED BY <2>1, <2>2
<1>3. TypeOK'
  BY <1>1, <1>2 DEF IndInv, TypeOK
<1>4. Fifo' /\ RefcntExact' /\ PipeBounded' /\ NoLostWakeup'
  BY <1>1 DEF IndInv, Fifo, RefcntExact, PipeBounded, NoLostWakeup
<1>5. Numbered' /\ Announced' /\ Bracketed'
  BY <1>1, LogUnchanged
<1> QED BY <1>3, <1>4, <1>5 DEF IndInv

(* Pausing makes every queue silent; resuming wakes every watcher. *)
LEMMA PauseInv ==
  ASSUME IndInv, pause \/ resume
  PROVE  IndInv'
<1>1. /\ queue' = queue /\ state' = state /\ refcnt' = refcnt /\ outputs' = outputs
      /\ pipe' = pipe /\ got' = got /\ log' = log /\ events' = events /\ beats' = beats
  BY DEF pause, resume, hvars, bvars
<1>2. \/ paused' = TRUE /\ wake' = wake /\ stolen' = stolen
      \/ /\ paused' = FALSE
         /\ wake' = [k \in Socks |-> wake[k] \cup {"fed"}]
         /\ stolen' = [k \in Socks |-> FALSE]
  BY DEF pause, resume, bvars
<1>3. TypeOK'
  <2>1. paused' \in BOOLEAN
    BY <1>2
  <2>2. wake' \in [Socks -> SUBSET {"fed", "signal"}]
    <3>1. wake' = wake \/ wake' = [k \in Socks |-> wake[k] \cup {"fed"}]
      BY <1>2
    <3> QED BY <3>1 DEF IndInv, TypeOK
  <2>3. stolen' \in [Socks -> BOOLEAN]
    <3>1. stolen' = stolen \/ stolen' = [k \in Socks |-> FALSE]
      BY <1>2
    <3> QED BY <3>1 DEF IndInv, TypeOK
  <2> QED BY <1>1, <2>1, <2>2, <2>3 DEF IndInv, TypeOK
<1>4. Fifo' /\ RefcntExact' /\ PipeBounded'
  BY <1>1 DEF IndInv, Fifo, RefcntExact, PipeBounded
<1>5. Numbered' /\ Announced' /\ Bracketed'
  BY <1>1, LogUnchanged
<1>6. NoLostWakeup'
  <2>1. CASE paused' = TRUE
    BY <2>1 DEF NoLostWakeup
  <2>2. CASE wake' = [k \in Socks |-> wake[k] \cup {"fed"}]
    <3>1. \A k \in Socks : wake'[k] # {}
      BY <2>2
    <3> QED BY <3>1 DEF NoLostWakeup
  <2> QED BY <1>2, <2>1, <2>2
<1> QED BY <1>3, <1>4, <1>5, <1>6 DEF IndInv

(* The inductive step. *)
LEMMA NextInv == IndInv /\ [Next]_vars => IndInv'
<1> SUFFICES ASSUME IndInv, [Next]_vars PROVE IndInv'
  OBVIOUS
<1>1. CASE Next
  <2>1. CASE \E h \in Hybis : Session(h)
    <3>1. PICK h \in Hybis : Session(h)
      BY <2>1
    <3>2. CASE hybi_start(h)
      BY <3>2, StartInv
    <3>3. CASE websock_message(h)
      BY <3>3, MessageInv
    <3>4. CASE hybi_stop(h)
      BY <3>4, StopInv
    <3>5. CASE add_output(h) \/ del_output(h)
      BY <3>5, OutputInv
    <3> QED BY <3>1, <3>2, <3>3, <3>4, <3>5 DEF Session
  <2>2. CASE \E k \in Socks : backend_unqueue(k) \/ backend_reads(k) \/ beat(k)
    <3>1. PICK k \in Socks : backend_unqueue(k) \/ backend_reads(k) \/ beat(k)
      BY <2>2
    <3>2. CASE backend_unqueue(k)
      BY <3>2, UnqueueInv
    <3>3. CASE backend_reads(k)
      BY <3>3, ReadInv
    <3>4. CASE beat(k)
      BY <3>4, BeatInv
    <3> QED BY <3>1, <3>2, <3>3, <3>4
  <2>3. CASE pause \/ resume
    BY <2>3, PauseInv
  <2> QED BY <1>1, <2>1, <2>2, <2>3 DEF Next
<1>2. CASE UNCHANGED vars
  <2>1. /\ paused' = paused /\ queue' = queue /\ wake' = wake /\ state' = state
        /\ refcnt' = refcnt /\ outputs' = outputs /\ pipe' = pipe /\ got' = got
        /\ log' = log /\ events' = events /\ beats' = beats /\ stolen' = stolen
    BY <1>2 DEF vars, hvars, bvars
  <2>2. TypeOK'
    BY <2>1 DEF IndInv, TypeOK
  <2>3. Fifo' /\ RefcntExact' /\ PipeBounded' /\ NoLostWakeup'
    BY <2>1 DEF IndInv, Fifo, RefcntExact, PipeBounded, NoLostWakeup
  <2>4. Numbered' /\ Announced' /\ Bracketed'
    BY <2>1, LogUnchanged
  <2> QED BY <2>2, <2>3, <2>4 DEF IndInv
<1> QED BY <1>1, <1>2

(* The inductive invariant holds throughout. *)
LEMMA Invariance == Spec => []IndInv
<1>1. Init => IndInv
  BY InitInv
<1>2. IndInv /\ [Next]_vars => IndInv'
  BY NextInv
<1> QED BY <1>1, <1>2, PTL DEF Spec
-----------------------------------------------------------------------------
(* What the project promises of the way to the backends.                   *)

(* Every variable keeps its type; in particular a session is only ever     *)
(* attached to named outputs, and a queue holds only session entries.      *)
THEOREM TypeCorrect == Spec => []TypeOK
<1>1. IndInv => TypeOK
  BY DEF IndInv
<1> QED BY <1>1, Invariance, PTL

(* backend_send and backend_unqueue: what a socket accepted reaches its    *)
(* backend once and in the order of acceptance.                            *)
THEOREM FifoHolds == Spec => []Fifo
<1>1. IndInv => Fifo
  BY DEF IndInv
<1> QED BY <1>1, Invariance, PTL

(* hybi->refcnt counts the queued entries exactly: backend_send_real never *)
(* reads a freed session, and an ended session is freed with its last      *)
(* entry.                                                                  *)
THEOREM RefcntHolds == Spec => []RefcntExact
<1>1. IndInv => RefcntExact
  BY DEF IndInv
<1> QED BY <1>1, Invariance, PTL

(* A queue that waits has a wake-up coming: an event pending, a full pipe  *)
(* that will signal, or else a heartbeat or sync took the signal.          *)
THEOREM NoLostWakeupHolds == Spec => []NoLostWakeup
<1>1. IndInv => NoLostWakeup
  BY DEF IndInv
<1> QED BY <1>1, Invariance, PTL

(* The main backend reads of every session connect first, and nothing      *)
(* after disconnect: the log has that order, and what was read is a prefix *)
(* of the log.                                                             *)
THEOREM SessionProtocolHolds == Spec => []SessionProtocol
<1>1. IndInv => SessionProtocol
  <2> SUFFICES ASSUME IndInv, NEW i \in 1 .. Len(got[Forward])
               PROVE  LET e == got[Forward][i]
                          earlier == {got[Forward][j] : j \in 1 .. i - 1}
                          of_h == {d \in earlier : d.hybi = e.hybi}
                      IN  /\ e.kind = "connect" <=> of_h = {}
                          /\ \A d \in of_h : d.kind # "disconnect"
    BY DEF SessionProtocol
  <2> DEFINE g == got[Forward]
             e == g[i]
             earlier == {g[j] : j \in 1 .. i - 1}
             of_h == {d \in earlier : d.hybi = e.hybi}
             L == Entries(log[Forward])
  <2>1. g \in Seq(Entry) /\ Len(g) \in Nat
    BY SocksFinite DEF IndInv, TypeOK
  <2>2. \A j \in 1 .. Len(g) : g[j] \in Entry /\ OfSession(g[j]) /\ g[j].id \in Nat /\ g[j].hybi \in Hybis
    BY <2>1, ElementOfSeq, MsgKinds
  <2>3. Ordered(g, pipe[Forward], queue[Forward], log[Forward])
    BY FifoParts, SocksFinite DEF IndInv
  <2>4. \A j \in 1 .. Len(g) : g[j] \in Entries(g) /\ g[j] \in L
    BY <2>2, <2>3 DEF Ordered, Entries
  <2>5. \A j, k \in 1 .. Len(g) : j < k => g[j].id < g[k].id
    BY <2>2, <2>3 DEF Ordered, InOrder
  <2>6. \A d \in of_h : d \in L /\ d.hybi = e.hybi /\ d.id < e.id /\ d.id \in Nat
    <3> SUFFICES ASSUME NEW j \in 1 .. i - 1, g[j].hybi = e.hybi
                 PROVE  g[j] \in L /\ g[j].id < e.id /\ g[j].id \in Nat
      OBVIOUS
    <3>1. j \in 1 .. Len(g) /\ j < i
      BY <2>1
    <3>2. i \in 1 .. Len(g) /\ e = g[i]
      OBVIOUS
    <3> HIDE DEF L, g, e
    <3> QED BY <2>2, <2>4, <2>5, <3>1, <3>2
  <2>7. e \in L /\ e.id \in Nat /\ e.hybi \in Hybis
    BY <2>2, <2>4
  <2>8. ASSUME NEW d \in of_h PROVE e.kind # "connect" /\ d.kind # "disconnect"
    <3>1. d # e /\ ~ (e.id < d.id)
      BY <2>6, <2>7
    <3> QED BY <2>6, <2>7, <3>1 DEF IndInv, Bracketed
  <2>9. ASSUME e.kind # "connect" PROVE of_h # {}
    <3>1. state[e.hybi] # "none"
      BY <2>7, SocksFinite DEF IndInv, Announced
    <3>2. PICK c \in L : c.hybi = e.hybi /\ c.kind = "connect"
      BY <2>7, <3>1 DEF IndInv, Announced
    <3>3. c.id < e.id
      BY <2>7, <2>9, <3>2 DEF IndInv, Bracketed
    <3>4. c \in Entries(g)
      <4>1. \A y \in Entries(pipe[Forward]) \cup Entries(queue[Forward]) : e.id < y.id
        BY <2>3, <2>4 DEF Ordered, Precedes
      <4>2. c.id \in Nat
        BY SocksFinite, EntrySeqs, EntriesType DEF IndInv, TypeOK
      <4>3. c \notin Entries(pipe[Forward]) \cup Entries(queue[Forward])
        BY <2>7, <3>3, <4>1, <4>2
      <4> QED BY <2>3, <4>3 DEF Ordered
    <3>5. PICK j \in 1 .. Len(g) : c = g[j]
      BY <3>4 DEF Entries
    <3>6. j < i
      <4>1. ~ (i < j)
        BY <2>2, <2>5, <3>3, <3>5
      <4>2. i # j
        BY <2>7, <3>3, <3>5
      <4> QED BY <2>1, <4>1, <4>2
    <3>7. j \in 1 .. i - 1
      BY <2>1, <3>6
    <3> QED BY <3>2, <3>5, <3>7
  <2> QED BY <2>8, <2>9
<1> QED BY <1>1, Invariance, PTL

(* backend_send and backend_unqueue look at root.hybi.paused: while it is  *)
(* set, no step hands anything of a session to zeromq.                     *)
THEOREM PausedIsSilentHolds == Spec => PausedIsSilent
<1>1. IndInv /\ [Next]_vars =>
        [paused => \A k \in Socks : Entries(pipe[k])' \subseteq Entries(pipe[k])]_vars
  <2> SUFFICES ASSUME IndInv, Next, paused, NEW k \in Socks
               PROVE  Entries(pipe'[k]) \subseteq Entries(pipe[k])
    BY DEF Entries
  <2>t. pipe[k] \in Seq(Msgs)
    BY DEF IndInv, TypeOK, Msgs
  <2>s. ASSUME NEW S, NEW e, NEW force \in BOOLEAN, backend_send(S, e, force)
        PROVE  pipe'[k] = pipe[k]
    BY <2>s DEF backend_send, GoesOut
  <2>1. ASSUME NEW h \in Hybis, Session(h) PROVE pipe'[k] = pipe[k]
    <3>1. CASE hybi_start(h)
      BY <2>s, <3>1 DEF hybi_start
    <3>2. CASE websock_message(h)
      BY <2>s, <3>2 DEF websock_message
    <3>3. CASE hybi_stop(h)
      BY <2>s, <3>3 DEF hybi_stop
    <3>4. CASE add_output(h) \/ del_output(h)
      BY <3>4 DEF add_output, del_output
    <3> QED BY <2>1, <3>1, <3>2, <3>3, <3>4 DEF Session
  <2>2. ASSUME NEW j \in Socks, backend_unqueue(j) PROVE pipe'[k] = pipe[k]
    <3>1. CASE j # k
      BY <2>2, <3>1, UnqueueShape DEF IndInv
    <3>2. CASE j = k
      <4>1. Movable(k) = 0
        BY DEF Movable
      <4>2. pipe'[k] = pipe[k] \o SubSeq(queue[k], 1, 0)
        BY <2>2, <3>2, <4>1, UnqueueShape DEF IndInv
      <4>3. SubSeq(queue[k], 1, 0) = << >>
        OBVIOUS
      <4> QED BY <2>t, <4>2, <4>3, ConcatEmptySeq
    <3> QED BY <3>1, <3>2
  <2>3. ASSUME NEW j \in Socks, backend_reads(j)
        PROVE  Entries(pipe'[k]) \subseteq Entries(pipe[k])
    <3>1. CASE j # k
      BY <2>3, <3>1 DEF backend_reads, IndInv, TypeOK
    <3>2. CASE j = k
      <4>1. pipe[k] # << >> /\ pipe'[k] = Tail(pipe[k])
        BY <2>3, <3>2 DEF backend_reads, IndInv, TypeOK
      <4>2. /\ Head(pipe[k]) \in Msgs /\ Tail(pipe[k]) \in Seq(Msgs)
            /\ pipe[k] = <<Head(pipe[k])>> \o Tail(pipe[k])
        BY <2>t, <4>1, HeadThenTail
      <4>3. <<Head(pipe[k])>> \in Seq(Msgs)
        BY <4>2, OneMessage
      <4>4. Entries(<<Head(pipe[k])>> \o Tail(pipe[k])) =
               Entries(<<Head(pipe[k])>>) \cup Entries(Tail(pipe[k]))
        BY <4>2, <4>3, EntriesConcat
      <4>5. Entries(pipe[k]) = Entries(<<Head(pipe[k])>>) \cup Entries(Tail(pipe[k]))
        BY <4>2, <4>4
      <4> QED BY <4>1, <4>5
    <3> QED BY <3>1, <3>2
  <2>4. ASSUME NEW j \in Socks, beat(j)
        PROVE  Entries(pipe'[k]) \subseteq Entries(pipe[k])
    <3>1. pipe'[k] = pipe[k] \/ pipe'[k] = Append(pipe[k], Beat)
      BY <2>4 DEF beat, IndInv, TypeOK
    <3>2. Entries(Append(pipe[k], Beat)) = Entries(pipe[k])
      <4>1. Ordered(got[k], pipe[k], queue[k], log[k])
        BY FifoParts DEF IndInv
      <4>2. got[k] \in Seq(Msgs) /\ queue[k] \in Seq(Msgs) /\ log[k] \in Seq(Msgs)
        BY EntrySeqs DEF IndInv, TypeOK
      <4> QED BY <2>t, <4>1, <4>2, BeatOrdered
    <3> QED BY <3>1, <3>2
  <2>5. CASE pause \/ resume
    BY <2>5 DEF pause, resume
  <2> QED BY <2>1, <2>2, <2>3, <2>4, <2>5 DEF Next
<1> QED BY <1>1, Invariance, PTL DEF Spec, PausedIsSilent
=============================================================================
