---------------------------- MODULE TopicsProofs ----------------------------
(***************************************************************************)
(* For every number of sessions and topics: the lists of subscribers and   *)
(* of subscriptions say the same, the table holds the topics that have     *)
(* subscribers and its counters are right, the loops over subscribers do   *)
(* not look at an entry that was freed, and the lists implement PubSub.    *)
(***************************************************************************)
EXTENDS Topics, FiniteSetTheorems, SequenceTheorems, TLAPS

(* The inductive invariant, with the state as parameters.  The lists of    *)
(* sessions and of topics mirror each other, ...                           *)
Mirrored(lv, subrs, subns) ==
    /\ \A s \in Sessions, t \in TopicNames : Contains(subns[s], t) <=> Contains(subrs[t], s)
    /\ \A t \in TopicNames : IsInjective(subrs[t])
    /\ \A s \in Sessions : IsInjective(subns[s])
    /\ \A s \in Sessions \ lv : subns[s] = <<>>

(* ... the table and its counters are exact, ...                           *)
Pairs(subrs) == {m \in Sessions \X TopicNames : Contains(subrs[m[2]], m[1])}

Exact(tp, subrs, nt, ns) ==
    /\ tp = {t \in TopicNames : subrs[t] # <<>>}
    /\ nt = Cardinality(tp)
    /\ ns = Cardinality(Pairs(subrs))

(* ... and a publication has an entry to go on with, and everybody from    *)
(* there on is still to be reached.                                        *)
Traverses(lv, subrs, p, rd) ==
    p # NULL => \/ p.topic = NULL /\ p.left \subseteq lv /\ p.left # {} /\ p.left \cap rd = {}
                \/ /\ p.topic # NULL /\ Contains(subrs[p.topic], p.sub)
                   /\ FromOn(subrs[p.topic], p.sub) \cap rd = {}

TopicsInv ==
    /\ TypeOK
    /\ Mirrored(live, subscribers, subscriptions)
    /\ Exact(topics, subscribers, ntopics, nsubscriptions)
    /\ Traverses(live, subscribers, pub, reached)

-----------------------------------------------------------------------------
(* Lists.                                                                  *)

(* Every position of the set is the Nth for one n, in the order of n. *)
LEMMA NthIs ==
  ASSUME NEW top \in Nat, NEW at \in SUBSET (1 .. top)
  PROVE  /\ IsFiniteSet(at) /\ Cardinality(at) \in Nat
         /\ \A n \in 1 .. Cardinality(at) : Nth(at, n) \in at
         /\ \A m, n \in 1 .. Cardinality(at) : m < n => Nth(at, m) < Nth(at, n)
         /\ \A i \in at : \E n \in 1 .. Cardinality(at) : Nth(at, n) = i
<1> DEFINE c == Cardinality(at)
           upto(i) == {j \in at : j <= i}
           rank == [i \in at |-> Cardinality(upto(i))]
<1>1. IsFiniteSet(at) /\ c \in Nat
  <2>1. IsFiniteSet(1 .. top)
    BY FS_Interval
  <2>2. IsFiniteSet(at)
    BY <2>1, FS_Subset
  <2> QED BY <2>2, FS_CardinalityType
<1>2. ASSUME NEW i \in at
      PROVE  IsFiniteSet(upto(i)) /\ rank[i] = Cardinality(upto(i)) /\ rank[i] \in 1 .. c
  <2>1. upto(i) \in SUBSET at /\ i \in upto(i)
    OBVIOUS
  <2>2. IsFiniteSet(upto(i)) /\ Cardinality(upto(i)) <= c
    BY <1>1, <2>1, FS_Subset
  <2>3. Cardinality(upto(i)) \in Nat /\ Cardinality(upto(i)) # 0
    BY <2>1, <2>2, FS_CardinalityType, FS_EmptySet
  <2> QED BY <1>1, <2>2, <2>3
<1>3. ASSUME NEW i \in at, NEW j \in at, i < j PROVE rank[i] < rank[j]
  <2>1. upto(i) \in SUBSET upto(j) /\ upto(i) # upto(j)
    <3>1. i \in Int /\ j \in Int /\ \A k \in at : k \in Int
      OBVIOUS
    <3>2. j \in upto(j) /\ j \notin upto(i)
      BY <1>3, <3>1
    <3>3. \A k \in at : k <= i => k <= j
      BY <1>3, <3>1
    <3> QED BY <3>2, <3>3
  <2>2. IsFiniteSet(upto(j)) /\ rank[i] = Cardinality(upto(i)) /\ rank[j] = Cardinality(upto(j))
        /\ rank[i] \in 1 .. c /\ rank[j] \in 1 .. c
    BY <1>2
  <2>3. Cardinality(upto(i)) <= Cardinality(upto(j)) /\ Cardinality(upto(i)) # Cardinality(upto(j))
    BY <2>1, <2>2, FS_Subset
  <2> QED BY <1>1, <2>2, <2>3
<1>4. \A n \in 1 .. c : \E i \in at : rank[i] = n
  <2>1. rank \in [at -> 1 .. c]
    BY <1>2
  <2>2. \A i, j \in at : rank[i] = rank[j] => i = j
    BY <1>2, <1>3
  <2>3. rank \in Injection(at, 1 .. c)
    <3> HIDE DEF rank
    <3> QED BY <2>1, <2>2 DEF Injection, IsInjective
  <2>4. IsFiniteSet(1 .. c) /\ Cardinality(1 .. c) = c
    BY <1>1, FS_Interval
  <2>5. rank \in Surjection(at, 1 .. c)
    <3> HIDE DEF rank
    <3> QED BY <2>3, <2>4, FS_Injection
  <2> HIDE DEF rank
  <2> QED BY <2>5 DEF Surjection
<1>5. ASSUME NEW n \in 1 .. c PROVE Nth(at, n) \in at /\ rank[Nth(at, n)] = n
  <2>1. \A i \in at : rank[i] = Cardinality(upto(i))
    OBVIOUS
  <2>2. PICK k \in at : rank[k] = n
    BY <1>4
  <2>3. Nth(at, n) = CHOOSE i \in at : Cardinality(upto(i)) = n
    BY DEF Nth
  <2> HIDE DEF rank, upto
  <2>4. Cardinality(upto(k)) = n
    BY <2>1, <2>2
  <2>5. Nth(at, n) \in at /\ Cardinality(upto(Nth(at, n))) = n
    BY <2>3, <2>4
  <2> QED BY <2>1, <2>5
<1>r. \A i \in at : rank[i] \in 1 .. c
  BY <1>2
<1> HIDE DEF rank, upto
<1>n. \A i \in at : i \in Nat /\ rank[i] \in Nat
  <2>1. \A i \in at : i \in Nat
    OBVIOUS
  <2> QED BY <1>1, <1>r, <2>1
<1>6. \A i, j \in at : rank[i] < rank[j] => i < j
  BY <1>n, <1>3
<1>7. \A i \in at : Nth(at, rank[i]) = i
  <2> SUFFICES ASSUME NEW i \in at PROVE Nth(at, rank[i]) = i
    OBVIOUS
  <2> DEFINE j == Nth(at, rank[i])
  <2>1. rank[i] \in 1 .. c
    BY <1>2
  <2>2. j \in at /\ rank[j] = rank[i]
    BY <1>5, <2>1
  <2> HIDE DEF j
  <2>3. i = j
    BY <1>n, <1>3, <2>2
  <2> QED BY <2>3 DEF j
<1>8. ASSUME NEW m \in 1 .. c, NEW n \in 1 .. c, m < n PROVE Nth(at, m) < Nth(at, n)
  <2>1. Nth(at, m) \in at /\ rank[Nth(at, m)] = m /\ Nth(at, n) \in at /\ rank[Nth(at, n)] = n
    BY <1>5
  <2> QED BY <1>6, <1>8, <2>1
<1>9. \A i \in at : \E n \in 1 .. c : Nth(at, n) = i
  BY <1>7, <1>r
<1> QED BY <1>1, <1>5, <1>8, <1>9

(* w has the entries of the list at the positions at, in their order. *)
Thins(w, list, at) ==
    \E f \in [1 .. Len(w) -> at] :
        /\ \A m, n \in 1 .. Len(w) : m < n => f[m] < f[n]
        /\ \A i \in at : \E n \in 1 .. Len(w) : f[n] = i
        /\ \A n \in 1 .. Len(w) : w[n] = list[f[n]]

(* What Kept makes of a list. *)
LEMMA KeptIs ==
  ASSUME NEW S, NEW list \in Seq(S), NEW at \in SUBSET (1 .. Len(list))
  PROVE  /\ Kept(list, at) \in Seq(S) /\ Len(Kept(list, at)) = Cardinality(at)
         /\ Thins(Kept(list, at), list, at)
<1> DEFINE w == Kept(list, at)
           c == Cardinality(at)
           f == [n \in 1 .. c |-> Nth(at, n)]
<1>1. /\ c \in Nat
      /\ \A n \in 1 .. c : Nth(at, n) \in at
      /\ \A m, n \in 1 .. c : m < n => Nth(at, m) < Nth(at, n)
      /\ \A i \in at : \E n \in 1 .. c : Nth(at, n) = i
  BY NthIs
<1>2. w = [n \in 1 .. c |-> list[Nth(at, n)]]
  BY DEF Kept
<1>3. \A n \in 1 .. c : list[Nth(at, n)] \in S
  BY <1>1, ElementOfSeq
<1>4. w \in Seq(S) /\ Len(w) = c /\ \A n \in 1 .. c : w[n] = list[Nth(at, n)]
  BY <1>1, <1>2, <1>3
<1> HIDE DEF w
<1>5. /\ f \in [1 .. Len(w) -> at]
      /\ \A m, n \in 1 .. Len(w) : m < n => f[m] < f[n]
      /\ \A i \in at : \E n \in 1 .. Len(w) : f[n] = i
      /\ \A n \in 1 .. Len(w) : w[n] = list[f[n]]
  BY <1>1, <1>4
<1> HIDE DEF f, c
<1>6. Thins(w, list, at)
  BY <1>5 DEF Thins
<1> QED BY <1>4, <1>6 DEF w, c

(* What is left of a list when the entries G are unlinked. *)
LEMMA UnlinkedIs ==
  ASSUME NEW S, NEW list \in Seq(S), NEW G
  PROVE  /\ Unlinked(list, G) \in Seq(S)
         /\ \A e : Contains(Unlinked(list, G), e) <=> Contains(list, e) /\ e \notin G
         /\ IsInjective(list) => IsInjective(Unlinked(list, G))
         /\ \A x : x \notin G => FromOn(Unlinked(list, G), x) = FromOn(list, x) \ G
<1> DEFINE at == {i \in 1 .. Len(list) : list[i] \notin G}
           w == Unlinked(list, G)
<1>1. /\ DOMAIN list = 1 .. Len(list) /\ Len(list) \in Nat /\ at \in SUBSET (1 .. Len(list))
  BY LenProperties
<1>2. w = Kept(list, at)
  BY <1>1 DEF Unlinked
<1>3. w \in Seq(S) /\ Thins(w, list, at)
  BY <1>1, <1>2, KeptIs
<1>4. \A i : i \in at <=> i \in 1 .. Len(list) /\ list[i] \notin G
  OBVIOUS
<1>5. DOMAIN w = 1 .. Len(w) /\ Len(w) \in Nat
  BY <1>3, LenProperties
<1> HIDE DEF w, at
<1>6. PICK f \in [1 .. Len(w) -> at] :
        /\ \A m, n \in 1 .. Len(w) : m < n => f[m] < f[n]
        /\ \A i \in at : \E n \in 1 .. Len(w) : f[n] = i
        /\ \A n \in 1 .. Len(w) : w[n] = list[f[n]]
  BY <1>3 DEF Thins
<1>7. \A n \in 1 .. Len(w) : f[n] \in 1 .. Len(list) /\ list[f[n]] \notin G
  BY <1>4, <1>6
<1>8. \A e : Contains(w, e) <=> Contains(list, e) /\ e \notin G
  <2>1. ASSUME NEW e, Contains(w, e) PROVE Contains(list, e) /\ e \notin G
    BY <1>6, <1>7, <2>1 DEF Contains
  <2>2. ASSUME NEW e, Contains(list, e), e \notin G PROVE Contains(w, e)
    <3>1. PICK i \in 1 .. Len(list) : list[i] = e
      BY <2>2 DEF Contains
    <3>2. i \in at
      BY <1>4, <2>2, <3>1
    <3> QED BY <1>6, <3>1, <3>2 DEF Contains
  <2> QED BY <2>1, <2>2
<1>9. ASSUME IsInjective(list) PROVE IsInjective(w)
  <2> SUFFICES ASSUME NEW m \in 1 .. Len(w), NEW n \in 1 .. Len(w), w[m] = w[n]
               PROVE  m = n
    BY <1>5 DEF IsInjective
  <2>1. f[m] = f[n] /\ f[m] \in Nat /\ f[n] \in Nat
    BY <1>1, <1>6, <1>7, <1>9 DEF IsInjective
  <2>2. ~ (m < n) /\ ~ (n < m)
    BY <1>6, <2>1
  <2>3. m \in Int /\ n \in Int
    BY <1>5
  <2> QED BY <2>2, <2>3
<1>10. ASSUME NEW x, x \notin G PROVE FromOn(w, x) = FromOn(list, x) \ G
  <2>1. ASSUME NEW e \in FromOn(w, x) PROVE e \in FromOn(list, x) \ G
    <3>1. PICK j \in 1 .. Len(w) : e = w[j] /\ \E k \in 1 .. j : w[k] = x
      BY DEF FromOn
    <3>2. PICK k \in 1 .. j : w[k] = x
      BY <3>1
    <3>3. k \in 1 .. Len(w) /\ (k < j \/ k = j)
      BY <1>5, <3>1
    <3>4. f[k] \in 1 .. f[j] /\ f[j] \in 1 .. Len(list) /\ list[f[k]] = x /\ list[f[j]] = e
          /\ e \notin G
      <4>1. f[k] \in 1 .. Len(list) /\ f[j] \in 1 .. Len(list)
        BY <1>7, <3>3
      <4>2. f[k] <= f[j]
        BY <1>6, <3>3, <4>1
      <4> QED BY <1>6, <1>7, <3>1, <3>2, <3>3, <4>1, <4>2
    <3> QED BY <3>4 DEF FromOn
  <2>2. ASSUME NEW e \in FromOn(list, x), e \notin G PROVE e \in FromOn(w, x)
    <3>1. PICK j \in 1 .. Len(list) : e = list[j] /\ \E k \in 1 .. j : list[k] = x
      BY DEF FromOn
    <3>2. PICK k \in 1 .. j : list[k] = x
      BY <3>1
    <3>3. k \in 1 .. Len(list) /\ k <= j
      BY <1>1, <3>1
    <3>4. j \in at /\ k \in at
      BY <1>4, <1>10, <2>2, <3>1, <3>2, <3>3
    <3>5. PICK m \in 1 .. Len(w) : f[m] = k
      BY <1>6, <3>4
    <3>6. PICK n \in 1 .. Len(w) : f[n] = j
      BY <1>6, <3>4
    <3>7. m <= n
      <4>1. n < m => f[n] < f[m]
        BY <1>6
      <4> QED BY <1>1, <1>5, <3>3, <3>5, <3>6, <4>1
    <3>8. w[m] = x /\ w[n] = e /\ m \in 1 .. n
      BY <1>5, <1>6, <3>1, <3>2, <3>5, <3>6, <3>7
    <3> QED BY <3>8 DEF FromOn
  <2> QED BY <2>1, <2>2
<1> QED BY <1>3, <1>8, <1>9, <1>10 DEF w

(* A list is empty if it has no entry. *)
LEMMA EmptyIs ==
  ASSUME NEW S, NEW list \in Seq(S)
  PROVE  list = << >> <=> \A e : ~ Contains(list, e)
<1>1. ASSUME list # << >> PROVE \E e : Contains(list, e)
  <2>1. Len(list) \in Nat \ {0}
    BY <1>1, EmptySeq
  <2>2. 1 \in 1 .. Len(list)
    BY <2>1
  <2> QED BY <2>2 DEF Contains
<1>2. \A e : ~ Contains(<< >>, e)
  BY DEF Contains
<1> QED BY <1>1, <1>2

(* What a list is after entries were put before it, in reverse. *)
LEMMA PrependedIs ==
  ASSUME NEW S, NEW list \in Seq(S), NEW new \in Seq(S)
  PROVE  /\ Reverse(new) \o list \in Seq(S)
         /\ \A e : Contains(Reverse(new) \o list, e) <=> Contains(new, e) \/ Contains(list, e)
         /\ IsInjective(new) /\ IsInjective(list) /\ (\A e : ~ (Contains(new, e) /\ Contains(list, e)))
              => IsInjective(Reverse(new) \o list)
<1> DEFINE r == Reverse(new)
           w == r \o list
<1>1. Len(new) \in Nat /\ Len(list) \in Nat /\ DOMAIN new = 1 .. Len(new) /\ DOMAIN list = 1 .. Len(list)
  BY LenProperties
<1>2. r = [i \in 1 .. Len(new) |-> new[(Len(new) - i) + 1]]
  BY DEF Reverse
<1>3. \A i \in 1 .. Len(new) : (Len(new) - i) + 1 \in 1 .. Len(new)
  BY <1>1
<1>4. \A i \in 1 .. Len(new) : new[(Len(new) - i) + 1] \in S
  BY <1>3, ElementOfSeq
<1>5. r \in Seq(S) /\ Len(r) = Len(new) /\ \A i \in 1 .. Len(new) : r[i] = new[(Len(new) - i) + 1]
  BY <1>1, <1>2, <1>4
<1> HIDE DEF r
<1>6. /\ w \in Seq(S) /\ Len(w) = Len(new) + Len(list)
      /\ \A i \in 1 .. Len(new) + Len(list) :
            w[i] = IF i <= Len(new) THEN r[i] ELSE list[i - Len(new)]
  <2>1. /\ w \in Seq(S) /\ Len(w) = Len(r) + Len(list)
        /\ \A i \in 1 .. Len(r) + Len(list) :
              w[i] = IF i <= Len(r) THEN r[i] ELSE list[i - Len(r)]
    BY <1>5, ConcatProperties
  <2>2. Len(r) = Len(new)
    BY <1>5
  <2> HIDE DEF w
  <2> QED BY <2>1, <2>2, Zenon
<1> HIDE DEF w
<1>7. DOMAIN w = 1 .. Len(new) + Len(list)
  BY <1>6, LenProperties
<1> DEFINE a == Len(new)
           b == Len(list)
<1>n. a \in Nat /\ b \in Nat /\ Len(w) = a + b
  BY <1>1, <1>6
<1>8. /\ \A i \in 1 .. Len(new) : i \in 1 .. Len(w) /\ w[i] = new[(Len(new) - i) + 1]
      /\ \A i \in 1 .. Len(list) : i + Len(new) \in 1 .. Len(w) /\ w[i + Len(new)] = list[i]
  <2>1. ASSUME NEW i \in 1 .. a PROVE i \in 1 .. a + b /\ i <= a
    BY <1>n
  <2>2. ASSUME NEW i \in 1 .. b PROVE i + a \in 1 .. a + b /\ ~ (i + a <= a) /\ (i + a) - a = i
    BY <1>n
  <2>3. ASSUME NEW i \in 1 .. a PROVE i \in 1 .. Len(w) /\ w[i] = new[(a - i) + 1]
    BY <1>5, <1>6, <2>1
  <2>4. ASSUME NEW i \in 1 .. b PROVE i + a \in 1 .. Len(w) /\ w[i + a] = list[i]
    <3> DEFINE k == i + a
    <3>1. k \in 1 .. a + b /\ ~ (k <= a) /\ k - a = i
      BY <2>2
    <3>2. w[k] = list[k - a] /\ k \in 1 .. Len(w)
      BY <1>6, <3>1
    <3> QED BY <3>1, <3>2
  <2> QED BY <2>3, <2>4
<1>9. \A i \in 1 .. Len(w) : \/ i \in 1 .. Len(new) /\ w[i] = new[(Len(new) - i) + 1]
                             \/ i - Len(new) \in 1 .. Len(list) /\ w[i] = list[i - Len(new)]
  <2> SUFFICES ASSUME NEW i \in 1 .. Len(w)
               PROVE  \/ i \in 1 .. a /\ w[i] = new[(a - i) + 1]
                      \/ i - a \in 1 .. b /\ w[i] = list[i - a]
    OBVIOUS
  <2>1. i \in 1 .. a + b /\ i \in Int
    BY <1>n
  <2>2. CASE i <= a
    <3>1. i \in 1 .. a
      BY <1>n, <2>1, <2>2
    <3> QED BY <1>8, <3>1
  <2>3. CASE ~ (i <= a)
    <3>1. i - a \in 1 .. b
      BY <1>n, <2>1, <2>3
    <3> QED BY <1>6, <2>1, <2>3, <3>1
  <2> QED BY <2>2, <2>3
<1>10. \A e : Contains(w, e) <=> Contains(new, e) \/ Contains(list, e)
  <2>1. ASSUME NEW e, Contains(w, e) PROVE Contains(new, e) \/ Contains(list, e)
    BY <1>3, <1>9, <2>1 DEF Contains
  <2>2. ASSUME NEW e, Contains(new, e) PROVE Contains(w, e)
    <3>1. PICK i \in 1 .. Len(new) : new[i] = e
      BY <2>2 DEF Contains
    <3> DEFINE j == (Len(new) - i) + 1
    <3>2. j \in 1 .. Len(new) /\ (Len(new) - j) + 1 = i
      BY <1>1
    <3> QED BY <1>8, <3>1, <3>2 DEF Contains
  <2>3. ASSUME NEW e, Contains(list, e) PROVE Contains(w, e)
    BY <1>8, <2>3 DEF Contains
  <2> QED BY <2>1, <2>2, <2>3
<1>11. ASSUME IsInjective(new), IsInjective(list), \A e : ~ (Contains(new, e) /\ Contains(list, e))
       PROVE  IsInjective(w)
  <2> SUFFICES ASSUME NEW i \in 1 .. Len(w), NEW j \in 1 .. Len(w), w[i] = w[j] PROVE i = j
    BY <1>6, <1>7 DEF IsInjective
  <2>i. i \in Int /\ j \in Int /\ Len(new) \in Int
    BY <1>1, <1>6
  <2>1. CASE i \in 1 .. Len(new) /\ j \in 1 .. Len(new)
    <3>1. (Len(new) - i) + 1 = (Len(new) - j) + 1
      BY <1>1, <1>3, <1>8, <1>11, <2>1 DEF IsInjective
    <3> QED BY <2>i, <3>1
  <2>2. CASE i - Len(new) \in 1 .. Len(list) /\ j - Len(new) \in 1 .. Len(list)
            /\ w[i] = list[i - Len(new)] /\ w[j] = list[j - Len(new)]
    <3>1. i - Len(new) = j - Len(new)
      BY <1>1, <1>11, <2>2 DEF IsInjective
    <3> QED BY <2>i, <3>1
  <2>3. ASSUME NEW x \in 1 .. Len(new), NEW y \in 1 .. Len(list), new[x] = list[y] PROVE FALSE
    BY <1>11, <2>3 DEF Contains
  <2> QED BY <1>3, <1>9, <2>1, <2>2, <2>3
<1> QED BY <1>6, <1>10, <1>11 DEF w, r

-----------------------------------------------------------------------------
(* The two ways in which the lists change.                                 *)

(* The invariants of the runs, in terms of the state's parts. *)
LEMMA ListsIs ==
  /\ ListsMirror <=> TypeOK /\ Mirrored(live, subscribers, subscriptions)
  /\ TopicsExact <=> Exact(topics, subscribers, ntopics, nsubscriptions)
  /\ TopicsInv => SafeTraversal
BY DEF ListsMirror, Mirrored, TopicsExact, Exact, Pairs, SafeTraversal, Traverses, TopicsInv

(* What the two lists hold together. *)
Typed(lv, tp, subrs, subns, nt, ns) ==
    /\ lv \subseteq Sessions /\ tp \subseteq TopicNames
    /\ subrs \in [TopicNames -> Seq(Sessions)] /\ subns \in [Sessions -> Seq(TopicNames)]
    /\ nt \in Int /\ ns \in Int

(* The type invariant, likewise. *)
LEMMA TypesIs ==
  /\ TypeOK <=> /\ Typed(live, topics, subscribers, subscriptions, ntopics, nsubscriptions)
                /\ pub \in Publications \cup {NULL} /\ reached \subseteq Sessions
  /\ TypeOK' <=> /\ Typed(live', topics', subscribers', subscriptions', ntopics', nsubscriptions')
                 /\ pub' \in Publications \cup {NULL} /\ reached' \subseteq Sessions
BY DEF TypeOK, Typed

(* There are finitely many subscriptions and topics. *)
LEMMA FinitePairs ==
  /\ \A subrs : IsFiniteSet(Pairs(subrs)) /\ Cardinality(Pairs(subrs)) \in Nat
  /\ \A tp \in SUBSET TopicNames : IsFiniteSet(tp) /\ Cardinality(tp) \in Nat
<1>1. IsFiniteSet(Sessions \X TopicNames)
  BY FiniteAssumption, FS_Product
<1>2. ASSUME NEW subrs PROVE IsFiniteSet(Pairs(subrs)) /\ Cardinality(Pairs(subrs)) \in Nat
  <2>1. Pairs(subrs) \in SUBSET (Sessions \X TopicNames)
    BY DEF Pairs
  <2>2. IsFiniteSet(Pairs(subrs))
    BY <1>1, <2>1, FS_Subset
  <2> QED BY <2>2, FS_CardinalityType
<1>3. ASSUME NEW tp \in SUBSET TopicNames PROVE IsFiniteSet(tp) /\ Cardinality(tp) \in Nat
  <2>1. IsFiniteSet(tp)
    BY FiniteAssumption, FS_Subset
  <2> QED BY <2>1, FS_CardinalityType
<1> QED BY <1>2, <1>3

(* Being a pair is being in the list. *)
LEMMA PairIs ==
  \A subrs : \A s \in Sessions, t \in TopicNames :
      <<s, t>> \in Pairs(subrs) <=> Contains(subrs[t], s)
BY DEF Pairs

(* Subscriptions are unlinked, of which the sessions that leave keep none. *)
LEMMA UnlinkStep ==
  ASSUME Typed(live, topics, subscribers, subscriptions, ntopics, nsubscriptions),
         Mirrored(live, subscribers, subscriptions),
         Exact(topics, subscribers, ntopics, nsubscriptions),
         NEW gone \in SUBSET Pairs(subscribers), Unlink(gone), NEW lv \in SUBSET Sessions,
         \A s \in Sessions : s \notin lv =>
            s \notin live \/ \A t \in TopicNames : Contains(subscriptions[s], t) => <<s, t>> \in gone
  PROVE  /\ Typed(lv, topics', subscribers', subscriptions', ntopics', nsubscriptions')
         /\ Mirrored(lv, subscribers', subscriptions')
         /\ Exact(topics', subscribers', ntopics', nsubscriptions')
         /\ Pairs(subscribers') = Pairs(subscribers) \ gone
         /\ \A t \in TopicNames :
              subscribers'[t] = Unlinked(subscribers[t], {s \in Sessions : <<s, t>> \in gone})
<1> DEFINE of(t) == {s \in Sessions : <<s, t>> \in gone}
           by(s) == {t \in TopicNames : <<s, t>> \in gone}
           freed == {t \in topics : subscribers'[t] = << >>}
<1>1. /\ subscribers' = [t \in TopicNames |-> Unlinked(subscribers[t], of(t))]
      /\ subscriptions' = [s \in Sessions |-> Unlinked(subscriptions[s], by(s))]
      /\ nsubscriptions' = nsubscriptions - Cardinality(gone)
      /\ topics' = topics \ freed /\ ntopics' = ntopics - Cardinality(freed)
  BY DEF Unlink
<1>2. /\ subscribers \in [TopicNames -> Seq(Sessions)] /\ subscriptions \in [Sessions -> Seq(TopicNames)]
      /\ topics \subseteq TopicNames /\ ntopics \in Int /\ nsubscriptions \in Int
  BY DEF Typed
<1>3. \A s \in Sessions, t \in TopicNames : /\ s \in of(t) <=> <<s, t>> \in gone
                                            /\ t \in by(s) <=> <<s, t>> \in gone
  OBVIOUS
<1> HIDE DEF of, by
<1>4. ASSUME NEW t \in TopicNames
      PROVE  /\ subscribers'[t] = Unlinked(subscribers[t], of(t)) /\ subscribers'[t] \in Seq(Sessions)
             /\ \A s : Contains(subscribers'[t], s) <=> Contains(subscribers[t], s) /\ s \notin of(t)
             /\ IsInjective(subscribers[t]) => IsInjective(subscribers'[t])
  <2>1. subscribers[t] \in Seq(Sessions) /\ subscribers'[t] = Unlinked(subscribers[t], of(t))
    BY <1>1, <1>2
  <2> QED BY <2>1, UnlinkedIs
<1>5. ASSUME NEW s \in Sessions
      PROVE  /\ subscriptions'[s] \in Seq(TopicNames)
             /\ \A t : Contains(subscriptions'[s], t) <=> Contains(subscriptions[s], t) /\ t \notin by(s)
             /\ IsInjective(subscriptions[s]) => IsInjective(subscriptions'[s])
  <2>1. subscriptions[s] \in Seq(TopicNames) /\ subscriptions'[s] = Unlinked(subscriptions[s], by(s))
    BY <1>1, <1>2
  <2> QED BY <2>1, UnlinkedIs
<1>6. /\ subscribers' \in [TopicNames -> Seq(Sessions)] /\ subscriptions' \in [Sessions -> Seq(TopicNames)]
  BY <1>1, <1>4, <1>5
<1>7. Mirrored(lv, subscribers', subscriptions')
  <2>1. \A s \in Sessions, t \in TopicNames :
          Contains(subscriptions'[s], t) <=> Contains(subscribers'[t], s)
    BY <1>3, <1>4, <1>5 DEF Mirrored
  <2>2. /\ \A t \in TopicNames : IsInjective(subscribers'[t])
        /\ \A s \in Sessions : IsInjective(subscriptions'[s])
    BY <1>4, <1>5 DEF Mirrored
  <2>3. ASSUME NEW s \in Sessions, s \notin lv PROVE subscriptions'[s] = << >>
    <3>1. \A t \in TopicNames : Contains(subscriptions[s], t) => <<s, t>> \in gone
      <4>1. CASE s \notin live
        <5>1. subscriptions[s] = << >>
          BY <4>1 DEF Mirrored
        <5> QED BY <1>2, <5>1, EmptyIs
      <4> QED BY <2>3, <4>1
    <3>2. ASSUME NEW t, Contains(subscriptions'[s], t) PROVE FALSE
      <4>1. t \in TopicNames
        BY <1>5, <3>2, ElementOfSeq DEF Contains
      <4> QED BY <1>3, <1>5, <3>1, <3>2, <4>1
    <3> QED BY <1>5, <3>2, EmptyIs
  <2> QED BY <2>1, <2>2, <2>3 DEF Mirrored
<1>8. Pairs(subscribers') = Pairs(subscribers) \ gone
  <2>1. gone \subseteq Sessions \X TopicNames
    BY DEF Pairs
  <2>2. \A s \in Sessions, t \in TopicNames :
          <<s, t>> \in Pairs(subscribers') <=> <<s, t>> \in Pairs(subscribers) \ gone
    BY <1>3, <1>4, PairIs
  <2>3. Pairs(subscribers') \subseteq Sessions \X TopicNames /\ Pairs(subscribers) \subseteq Sessions \X TopicNames
    BY DEF Pairs
  <2> QED BY <2>1, <2>2, <2>3
<1>9. Exact(topics', subscribers', ntopics', nsubscriptions')
  <2>1. topics = {t \in TopicNames : subscribers[t] # << >>} /\ ntopics = Cardinality(topics)
        /\ nsubscriptions = Cardinality(Pairs(subscribers))
    BY DEF Exact
  <2>2. \A t \in TopicNames : subscribers'[t] # << >> => subscribers[t] # << >>
    BY <1>2, <1>4, EmptyIs
  <2>3. topics' = {t \in TopicNames : subscribers'[t] # << >>}
    BY <1>1, <2>1, <2>2
  <2>4. ntopics' = Cardinality(topics')
    <3>1. IsFiniteSet(topics) /\ freed \in SUBSET topics
      BY <1>2, FinitePairs
    <3>2. topics \cap freed = freed
      BY <3>1
    <3>3. ntopics' = ntopics - Cardinality(freed) /\ topics' = topics \ freed
      BY <1>1
    <3> HIDE DEF freed
    <3>4. Cardinality(topics \ freed) = Cardinality(topics) - Cardinality(freed)
      BY <3>1, <3>2, FS_Difference
    <3> QED BY <2>1, <3>3, <3>4
  <2>5. nsubscriptions' = Cardinality(Pairs(subscribers'))
    <3>1. IsFiniteSet(Pairs(subscribers))
      BY FinitePairs
    <3>2. Pairs(subscribers) \cap gone = gone
      OBVIOUS
    <3> QED BY <1>1, <1>8, <2>1, <3>1, <3>2, FS_Difference
  <2> QED BY <2>3, <2>4, <2>5 DEF Exact
<1>10. Typed(lv, topics', subscribers', subscriptions', ntopics', nsubscriptions')
  <2>1. topics' \subseteq TopicNames /\ Cardinality(topics') \in Nat
    BY <1>1, <1>2, FinitePairs
  <2>2. ntopics' \in Int /\ nsubscriptions' \in Int
    BY <1>9, <2>1, FinitePairs DEF Exact
  <2> QED BY <1>6, <2>1, <2>2 DEF Typed
<1> QED BY <1>4, <1>7, <1>8, <1>9, <1>10 DEF of

(* An injective list has as many entries as elements. *)
LEMMA CountList ==
  ASSUME NEW S, NEW list \in Seq(S), IsInjective(list), NEW u
  PROVE  LET pairs == {<<s, u>> : s \in ToSet(list)}
         IN  IsFiniteSet(pairs) /\ Cardinality(pairs) = Len(list)
<1> DEFINE pairs == {<<s, u>> : s \in ToSet(list)}
           f == [i \in 1 .. Len(list) |-> <<list[i], u>>]
<1>1. Len(list) \in Nat /\ DOMAIN list = 1 .. Len(list)
  BY LenProperties
<1>2. f \in [1 .. Len(list) -> pairs] /\ \A i, j \in 1 .. Len(list) : f[i] = f[j] => i = j
  BY <1>1 DEF ToSet, IsInjective
<1>3. \A m \in pairs : \E i \in 1 .. Len(list) : f[i] = m
  BY <1>1 DEF ToSet
<1> HIDE DEF f, pairs
<1>4. f \in Injection(1 .. Len(list), pairs) /\ f \in Surjection(1 .. Len(list), pairs)
  BY <1>2, <1>3 DEF Injection, IsInjective, Surjection
<1>5. ExistsBijection(1 .. Len(list), pairs)
  BY <1>4 DEF ExistsBijection, Bijection
<1>6. IsFiniteSet(1 .. Len(list)) /\ Cardinality(1 .. Len(list)) = Len(list)
  BY <1>1, FS_Interval
<1>7. IsFiniteSet(pairs) /\ Cardinality(pairs) = Len(list)
  BY <1>5, <1>6, FS_Bijection
<1> QED BY <1>7 DEF pairs

(* The sessions new, which are connected and not subscribed, subscribe.    *)
LEMMA SubscribeStep ==
  ASSUME Typed(live, topics, subscribers, subscriptions, ntopics, nsubscriptions),
         Mirrored(live, subscribers, subscriptions),
         Exact(topics, subscribers, ntopics, nsubscriptions),
         NEW u \in TopicNames, NEW new \in Seq(Sessions), IsInjective(new),
         \A s \in Sessions : Contains(new, s) => s \in live /\ ~ Contains(subscriptions[s], u),
         new = << >> => u \in topics,
         topic_subscribe(new, u)
  PROVE  /\ Typed(live, topics', subscribers', subscriptions', ntopics', nsubscriptions')
         /\ Mirrored(live, subscribers', subscriptions')
         /\ Exact(topics', subscribers', ntopics', nsubscriptions')
         /\ Pairs(subscribers') = Pairs(subscribers) \cup {<<s, u>> : s \in ToSet(new)}
<1> DEFINE pairs == {<<s, u>> : s \in ToSet(new)}
           to == Reverse(new) \o subscribers[u]
           head(s) == <<u>> \o subscriptions[s]
<1>1. /\ topics' = topics \cup {u} /\ ntopics' = ntopics + Created(u)
      /\ subscriptions' = [s \in Sessions |-> IF Contains(new, s) THEN head(s) ELSE subscriptions[s]]
      /\ nsubscriptions' = nsubscriptions + Len(new)
  BY DEF topic_subscribe
<1>2. /\ subscribers \in [TopicNames -> Seq(Sessions)] /\ subscriptions \in [Sessions -> Seq(TopicNames)]
      /\ topics \subseteq TopicNames /\ ntopics \in Int /\ nsubscriptions \in Int /\ live \subseteq Sessions
  BY DEF Typed
<1>3. subscribers' = [subscribers EXCEPT ![u] = to]
  BY <1>2 DEF topic_subscribe
<1>4. ASSUME NEW e, Contains(new, e) PROVE e \in Sessions /\ ~ Contains(subscribers[u], e)
  <2>1. e \in Sessions
    BY <1>4, ElementOfSeq DEF Contains
  <2> QED BY <1>4, <2>1 DEF Mirrored
<1>5. /\ to \in Seq(Sessions) /\ IsInjective(to)
      /\ \A e : Contains(to, e) <=> Contains(new, e) \/ Contains(subscribers[u], e)
  <2>1. subscribers[u] \in Seq(Sessions) /\ IsInjective(subscribers[u])
    BY <1>2 DEF Mirrored
  <2> QED BY <1>4, <2>1, PrependedIs
<1>6. ASSUME NEW s \in Sessions, Contains(new, s)
      PROVE  /\ head(s) \in Seq(TopicNames) /\ IsInjective(head(s))
             /\ \A t : Contains(head(s), t) <=> t = u \/ Contains(subscriptions[s], t)
  <2> DEFINE one == <<u>>
  <2>1. one \in Seq(TopicNames) /\ Len(one) = 1 /\ one[1] = u /\ DOMAIN one = {1}
    OBVIOUS
  <2>2. Reverse(one) = one
    BY DEF Reverse
  <2>3. head(s) = Reverse(one) \o subscriptions[s]
    BY <2>2
  <2>4. IsInjective(one) /\ \A t : Contains(one, t) <=> t = u
    <3> HIDE DEF one
    <3>1. 1 .. Len(one) = {1}
      BY <2>1
    <3> QED BY <2>1, <3>1 DEF IsInjective, Contains
  <2> HIDE DEF one, head
  <2>5. subscriptions[s] \in Seq(TopicNames) /\ IsInjective(subscriptions[s]) /\ ~ Contains(subscriptions[s], u)
    BY <1>2, <1>6 DEF Mirrored
  <2>6. /\ Reverse(one) \o subscriptions[s] \in Seq(TopicNames)
        /\ IsInjective(Reverse(one) \o subscriptions[s])
        /\ \A t : Contains(Reverse(one) \o subscriptions[s], t) <=>
                    Contains(one, t) \/ Contains(subscriptions[s], t)
    BY <2>1, <2>4, <2>5, PrependedIs
  <2> QED BY <2>3, <2>4, <2>6
<1> HIDE DEF to, head
<1>7. \A t \in TopicNames : /\ subscribers'[t] = IF t = u THEN to ELSE subscribers[t]
                            /\ subscribers'[t] \in Seq(Sessions)
  BY <1>2, <1>3, <1>5
<1>8. \A s \in Sessions : /\ subscriptions'[s] = IF Contains(new, s) THEN head(s) ELSE subscriptions[s]
                          /\ subscriptions'[s] \in Seq(TopicNames)
  BY <1>1, <1>2, <1>6
<1>9. /\ subscribers' \in [TopicNames -> Seq(Sessions)] /\ subscriptions' \in [Sessions -> Seq(TopicNames)]
  BY <1>1, <1>2, <1>3, <1>7, <1>8
<1>10. ASSUME NEW s \in Sessions, NEW t \in TopicNames
       PROVE  /\ Contains(subscribers'[t], s) <=> (t = u /\ Contains(new, s)) \/ Contains(subscribers[t], s)
              /\ Contains(subscriptions'[s], t) <=> (t = u /\ Contains(new, s)) \/ Contains(subscriptions[s], t)
  <2>1. Contains(subscribers'[t], s) <=> (t = u /\ Contains(new, s)) \/ Contains(subscribers[t], s)
    BY <1>5, <1>7
  <2>2. Contains(subscriptions'[s], t) <=> (t = u /\ Contains(new, s)) \/ Contains(subscriptions[s], t)
    BY <1>6, <1>8
  <2> QED BY <2>1, <2>2
<1>11. Mirrored(live, subscribers', subscriptions')
  <2>1. \A s \in Sessions, t \in TopicNames :
          Contains(subscriptions'[s], t) <=> Contains(subscribers'[t], s)
    BY <1>10 DEF Mirrored
  <2>2. /\ \A t \in TopicNames : IsInjective(subscribers'[t])
        /\ \A s \in Sessions : IsInjective(subscriptions'[s])
    BY <1>5, <1>6, <1>7, <1>8 DEF Mirrored
  <2>3. \A s \in Sessions \ live : subscriptions'[s] = << >>
    BY <1>8 DEF Mirrored
  <2> QED BY <2>1, <2>2, <2>3 DEF Mirrored
<1>12. \A s : s \in ToSet(new) <=> Contains(new, s)
  BY LenProperties DEF ToSet, Contains
<1>13. pairs \subseteq Sessions \X TopicNames /\ \A s \in Sessions, t \in TopicNames :
         <<s, t>> \in pairs <=> t = u /\ Contains(new, s)
  BY <1>4, <1>12
<1>14. Pairs(subscribers') = Pairs(subscribers) \cup pairs
  <2>1. \A s \in Sessions, t \in TopicNames :
          <<s, t>> \in Pairs(subscribers') <=> <<s, t>> \in Pairs(subscribers) \/ <<s, t>> \in pairs
    BY <1>10, <1>13, PairIs
  <2>2. /\ Pairs(subscribers') \subseteq Sessions \X TopicNames
        /\ Pairs(subscribers) \subseteq Sessions \X TopicNames
    BY DEF Pairs
  <2> HIDE DEF pairs
  <2> QED BY <1>13, <2>1, <2>2
<1>15. Exact(topics', subscribers', ntopics', nsubscriptions')
  <2>1. topics = {t \in TopicNames : subscribers[t] # << >>} /\ ntopics = Cardinality(topics)
        /\ nsubscriptions = Cardinality(Pairs(subscribers))
    BY DEF Exact
  <2>2. to # << >>
    <3>1. CASE new = << >>
      <4>1. subscribers[u] # << >>
        BY <2>1, <3>1
      <4>2. \E e : Contains(subscribers[u], e)
        BY <1>2, <4>1, EmptyIs
      <4> QED BY <1>5, <4>2, EmptyIs
    <3>2. CASE new # << >>
      <4>1. \E e : Contains(new, e)
        BY <3>2, EmptyIs
      <4> QED BY <1>5, <4>1, EmptyIs
    <3> QED BY <3>1, <3>2
  <2>3. topics' = {t \in TopicNames : subscribers'[t] # << >>}
    BY <1>1, <1>7, <2>1, <2>2
  <2>4. ntopics' = Cardinality(topics')
    <3>1. IsFiniteSet(topics) /\ Cardinality(topics) \in Nat
      BY <1>2, FinitePairs
    <3>2. Cardinality(topics \cup {u}) =
            IF u \in topics THEN Cardinality(topics) ELSE Cardinality(topics) + 1
      BY <3>1, FS_AddElement
    <3>3. Created(u) = IF u \in topics THEN 0 ELSE 1
      BY DEF Created
    <3> QED BY <1>1, <2>1, <3>1, <3>2, <3>3
  <2>5. nsubscriptions' = Cardinality(Pairs(subscribers'))
    <3>1. IsFiniteSet(pairs) /\ Cardinality(pairs) = Len(new)
      BY CountList
    <3>2. Pairs(subscribers) \cap pairs = {}
      <4>1. ASSUME NEW m \in Pairs(subscribers), m \in pairs PROVE FALSE
        <5>1. PICK s \in ToSet(new) : m = <<s, u>>
          BY <4>1
        <5>2. Contains(new, s) /\ s \in Sessions
          BY <1>4, <1>12
        <5> QED BY <1>4, <5>1, <5>2, PairIs
      <4> QED BY <4>1
    <3> HIDE DEF pairs
    <3>3. Cardinality(Pairs(subscribers) \cup pairs) =
            Cardinality(Pairs(subscribers)) + Cardinality(pairs) - Cardinality(Pairs(subscribers) \cap pairs)
      BY <3>1, FinitePairs, FS_Union
    <3>4. Len(new) \in Nat /\ Cardinality(Pairs(subscribers)) \in Nat
      BY FinitePairs, LenProperties
    <3>5. Cardinality(Pairs(subscribers) \cap pairs) = 0
      BY <3>2, FS_EmptySet
    <3> QED BY <1>1, <1>14, <2>1, <3>1, <3>3, <3>4, <3>5
  <2> QED BY <2>3, <2>4, <2>5 DEF Exact
<1>16. Typed(live, topics', subscribers', subscriptions', ntopics', nsubscriptions')
  <2>1. topics' \subseteq TopicNames /\ Cardinality(topics') \in Nat
    BY <1>1, <1>2, FinitePairs
  <2>2. ntopics' \in Int /\ nsubscriptions' \in Int
    BY <1>15, <2>1, FinitePairs DEF Exact
  <2> QED BY <1>2, <1>9, <2>1, <2>2 DEF Typed
<1> QED BY <1>11, <1>14, <1>15, <1>16

-----------------------------------------------------------------------------
(* Walks over a list.                                                      *)

(* In an injective list, everything from an entry on is the entry and      *)
(* everything from the next one on.                                        *)
LEMMA FromOnIs ==
  ASSUME NEW S, NEW list \in Seq(S), IsInjective(list), NEW i \in 1 .. Len(list)
  PROVE  /\ \A e : e \in FromOn(list, list[i]) <=> \E j \in i .. Len(list) : list[j] = e
         /\ list[i] \in FromOn(list, list[i])
<1>1. Len(list) \in Nat /\ DOMAIN list = 1 .. Len(list)
  BY LenProperties
<1>2. ASSUME NEW e, e \in FromOn(list, list[i]) PROVE \E j \in i .. Len(list) : list[j] = e
  <2>1. PICK j \in 1 .. Len(list) : list[j] = e /\ \E k \in 1 .. j : list[k] = list[i]
    BY <1>2 DEF FromOn
  <2>2. PICK k \in 1 .. j : list[k] = list[i]
    BY <2>1
  <2>3. k \in 1 .. Len(list)
    BY <1>1
  <2>4. k = i
    BY <1>1, <2>2, <2>3 DEF IsInjective
  <2> QED BY <1>1, <2>1, <2>4
<1>3. ASSUME NEW j \in i .. Len(list) PROVE list[j] \in FromOn(list, list[i])
  <2>1. j \in 1 .. Len(list) /\ i \in 1 .. j
    BY <1>1
  <2> QED BY <2>1 DEF FromOn
<1>4. i \in i .. Len(list)
  BY <1>1
<1> QED BY <1>2, <1>3, <1>4

(* What LIST_NEXT finds. *)
LEMMA ListNextIs ==
  ASSUME Typed(live, topics, subscribers, subscriptions, ntopics, nsubscriptions),
         Mirrored(live, subscribers, subscriptions), NEW t \in TopicNames, NEW s \in Sessions,
         Contains(subscribers[t], s)
  PROVE  /\ s \in FromOn(subscribers[t], s) /\ FromOn(subscribers[t], s) \subseteq Sessions
         /\ ListNext(t, s) = NULL => FromOn(subscribers[t], s) = {s}
         /\ ListNext(t, s) # NULL =>
              /\ ListNext(t, s) \in Sessions /\ Contains(subscribers[t], ListNext(t, s))
              /\ ListNext(t, s) # s
              /\ FromOn(subscribers[t], ListNext(t, s)) = FromOn(subscribers[t], s) \ {s}
<1> DEFINE list == subscribers[t]
           i == CHOOSE j \in 1 .. Len(list) : list[j] = s
<1>1. list \in Seq(Sessions) /\ IsInjective(list)
  BY DEF Typed, Mirrored
<1>2. Len(list) \in Nat /\ DOMAIN list = 1 .. Len(list)
  BY <1>1, LenProperties
<1>3. i \in 1 .. Len(list) /\ list[i] = s
  BY DEF Contains
<1>4. ListNext(t, s) = IF i = Len(list) THEN NULL ELSE list[i + 1]
  BY DEF ListNext
<1>c. \A e : Contains(list, e) <=> \E j \in 1 .. Len(list) : list[j] = e
  BY DEF Contains
<1> HIDE DEF i, list
<1>5. /\ \A e : e \in FromOn(list, s) <=> \E j \in i .. Len(list) : list[j] = e
      /\ s \in FromOn(list, s)
  BY <1>1, <1>3, FromOnIs
<1>6. FromOn(list, s) \subseteq Sessions
  <2>1. \A j \in i .. Len(list) : list[j] \in Sessions
    BY <1>1, <1>2, <1>3, ElementOfSeq
  <2> QED BY <1>5, <2>1
<1>7. CASE i = Len(list)
  <2> DEFINE top == Len(list)
  <2>t. top \in Nat /\ i = top
    BY <1>2, <1>7
  <2> HIDE DEF top
  <2>0. \A j \in i .. top : j = i
    BY <2>t
  <2>1. \A j \in i .. Len(list) : j = i
    BY <2>0 DEF top
  <2>2. FromOn(list, s) = {s}
    BY <1>3, <1>5, <2>1
  <2> QED BY <1>4, <1>5, <1>6, <1>7, <2>2 DEF list
<1>8. CASE i # Len(list)
  <2> DEFINE n == list[i + 1]
  <2> DEFINE top == Len(list)
  <2>t. top \in Nat /\ i \in 1 .. top /\ i # top
    BY <1>2, <1>3, <1>8
  <2> HIDE DEF top
  <2>0. i + 1 \in 1 .. top
    BY <2>t
  <2>1. i + 1 \in 1 .. Len(list)
    BY <2>0 DEF top
  <2>2. n \in Sessions /\ n # s
    <3>1. n \in Sessions
      BY <1>1, <2>1, ElementOfSeq
    <3>2. i + 1 # i
      BY <1>3
    <3> QED BY <1>1, <1>2, <1>3, <2>1, <3>1, <3>2 DEF IsInjective
  <2>3. \A e : e \in FromOn(list, n) <=> \E j \in i + 1 .. Len(list) : list[j] = e
    BY <1>1, <2>1, FromOnIs
  <2>4. FromOn(list, n) = FromOn(list, s) \ {s}
    <3>1. ASSUME NEW e \in FromOn(list, n) PROVE e \in FromOn(list, s) /\ e # s
      <4>1. PICK j \in i + 1 .. Len(list) : list[j] = e
        BY <2>3
      <4>2. j \in i .. Len(list) /\ j \in 1 .. Len(list) /\ j # i
        BY <1>2, <1>3
      <4> QED BY <1>1, <1>2, <1>3, <1>5, <4>1, <4>2 DEF IsInjective
    <3>2. ASSUME NEW e \in FromOn(list, s), e # s PROVE e \in FromOn(list, n)
      <4>1. PICK j \in i .. Len(list) : list[j] = e
        BY <1>5
      <4>2. j # i
        BY <1>3, <3>2, <4>1
      <4>3. j \in i + 1 .. Len(list)
        BY <1>2, <1>3, <4>2
      <4> QED BY <2>3, <4>1, <4>3
    <3> QED BY <3>1, <3>2
  <2>5. ListNext(t, s) = n /\ n # NULL /\ Contains(list, n)
    BY <1>4, <1>8, <1>c, <2>1, <2>2, NullAssumption
  <2> HIDE DEF n
  <2> QED BY <1>5, <1>6, <2>2, <2>4, <2>5 DEF list
<1> QED BY <1>7, <1>8

(* hybi_stop takes the session out of every list and nothing else. *)
LEMMA StopStep ==
  ASSUME Typed(live, topics, subscribers, subscriptions, ntopics, nsubscriptions),
         Mirrored(live, subscribers, subscriptions),
         Exact(topics, subscribers, ntopics, nsubscriptions),
         NEW s \in Sessions, hybi_stop(s)
  PROVE  /\ live' = live \ {s}
         /\ Typed(live', topics', subscribers', subscriptions', ntopics', nsubscriptions')
         /\ Mirrored(live', subscribers', subscriptions')
         /\ Exact(topics', subscribers', ntopics', nsubscriptions')
         /\ Pairs(subscribers') = {m \in Pairs(subscribers) : m[1] # s}
         /\ \A t \in TopicNames, x \in Sessions : x # s =>
              /\ Contains(subscribers'[t], x) <=> Contains(subscribers[t], x)
              /\ FromOn(subscribers'[t], x) = FromOn(subscribers[t], x) \ {s}
<1> DEFINE gone == {<<s, t>> : t \in ToSet(subscriptions[s])}
           of(t) == {x \in Sessions : <<x, t>> \in gone}
<1>1. live' = live \ {s} /\ Unlink(gone)
  BY DEF hybi_stop
<1>2. /\ subscribers \in [TopicNames -> Seq(Sessions)] /\ subscriptions[s] \in Seq(TopicNames)
      /\ live \subseteq Sessions
  BY DEF Typed
<1>3. \A t : t \in ToSet(subscriptions[s]) <=> Contains(subscriptions[s], t)
  BY <1>2, LenProperties DEF ToSet, Contains
<1>4. \A t : Contains(subscriptions[s], t) => t \in TopicNames
  BY <1>2, ElementOfSeq DEF Contains
<1>5. \A x, t : <<x, t>> \in gone <=> x = s /\ Contains(subscriptions[s], t)
  BY <1>3
<1>6. gone \subseteq Pairs(subscribers)
  <2> SUFFICES ASSUME NEW t \in ToSet(subscriptions[s]) PROVE <<s, t>> \in Pairs(subscribers)
    OBVIOUS
  <2>1. Contains(subscriptions[s], t) /\ t \in TopicNames
    BY <1>3, <1>4
  <2> QED BY <2>1, PairIs DEF Mirrored
<1>7. /\ \A t \in TopicNames : subscribers'[t] = Unlinked(subscribers[t], of(t))
      /\ Pairs(subscribers') = Pairs(subscribers) \ gone
      /\ Typed(live', topics', subscribers', subscriptions', ntopics', nsubscriptions')
      /\ Mirrored(live', subscribers', subscriptions')
      /\ Exact(topics', subscribers', ntopics', nsubscriptions')
  <2>1. live' \in SUBSET Sessions
    BY <1>1, <1>2
  <2>2. \A x \in Sessions : x \notin live' =>
          x \notin live \/ \A t \in TopicNames : Contains(subscriptions[x], t) => <<x, t>> \in gone
    BY <1>1, <1>5
  <2> HIDE DEF gone
  <2> QED BY <1>1, <1>6, <2>1, <2>2, UnlinkStep

<1>8. Pairs(subscribers') = {m \in Pairs(subscribers) : m[1] # s}
  <2>1. ASSUME NEW m \in Pairs(subscribers) PROVE m \in gone <=> m[1] = s
    <3>1. PICK x \in Sessions, t \in TopicNames : m = <<x, t>>
      BY DEF Pairs
    <3>2. Contains(subscriptions[x], t)
      BY <3>1, PairIs DEF Mirrored
    <3> QED BY <1>5, <3>1, <3>2
  <2> HIDE DEF gone
  <2> QED BY <1>7, <2>1
<1>9. ASSUME NEW t \in TopicNames, NEW x \in Sessions, x # s
      PROVE  /\ Contains(subscribers'[t], x) <=> Contains(subscribers[t], x)
             /\ FromOn(subscribers'[t], x) = FromOn(subscribers[t], x) \ {s}
  <2>1. x \notin of(t) /\ of(t) \subseteq {s}
    BY <1>5, <1>9
  <2>2. subscribers[t] \in Seq(Sessions) /\ subscribers'[t] = Unlinked(subscribers[t], of(t))
    BY <1>2, <1>7
  <2>3. s \notin of(t) => ~ Contains(subscribers[t], s)
    BY <1>5 DEF Mirrored
  <2> HIDE DEF of
  <2>4. /\ Contains(subscribers'[t], x) <=> Contains(subscribers[t], x)
        /\ FromOn(subscribers'[t], x) = FromOn(subscribers[t], x) \ of(t)
    BY <2>1, <2>2, UnlinkedIs
  <2>5. ~ Contains(subscribers[t], s) => s \notin FromOn(subscribers[t], x)
    BY DEF FromOn, Contains
  <2> QED BY <2>1, <2>3, <2>4, <2>5
<1> QED BY <1>1, <1>7, <1>8, <1>9

-----------------------------------------------------------------------------
(* Every step keeps the invariant and is a step of PubSub.                 *)

(* The invariant before and after a step. *)
LEMMA InvIs ==
  /\ TopicsInv <=> /\ TypeOK /\ Mirrored(live, subscribers, subscriptions)
                   /\ Exact(topics, subscribers, ntopics, nsubscriptions)
                   /\ Traverses(live, subscribers, pub, reached)
  /\ TopicsInv' <=> /\ TypeOK' /\ Mirrored(live', subscribers', subscriptions')
                    /\ Exact(topics', subscribers', ntopics', nsubscriptions')
                    /\ Traverses(live', subscribers', pub', reached')
BY DEF TopicsInv, Mirrored, Exact, Pairs, Traverses, FromOn, Contains, IsInjective

(* Whom a publication has yet to reach, with the state as parameters. *)
Awaited(subrs, p) ==
    IF p = NULL THEN {}
    ELSE IF p.topic = NULL THEN p.left ELSE FromOn(subrs[p.topic], p.sub)

(* The refinement mapping before and after a step. *)
LEMMA MappingIs ==
  /\ Pending = Awaited(subscribers, pub) /\ Pending' = Awaited(subscribers', pub')
  /\ Mirrored(live, subscribers, subscriptions) => Member = Pairs(subscribers)
  /\ Mirrored(live', subscribers', subscriptions') => Member' = Pairs(subscribers')
<1>1. Pending = Awaited(subscribers, pub) /\ Pending' = Awaited(subscribers', pub')
  BY DEF Pending, Awaited, FromOn
<1>2. /\ Member = {m \in Sessions \X TopicNames : Contains(subscriptions[m[1]], m[2])}
      /\ Member' = {m \in Sessions \X TopicNames : Contains(subscriptions'[m[1]], m[2])}
  BY DEF Member, Contains
<1>3. ASSUME NEW lv, NEW subrs, NEW subns, Mirrored(lv, subrs, subns)
      PROVE  {m \in Sessions \X TopicNames : Contains(subns[m[1]], m[2])} = Pairs(subrs)
  <2>1. \A m \in Sessions \X TopicNames : Contains(subns[m[1]], m[2]) <=> Contains(subrs[m[2]], m[1])
    BY <1>3 DEF Mirrored
  <2> QED BY <2>1 DEF Pairs
<1> QED BY <1>1, <1>2, <1>3

(* A step that the mapping shows as a step of PubSub, or as none. *)
Refines == Abstract!ANext \/ UNCHANGED <<live, Member, Pending, reached>>

(* A step between publications: what is left to show. *)
LEMMA QuietStep ==
  ASSUME TopicsInv, Idle,
         Typed(live', topics', subscribers', subscriptions', ntopics', nsubscriptions'),
         Mirrored(live', subscribers', subscriptions'),
         Exact(topics', subscribers', ntopics', nsubscriptions')
  PROVE  /\ TopicsInv' /\ Pending = {} /\ UNCHANGED <<Pending, reached>>
         /\ Member = Pairs(subscribers) /\ Member' = Pairs(subscribers')
<1>1. pub = NULL /\ pub' = NULL /\ reached' = reached
  BY DEF Idle
<1>2. TypeOK /\ Mirrored(live, subscribers, subscriptions)
  BY InvIs
<1>3. reached' \subseteq Sessions /\ pub' \in Publications \cup {NULL}
  BY <1>1, <1>2, TypesIs
<1>4. TypeOK' /\ Traverses(live', subscribers', pub', reached')
  BY <1>1, <1>3, TypesIs DEF Traverses
<1>5. Pending = {} /\ Pending' = {}
  BY <1>1, MappingIs DEF Awaited
<1> QED BY <1>1, <1>2, <1>4, <1>5, InvIs, MappingIs

(* The parts of the invariant that the steps use. *)
LEMMA Parts ==
  ASSUME TopicsInv
  PROVE  /\ Typed(live, topics, subscribers, subscriptions, ntopics, nsubscriptions)
         /\ Mirrored(live, subscribers, subscriptions)
         /\ Exact(topics, subscribers, ntopics, nsubscriptions)
         /\ Traverses(live, subscribers, pub, reached)
         /\ live \subseteq Sessions /\ reached \subseteq Sessions /\ pub \in Publications \cup {NULL}
         /\ subscribers \in [TopicNames -> Seq(Sessions)]
         /\ subscriptions \in [Sessions -> Seq(TopicNames)]
         /\ \A t \in TopicNames : t \in topics <=> subscribers[t] # << >>
BY InvIs, TypesIs DEF Typed, Exact

(* A session connects. *)
LEMMA StartRefines ==
  ASSUME TopicsInv, NEW s \in Sessions, hybi_start(s)
  PROVE  TopicsInv' /\ Refines
<1>1. /\ Idle /\ s \notin live /\ live' = live \cup {s}
      /\ subscriptions' = [subscriptions EXCEPT ![s] = << >>] /\ topics' = topics
      /\ subscribers' = subscribers /\ ntopics' = ntopics /\ nsubscriptions' = nsubscriptions
  BY DEF hybi_start
<1>2. subscriptions' = subscriptions
  <2>1. subscriptions[s] = << >>
    BY <1>1, Parts DEF Mirrored
  <2> QED BY <1>1, <2>1, Parts
<1>3. Mirrored(live', subscribers', subscriptions')
  BY <1>1, <1>2, Parts DEF Mirrored
<1>4. /\ Typed(live', topics', subscribers', subscriptions', ntopics', nsubscriptions')
      /\ Exact(topics', subscribers', ntopics', nsubscriptions')
  BY <1>1, <1>2, Parts DEF Typed
<1>5. /\ TopicsInv' /\ Pending = {} /\ UNCHANGED <<Pending, reached>>
      /\ Member = Pairs(subscribers) /\ Member' = Pairs(subscribers')
  BY <1>1, <1>3, <1>4, QuietStep
<1>6. Abstract!Connect(s)
  BY <1>1, <1>5 DEF Abstract!Connect, Abstract!Quiet
<1> QED BY <1>5, <1>6 DEF Refines, Abstract!ANext

(* A session leaves. *)
LEMMA LeaveRefines ==
  ASSUME TopicsInv, NEW s \in Sessions, websock_stop(s)
  PROVE  TopicsInv' /\ Refines
<1>1. Idle /\ hybi_stop(s)
  BY DEF websock_stop
<1>2. /\ live' = live \ {s}
      /\ Typed(live', topics', subscribers', subscriptions', ntopics', nsubscriptions')
      /\ Mirrored(live', subscribers', subscriptions')
      /\ Exact(topics', subscribers', ntopics', nsubscriptions')
      /\ Pairs(subscribers') = {m \in Pairs(subscribers) : m[1] # s}
  BY <1>1, Parts, StopStep
<1>3. /\ TopicsInv' /\ Pending = {} /\ UNCHANGED <<Pending, reached>>
      /\ Member = Pairs(subscribers) /\ Member' = Pairs(subscribers')
  BY <1>1, <1>2, QuietStep
<1>4. Abstract!Leave(s)
  BY <1>2, <1>3 DEF Abstract!Leave, Abstract!Quiet, Abstract!Without
<1> QED BY <1>3, <1>4 DEF Refines, Abstract!ANext

(* A session subscribes, or is subscribed already. *)
LEMMA SubscribeRefines ==
  ASSUME TopicsInv, NEW s \in Sessions, NEW t \in TopicNames, subscribe(s, t)
  PROVE  TopicsInv' /\ Refines
<1> DEFINE new == IF Subscribed(s, t) THEN << >> ELSE <<s>>
<1>1. Idle /\ s \in live /\ topic_subscribe(new, t) /\ live' = live
  BY DEF subscribe
<1>2. Subscribed(s, t) <=> Contains(subscriptions[s], t)
  BY DEF Subscribed
<1>3. /\ new \in Seq(Sessions) /\ IsInjective(new)
      /\ \A e : Contains(new, e) <=> e = s /\ ~ Subscribed(s, t)
      /\ ToSet(new) = IF Subscribed(s, t) THEN {} ELSE {s}
      /\ new = << >> <=> Subscribed(s, t)
  <2>1. CASE Subscribed(s, t)
    BY <2>1 DEF IsInjective, Contains, ToSet
  <2>2. CASE ~ Subscribed(s, t)
    <3> DEFINE one == <<s>>
    <3>1. one \in Seq(Sessions) /\ Len(one) = 1 /\ one[1] = s /\ DOMAIN one = {1} /\ one # << >>
      OBVIOUS
    <3>2. new = one
      BY <2>2
    <3> HIDE DEF one, new
    <3>3. 1 .. Len(one) = {1}
      BY <3>1
    <3>4. IsInjective(one) /\ ToSet(one) = {s} /\ \A e : Contains(one, e) <=> e = s
      BY <3>1, <3>3 DEF IsInjective, Contains, ToSet
    <3> QED BY <2>2, <3>1, <3>2, <3>4
  <2> QED BY <2>1, <2>2
<1> HIDE DEF new
<1>4. new = << >> => t \in topics
  <2> SUFFICES ASSUME new = << >> PROVE t \in topics
    OBVIOUS
  <2>1. Contains(subscribers[t], s)
    BY <1>2, <1>3, Parts DEF Mirrored
  <2>2. subscribers[t] # << >>
    BY <2>1, Parts, EmptyIs
  <2> QED BY <2>2, Parts
<1>5. /\ Typed(live', topics', subscribers', subscriptions', ntopics', nsubscriptions')
      /\ Mirrored(live', subscribers', subscriptions')
      /\ Exact(topics', subscribers', ntopics', nsubscriptions')
      /\ Pairs(subscribers') = Pairs(subscribers) \cup {<<x, t>> : x \in ToSet(new)}
  BY <1>1, <1>2, <1>3, <1>4, Parts, SubscribeStep
<1>6. /\ TopicsInv' /\ Pending = {} /\ UNCHANGED <<Pending, reached>>
      /\ Member = Pairs(subscribers) /\ Member' = Pairs(subscribers')
  BY <1>1, <1>5, QuietStep
<1>7. Pairs(subscribers') = Pairs(subscribers) \cup {<<s, t>>}
  <2>1. CASE Subscribed(s, t)
    <3>1. <<s, t>> \in Pairs(subscribers)
      BY <1>2, <2>1, PairIs, Parts DEF Mirrored
    <3> QED BY <1>3, <1>5, <2>1, <3>1
  <2>2. CASE ~ Subscribed(s, t)
    BY <1>3, <1>5, <2>2
  <2> QED BY <2>1, <2>2
<1>8. Abstract!Subscribe(s, t)
  BY <1>1, <1>6, <1>7 DEF Abstract!Subscribe, Abstract!Quiet
<1> QED BY <1>6, <1>8 DEF Refines, Abstract!ANext

(* A session unsubscribes. *)
LEMMA UnsubscribeRefines ==
  ASSUME TopicsInv, NEW s \in Sessions, NEW t \in TopicNames, unsubscribe(s, t)
  PROVE  TopicsInv' /\ Refines
<1> DEFINE gone == {<<s, t>>}
<1>1. Idle /\ s \in live /\ Contains(subscriptions[s], t) /\ Unlink(gone) /\ live' = live
  BY DEF unsubscribe, Subscribed
<1>2. gone \in SUBSET Pairs(subscribers)
  BY <1>1, PairIs, Parts DEF Mirrored
<1>g. gone = {<<s, t>>}
  OBVIOUS
<1> HIDE DEF gone
<1>3. /\ Typed(live, topics', subscribers', subscriptions', ntopics', nsubscriptions')
      /\ Mirrored(live, subscribers', subscriptions')
      /\ Exact(topics', subscribers', ntopics', nsubscriptions')
      /\ Pairs(subscribers') = Pairs(subscribers) \ gone
  BY <1>1, <1>2, Parts, UnlinkStep
<1>4. /\ TopicsInv' /\ Pending = {} /\ UNCHANGED <<Pending, reached>>
      /\ Member = Pairs(subscribers) /\ Member' = Pairs(subscribers')
  BY <1>1, <1>3, QuietStep
<1>5. Abstract!Unsubscribe(s, t)
  BY <1>1, <1>3, <1>4, <1>g DEF Abstract!Unsubscribe, Abstract!Quiet
<1> QED BY <1>4, <1>5 DEF Refines, Abstract!ANext

(* A topic is dropped with its subscriptions. *)
LEMMA DropRefines ==
  ASSUME TopicsInv, NEW t \in TopicNames, drop(t)
  PROVE  TopicsInv' /\ Refines
<1> DEFINE gone == {<<s, t>> : s \in ToSet(subscribers[t])}
<1>1. Idle /\ Unlink(gone) /\ live' = live
  BY DEF drop
<1>2. subscribers[t] \in Seq(Sessions)
  BY Parts
<1>3. /\ \A s : s \in ToSet(subscribers[t]) <=> Contains(subscribers[t], s)
      /\ ToSet(subscribers[t]) \subseteq Sessions
  BY <1>2, LenProperties, ElementOfSeq DEF ToSet, Contains
<1>4. gone \in SUBSET Pairs(subscribers)
  BY <1>3, PairIs
<1>5. \A m \in Pairs(subscribers) : m \in gone <=> m[2] = t
  <2> SUFFICES ASSUME NEW m \in Pairs(subscribers) PROVE m \in gone <=> m[2] = t
    OBVIOUS
  <2>1. PICK s \in Sessions, u \in TopicNames : m = <<s, u>>
    BY DEF Pairs
  <2>2. Contains(subscribers[u], s)
    BY <2>1, PairIs
  <2> QED BY <1>3, <2>1, <2>2
<1> HIDE DEF gone
<1>6. /\ Typed(live, topics', subscribers', subscriptions', ntopics', nsubscriptions')
      /\ Mirrored(live, subscribers', subscriptions')
      /\ Exact(topics', subscribers', ntopics', nsubscriptions')
      /\ Pairs(subscribers') = Pairs(subscribers) \ gone
  BY <1>1, <1>4, Parts, UnlinkStep
<1>7. /\ TopicsInv' /\ Pending = {} /\ UNCHANGED <<Pending, reached>>
      /\ Member = Pairs(subscribers) /\ Member' = Pairs(subscribers')
  BY <1>1, <1>6, QuietStep
<1>8. Abstract!Drop(t)
  BY <1>1, <1>5, <1>6, <1>7 DEF Abstract!Drop, Abstract!Quiet
<1> QED BY <1>7, <1>8 DEF Refines, Abstract!ANext

(* Everybody who is subscribed to one topic subscribes to another. *)
LEMMA CloneRefines ==
  ASSUME TopicsInv, NEW t \in TopicNames, NEW u \in TopicNames, topic_clone(t, u)
  PROVE  TopicsInv' /\ Refines
<1> DEFINE already == {s \in Sessions : Subscribed(s, u)}
           new == Unlinked(subscribers[t], already)
<1>1. Idle /\ t \in topics /\ topic_subscribe(new, u) /\ live' = live
  BY DEF topic_clone
<1>2. subscribers[t] \in Seq(Sessions) /\ IsInjective(subscribers[t])
  BY Parts DEF Mirrored
<1>3. \A s \in Sessions : s \in already <=> Contains(subscribers[u], s)
  BY Parts DEF Subscribed, Mirrored
<1> HIDE DEF already
<1>4. /\ new \in Seq(Sessions) /\ IsInjective(new)
      /\ \A e : Contains(new, e) <=> Contains(subscribers[t], e) /\ e \notin already
  BY <1>2, UnlinkedIs
<1> HIDE DEF new
<1>5. \A s \in Sessions : Contains(new, s) => s \in live /\ ~ Contains(subscriptions[s], u)
  <2> SUFFICES ASSUME NEW s \in Sessions, Contains(new, s)
               PROVE  s \in live /\ ~ Contains(subscriptions[s], u)
    OBVIOUS
  <2>1. Contains(subscriptions[s], t) /\ ~ Contains(subscriptions[s], u)
    BY <1>3, <1>4, Parts DEF Mirrored
  <2>2. subscriptions[s] # << >>
    BY <2>1, Parts, EmptyIs
  <2> QED BY <2>1, <2>2, Parts DEF Mirrored
<1>6. new = << >> => u \in topics
  <2> SUFFICES ASSUME new = << >> PROVE u \in topics
    OBVIOUS
  <2>1. PICK e : Contains(subscribers[t], e)
    BY <1>1, <1>2, Parts, EmptyIs
  <2>2. e \in Sessions
    BY <1>2, <2>1, ElementOfSeq DEF Contains
  <2>3. ~ Contains(new, e)
    BY <1>4, EmptyIs
  <2>4. Contains(subscribers[u], e)
    BY <1>3, <1>4, <2>1, <2>2, <2>3
  <2>5. subscribers[u] # << >>
    BY <2>4, Parts, EmptyIs
  <2> QED BY <2>5, Parts
<1>7. /\ Typed(live', topics', subscribers', subscriptions', ntopics', nsubscriptions')
      /\ Mirrored(live', subscribers', subscriptions')
      /\ Exact(topics', subscribers', ntopics', nsubscriptions')
      /\ Pairs(subscribers') = Pairs(subscribers) \cup {<<s, u>> : s \in ToSet(new)}
  BY <1>1, <1>4, <1>5, <1>6, Parts, SubscribeStep
<1>8. /\ TopicsInv' /\ Pending = {} /\ UNCHANGED <<Pending, reached>>
      /\ Member = Pairs(subscribers) /\ Member' = Pairs(subscribers')
  BY <1>1, <1>7, QuietStep
<1>9. Pairs(subscribers') =
        Pairs(subscribers) \cup {<<m[1], u>> : m \in {n \in Pairs(subscribers) : n[2] = t}}
  <2>1. \A s : s \in ToSet(new) <=> Contains(new, s)
    BY <1>4, LenProperties DEF ToSet, Contains
  <2>2. ASSUME NEW m \in Pairs(subscribers'), m \notin Pairs(subscribers)
        PROVE  m \in {<<n[1], u>> : n \in {q \in Pairs(subscribers) : q[2] = t}}
    <3>1. PICK s : Contains(new, s) /\ m = <<s, u>>
      BY <1>7, <2>1, <2>2
    <3>s. Contains(subscribers[t], s)
      BY <1>4, <3>1
    <3>2. Contains(subscribers[t], s) /\ s \in Sessions
      BY <1>2, <3>s, ElementOfSeq DEF Contains
    <3>3. <<s, t>> \in Pairs(subscribers)
      BY <3>2, PairIs
    <3>4. <<s, t>>[1] = s /\ <<s, t>>[2] = t
      OBVIOUS
    <3> QED BY <3>1, <3>3, <3>4
  <2>3. ASSUME NEW n \in Pairs(subscribers), n[2] = t PROVE <<n[1], u>> \in Pairs(subscribers')
    <3>1. n[1] \in Sessions /\ Contains(subscribers[t], n[1])
      BY <2>3 DEF Pairs
    <3>2. CASE n[1] \in already
      <4>1. <<n[1], u>> \in Pairs(subscribers)
        BY <1>3, <3>1, <3>2, PairIs
      <4> QED BY <1>7, <4>1
    <3>3. CASE n[1] \notin already
      BY <1>4, <1>7, <2>1, <3>1, <3>3
    <3> QED BY <3>2, <3>3
  <2>4. Pairs(subscribers) \subseteq Pairs(subscribers')
    BY <1>7
  <2> QED BY <2>2, <2>3, <2>4
<1>10. Abstract!Clone(t, u)
  BY <1>1, <1>8, <1>9 DEF Abstract!Clone, Abstract!Quiet
<1> QED BY <1>8, <1>10 DEF Refines, Abstract!ANext

-----------------------------------------------------------------------------
(* A publication begins: what is left to show. *)
LEMMA BeginRefines ==
  ASSUME TopicsInv, pub = NULL, UNCHANGED <<live, lists>>, reached' = {},
         pub' \in Publications, Traverses(live, subscribers, pub', {}),
         NEW audience, audience = Awaited(subscribers, pub'), audience # {},
         audience \subseteq Sessions,
         \/ audience = live
         \/ \E t \in TopicNames : audience = {s \in Sessions : <<s, t>> \in Pairs(subscribers)}
         \/ \E s \in live : audience = {s}
  PROVE  TopicsInv' /\ Refines
<1>1. /\ live' = live /\ topics' = topics /\ subscribers' = subscribers /\ ntopics' = ntopics
      /\ subscriptions' = subscriptions /\ nsubscriptions' = nsubscriptions
  BY DEF lists
<1>2. TopicsInv'
  <2>1. Typed(live', topics', subscribers', subscriptions', ntopics', nsubscriptions')
    BY <1>1, Parts
  <2>2. TypeOK'
    BY <2>1, TypesIs
  <2> QED BY <1>1, <2>2, Parts, InvIs
<1>3. Member = Pairs(subscribers) /\ Member' = Pairs(subscribers)
  BY <1>1, Parts, MappingIs
<1>4. Pending = {} /\ Pending' = audience
  BY <1>1, MappingIs DEF Awaited
<1>5. Abstract!Start(audience)
  BY <1>1, <1>3, <1>4 DEF Abstract!Start
<1> QED BY <1>2, <1>5 DEF Refines, Abstract!ANext

(* topic_publish begins with the first subscriber. *)
LEMMA PublishRefines ==
  ASSUME TopicsInv, NEW t \in TopicNames, topic_publish(t)
  PROVE  TopicsInv' /\ Refines
<1> DEFINE list == subscribers[t]
           audience == FromOn(list, list[1])
<1>1. /\ pub = NULL /\ t \in topics /\ pub' = [topic |-> t, sub |-> Head(list)]
      /\ reached' = {} /\ UNCHANGED <<live, lists>>
  BY DEF topic_publish
<1>2. list \in Seq(Sessions) /\ list # << >> /\ IsInjective(list)
  BY <1>1, Parts DEF Mirrored
<1>3. Len(list) \in Nat /\ 1 \in 1 .. Len(list) /\ Head(list) = list[1]
  BY <1>2, EmptySeq
<1>4. list[1] \in Sessions /\ Contains(list, list[1])
  BY <1>2, <1>3, ElementOfSeq DEF Contains
<1>5. /\ \A e : e \in audience <=> \E j \in 1 .. Len(list) : list[j] = e
      /\ list[1] \in audience
  BY <1>2, <1>3, FromOnIs
<1>6. \A e : e \in audience <=> Contains(list, e)
  BY <1>5 DEF Contains
<1>7. audience \subseteq Sessions /\ audience = {s \in Sessions : <<s, t>> \in Pairs(subscribers)}
  <2>1. audience \subseteq Sessions
    BY <1>2, <1>5, ElementOfSeq
  <2> QED BY <1>6, <2>1, PairIs
<1>8. /\ pub'.topic = t /\ pub'.sub = list[1] /\ pub' \in Publications /\ t # NULL
  BY <1>1, <1>3, <1>4, NullAssumption DEF Publications
<1>9. pub' # NULL
  BY <1>8, NullAssumption
<1>10. Traverses(live, subscribers, pub', {})
  BY <1>4, <1>8 DEF Traverses
<1>11. Awaited(subscribers, pub') = audience
  BY <1>8, <1>9 DEF Awaited
<1> HIDE DEF audience, list
<1> QED BY <1>1, <1>5, <1>7, <1>8, <1>10, <1>11, BeginRefines

(* send_all begins with all sessions, send with one. *)
LEMMA SendRefines ==
  ASSUME TopicsInv, NEW left, left # {}, left \subseteq live,
         left = live \/ \E s \in live : left = {s},
         pub = NULL, pub' = [topic |-> NULL, left |-> left], reached' = {}, UNCHANGED <<live, lists>>
  PROVE  TopicsInv' /\ Refines
<1>1. left \subseteq Sessions
  BY Parts
<1>2. pub' \in Publications /\ pub'.topic = NULL /\ pub'.left = left
  BY <1>1 DEF Publications
<1>3. pub' # NULL
  BY <1>2, NullAssumption
<1>4. Traverses(live, subscribers, pub', {}) /\ Awaited(subscribers, pub') = left
  BY <1>2, <1>3 DEF Traverses, Awaited
<1> QED BY <1>1, <1>2, <1>4, BeginRefines

(* A turn of a loop: what is left to show. *)
LEMMA ReachRefines ==
  ASSUME TopicsInv, NEW s \in Sessions, do_send(s), s \in Pending, s \notin reached,
         Typed(live', topics', subscribers', subscriptions', ntopics', nsubscriptions'),
         Mirrored(live', subscribers', subscriptions'),
         Exact(topics', subscribers', ntopics', nsubscriptions'),
         \/ live' = live /\ Pairs(subscribers') = Pairs(subscribers)
         \/ live' = live \ {s} /\ Pairs(subscribers') = {m \in Pairs(subscribers) : m[1] # s},
         pub' \in Publications \cup {NULL}, Traverses(live', subscribers', pub', reached'),
         Awaited(subscribers', pub') = Pending \ {s}
  PROVE  TopicsInv' /\ Refines
<1>1. reached' = reached \cup {s} /\ reached' \subseteq Sessions
  BY Parts DEF do_send
<1>2. TopicsInv'
  BY <1>1, TypesIs, InvIs
<1>3. Member = Pairs(subscribers) /\ Member' = Pairs(subscribers')
  BY Parts, MappingIs
<1>4. Pending' = Pending \ {s}
  BY MappingIs
<1>5. Abstract!Reach(s)
  BY <1>1, <1>3, <1>4 DEF Abstract!Reach, Abstract!Without
<1> QED BY <1>2, <1>5 DEF Refines, Abstract!ANext

(* What do_send does to sessions and lists. *)
LEMMA SentStep ==
  ASSUME TopicsInv, NEW s \in Sessions, do_send(s)
  PROVE  /\ reached' = reached \cup {s} /\ live \ {s} \subseteq live'
         /\ Typed(live', topics', subscribers', subscriptions', ntopics', nsubscriptions')
         /\ Mirrored(live', subscribers', subscriptions')
         /\ Exact(topics', subscribers', ntopics', nsubscriptions')
         /\ \/ live' = live /\ Pairs(subscribers') = Pairs(subscribers)
            \/ live' = live \ {s} /\ Pairs(subscribers') = {m \in Pairs(subscribers) : m[1] # s}
         /\ \A t \in TopicNames, x \in Sessions : x # s =>
              /\ Contains(subscribers'[t], x) <=> Contains(subscribers[t], x)
              /\ FromOn(subscribers'[t], x) \ {s} = FromOn(subscribers[t], x) \ {s}
<1>1. reached' = reached \cup {s}
  BY DEF do_send
<1>2. CASE hybi_stop(s)
  BY <1>1, <1>2, Parts, StopStep
<1>3. CASE UNCHANGED <<live, lists>>
  <2>1. /\ live' = live /\ topics' = topics /\ subscribers' = subscribers /\ ntopics' = ntopics
        /\ subscriptions' = subscriptions /\ nsubscriptions' = nsubscriptions
    BY <1>3 DEF lists
  <2> QED BY <1>1, <2>1, Parts
<1> QED BY <1>2, <1>3 DEF do_send

(* A turn of topic_publish: nxt was read before the subscriber might go. *)
LEMMA PublishOneRefines ==
  ASSUME TopicsInv, publish_one
  PROVE  TopicsInv' /\ Refines
<1> DEFINE t == pub.topic
           s == pub.sub
           nxt == ListNext(t, s)
<1>1. /\ pub # NULL /\ t # NULL /\ do_send(s)
      /\ pub' = IF nxt = NULL THEN NULL ELSE [pub EXCEPT !.sub = nxt]
  BY DEF publish_one
<1>2. pub \in [topic : TopicNames, sub : Sessions]
  BY <1>1, Parts DEF Publications
<1>3. t \in TopicNames /\ s \in Sessions
  BY <1>2
<1>4. Contains(subscribers[t], s) /\ FromOn(subscribers[t], s) \cap reached = {}
  BY <1>1, Parts DEF Traverses
<1>5. Pending = FromOn(subscribers[t], s)
  BY <1>1, MappingIs DEF Awaited
<1>6. /\ s \in FromOn(subscribers[t], s)
      /\ nxt = NULL => FromOn(subscribers[t], s) = {s}
      /\ nxt # NULL =>
           /\ nxt \in Sessions /\ Contains(subscribers[t], nxt) /\ nxt # s
           /\ FromOn(subscribers[t], nxt) = FromOn(subscribers[t], s) \ {s}
  BY <1>3, <1>4, Parts, ListNextIs
<1>7. /\ reached' = reached \cup {s}
      /\ Typed(live', topics', subscribers', subscriptions', ntopics', nsubscriptions')
      /\ Mirrored(live', subscribers', subscriptions')
      /\ Exact(topics', subscribers', ntopics', nsubscriptions')
      /\ \/ live' = live /\ Pairs(subscribers') = Pairs(subscribers)
         \/ live' = live \ {s} /\ Pairs(subscribers') = {m \in Pairs(subscribers) : m[1] # s}
      /\ \A u \in TopicNames, x \in Sessions : x # s =>
           /\ Contains(subscribers'[u], x) <=> Contains(subscribers[u], x)
           /\ FromOn(subscribers'[u], x) \ {s} = FromOn(subscribers[u], x) \ {s}
  BY <1>1, <1>3, SentStep
<1>8. CASE nxt = NULL
  <2>1. pub' = NULL /\ Pending = {s}
    BY <1>1, <1>5, <1>6, <1>8
  <2>2. Traverses(live', subscribers', pub', reached') /\ Awaited(subscribers', pub') = Pending \ {s}
    BY <2>1 DEF Traverses, Awaited
  <2>3. s \in Pending /\ s \notin reached
    BY <1>4, <1>5, <1>6
  <2> HIDE DEF s, t, nxt
  <2> QED BY <1>1, <1>3, <1>7, <2>1, <2>2, <2>3, ReachRefines
<1>9. CASE nxt # NULL
  <2> DEFINE on == FromOn(subscribers'[t], nxt)
  <2>1. pub' \in [topic : TopicNames, sub : Sessions] /\ pub'.topic = t /\ pub'.sub = nxt
    BY <1>1, <1>2, <1>6, <1>9
  <2>2. pub' \in Publications /\ pub' # NULL
    BY <2>1, NullAssumption DEF Publications
  <2>3. Contains(subscribers'[t], nxt) /\ on \ {s} = Pending \ {s}
    BY <1>3, <1>5, <1>6, <1>7, <1>9
  <2>4. s \notin on
    <3>1. nxt \in Sessions /\ nxt # s /\ s \notin FromOn(subscribers[t], nxt)
      BY <1>6, <1>9
    <3>2. CASE hybi_stop(s)
      <4>1. on = FromOn(subscribers[t], nxt) \ {s}
        BY <1>3, <3>1, <3>2, Parts, StopStep
      <4> QED BY <4>1
    <3>3. CASE UNCHANGED <<live, lists>>
      <4>1. subscribers' = subscribers
        BY <3>3 DEF lists
      <4> QED BY <3>1, <4>1
    <3> QED BY <1>1, <3>2, <3>3 DEF do_send
  <2>5. on = Pending \ {s}
    BY <2>3, <2>4
  <2>6. on \cap reached' = {}
    BY <1>4, <1>5, <1>7, <2>5
  <2>7. s \in Pending /\ s \notin reached
    BY <1>4, <1>5, <1>6
  <2> HIDE DEF s, t, nxt
  <2>8. Traverses(live', subscribers', pub', reached')
    BY <1>1, <2>1, <2>3, <2>6 DEF Traverses
  <2>9. Awaited(subscribers', pub') = Pending \ {s}
    BY <1>1, <2>1, <2>2, <2>5 DEF Awaited
  <2> QED BY <1>1, <1>3, <1>7, <2>2, <2>7, <2>8, <2>9, ReachRefines
<1> QED BY <1>8, <1>9

(* A turn of send_all. *)
LEMMA SendAllOneRefines ==
  ASSUME TopicsInv, send_all_one
  PROVE  TopicsInv' /\ Refines
<1>1. PICK s \in pub.left :
        /\ pub # NULL /\ pub.topic = NULL /\ do_send(s)
        /\ pub' = IF pub.left = {s} THEN NULL ELSE [pub EXCEPT !.left = @ \ {s}]
  BY DEF send_all_one
<1>2. pub \in [topic : {NULL}, left : SUBSET Sessions]
  BY <1>1, Parts, NullAssumption DEF Publications
<1>3. s \in Sessions /\ pub.left \subseteq Sessions
  BY <1>2
<1>4. pub.left \subseteq live /\ pub.left \cap reached = {}
  BY <1>1, Parts DEF Traverses
<1>5. Pending = pub.left
  BY <1>1, MappingIs DEF Awaited
<1>6. /\ reached' = reached \cup {s} /\ live \ {s} \subseteq live'
      /\ Typed(live', topics', subscribers', subscriptions', ntopics', nsubscriptions')
      /\ Mirrored(live', subscribers', subscriptions')
      /\ Exact(topics', subscribers', ntopics', nsubscriptions')
      /\ \/ live' = live /\ Pairs(subscribers') = Pairs(subscribers)
         \/ live' = live \ {s} /\ Pairs(subscribers') = {m \in Pairs(subscribers) : m[1] # s}
  BY <1>1, <1>3, SentStep
<1>7. s \in Pending /\ s \notin reached
  BY <1>4, <1>5
<1>8. CASE pub.left = {s}
  <2>1. pub' = NULL /\ Pending = {s}
    BY <1>1, <1>5, <1>8
  <2>2. Traverses(live', subscribers', pub', reached') /\ Awaited(subscribers', pub') = Pending \ {s}
    BY <2>1 DEF Traverses, Awaited
  <2> QED BY <1>1, <1>3, <1>6, <1>7, <2>1, <2>2, ReachRefines
<1>9. CASE pub.left # {s}
  <2>1. /\ pub' \in [topic : {NULL}, left : SUBSET Sessions]
        /\ pub'.topic = NULL /\ pub'.left = pub.left \ {s}
    BY <1>1, <1>2, <1>9
  <2>2. pub' \in Publications /\ pub' # NULL
    BY <2>1, NullAssumption DEF Publications
  <2>3. pub'.left # {} /\ pub'.left \subseteq live' /\ pub'.left \cap reached' = {}
    BY <1>4, <1>6, <1>9, <2>1
  <2>4. Traverses(live', subscribers', pub', reached') /\ Awaited(subscribers', pub') = Pending \ {s}
    BY <1>5, <2>1, <2>2, <2>3 DEF Traverses, Awaited
  <2> QED BY <1>1, <1>3, <1>6, <1>7, <2>2, <2>4, ReachRefines
<1> QED BY <1>8, <1>9

-----------------------------------------------------------------------------
(* Every step. *)
LEMMA StepRefines ==
  ASSUME TopicsInv, Next
  PROVE  TopicsInv' /\ Refines
<1>1. ASSUME NEW s \in Sessions, send(s) PROVE TopicsInv' /\ Refines
  <2>1. /\ pub = NULL /\ s \in live /\ pub' = [topic |-> NULL, left |-> {s}] /\ reached' = {}
        /\ UNCHANGED <<live, lists>>
    BY <1>1 DEF send
  <2> DEFINE left == {s}
  <2>2. left # {} /\ left \subseteq live /\ left = {s} /\ pub' = [topic |-> NULL, left |-> left]
    BY <2>1
  <2> HIDE DEF left
  <2> QED BY <2>1, <2>2, SendRefines
<1>2. ASSUME send_all PROVE TopicsInv' /\ Refines
  BY <1>2, SendRefines DEF send_all
<1>3. ASSUME NEW s \in Sessions, hybi_start(s) \/ websock_stop(s) PROVE TopicsInv' /\ Refines
  BY <1>3, StartRefines, LeaveRefines
<1>4. ASSUME NEW s \in Sessions, NEW t \in TopicNames, subscribe(s, t) \/ unsubscribe(s, t)
      PROVE  TopicsInv' /\ Refines
  BY <1>4, SubscribeRefines, UnsubscribeRefines
<1>5. ASSUME NEW t \in TopicNames, NEW u \in TopicNames, topic_clone(t, u) PROVE TopicsInv' /\ Refines
  BY <1>5, CloneRefines
<1>6. ASSUME NEW t \in TopicNames, drop(t) \/ topic_publish(t) PROVE TopicsInv' /\ Refines
  BY <1>6, DropRefines, PublishRefines
<1> QED BY <1>1, <1>2, <1>3, <1>4, <1>5, <1>6, PublishOneRefines, SendAllOneRefines DEF Next

(* Nothing changes. *)
LEMMA StutterRefines ==
  ASSUME TopicsInv, UNCHANGED vars
  PROVE  TopicsInv' /\ UNCHANGED <<live, Member, Pending, reached>>
<1>1. /\ live' = live /\ topics' = topics /\ subscribers' = subscribers /\ ntopics' = ntopics
      /\ subscriptions' = subscriptions /\ nsubscriptions' = nsubscriptions
      /\ pub' = pub /\ reached' = reached
  BY DEF vars, lists
<1>2. TypeOK'
  BY <1>1, Parts, TypesIs
<1> QED BY <1>1, <1>2, Parts, InvIs, MappingIs

(* At the start there is nothing. *)
LEMMA InitRefines ==
  ASSUME Init
  PROVE  TopicsInv /\ Abstract!AInit
<1>1. /\ live = {} /\ topics = {} /\ subscribers = [t \in TopicNames |-> << >>]
      /\ subscriptions = [s \in Sessions |-> << >>] /\ ntopics = 0 /\ nsubscriptions = 0
      /\ pub = NULL /\ reached = {}
  BY DEF Init
<1>2. /\ subscribers \in [TopicNames -> Seq(Sessions)] /\ subscriptions \in [Sessions -> Seq(TopicNames)]
  BY <1>1, EmptySeq
<1>3. TypeOK
  <2>1. Typed(live, topics, subscribers, subscriptions, ntopics, nsubscriptions)
    BY <1>1, <1>2 DEF Typed
  <2> QED BY <1>1, <2>1, TypesIs
<1>4. IsInjective(<< >>) /\ \A e : ~ Contains(<< >>, e)
  BY DEF IsInjective, Contains
<1>5. Mirrored(live, subscribers, subscriptions)
  BY <1>1, <1>4 DEF Mirrored
<1>6. Pairs(subscribers) = {}
  BY <1>1, <1>4 DEF Pairs
<1>7. Exact(topics, subscribers, ntopics, nsubscriptions)
  BY <1>1, <1>6, FS_EmptySet DEF Exact
<1>8. TopicsInv
  BY <1>1, <1>3, <1>5, <1>7, InvIs DEF Traverses
<1>9. Member = {} /\ Pending = {}
  BY <1>1, <1>5, <1>6, MappingIs DEF Awaited
<1> QED BY <1>1, <1>8, <1>9 DEF Abstract!AInit

(* The inductive invariant holds in every behaviour. *)
THEOREM Invariance == Spec => []TopicsInv
<1>1. Init => TopicsInv
  BY InitRefines
<1>2. TopicsInv /\ [Next]_vars => TopicsInv'
  BY StepRefines, StutterRefines
<1> QED BY <1>1, <1>2, PTL DEF Spec

(* The subscribers of topics and the subscriptions of sessions are the     *)
(* same entries, nobody subscribes twice, and a session that is gone has   *)
(* none: hybi_stop and free_topic unlink from both lists.                  *)
THEOREM ListsMirrorHolds == Spec => []ListsMirror
<1>1. TopicsInv => ListsMirror
  BY ListsIs DEF TopicsInv
<1> QED BY <1>1, Invariance, PTL

(* A topic is in the table exactly while it has subscribers, and the two   *)
(* counters of topic_hash_t are right.                                     *)
THEOREM TopicsExactHolds == Spec => []TopicsExact
<1>1. TopicsInv => TopicsExact
  BY ListsIs DEF TopicsInv
<1> QED BY <1>1, Invariance, PTL

(* The entry that topic_publish or send_all looks at next has not been     *)
(* freed by the connections that sending closed.                           *)
THEOREM SafeTraversalHolds == Spec => []SafeTraversal
<1>1. TopicsInv => SafeTraversal
  BY ListsIs
<1> QED BY <1>1, Invariance, PTL

(* The lists implement the relation of sessions and topics: every command  *)
(* changes it as PubSub says, and a publication reaches everybody who was  *)
(* subscribed when it began, once, whoever loses its connection meanwhile. *)
THEOREM Refinement == Spec => PubSubSpec
<1>1. Init => Abstract!AInit
  BY InitRefines
<1>2. TopicsInv /\ [Next]_vars => [Abstract!ANext]_(Abstract!avars)
  <2> SUFFICES ASSUME TopicsInv, [Next]_vars PROVE [Abstract!ANext]_(Abstract!avars)
    OBVIOUS
  <2>1. Refines
    BY StepRefines, StutterRefines DEF Refines
  <2> QED BY <2>1 DEF Refines, Abstract!avars
<1> QED BY <1>1, <1>2, Invariance, PTL DEF Spec, PubSubSpec, Abstract!ASpec
=============================================================================
