---------------------------- MODULE OutputsProofs ---------------------------
(***************************************************************************)
(* For every number of sessions, prefixes and sockets: the lists of        *)
(* sessions and of sockets say the same, entries of one socket and of one  *)
(* session stay together in them, and the lists implement OutputTable.     *)
(***************************************************************************)
EXTENDS Outputs, FiniteSetTheorems, SequenceTheorems, WellFoundedInduction, TLAPS

(* The keys that the walks compare.                                        *)
SocketsOf(list) == [i \in DOMAIN list |-> list[i].socket]

UsersOf(list) == [i \in DOMAIN list |-> list[i].connection]

UniquePrefixes(list) ==
    \A i, j \in DOMAIN list : list[i].prefix = list[j].prefix => i = j

Entry == [prefix : MsgPrefixes, socket : Sockets]

Attachments == [connection : Sessions, prefix : MsgPrefixes]

(* The inductive invariant, with the state as parameters.  The lists       *)
(* mirror each other, ...                                                  *)
Mirrored(lv, outs, att) ==
    /\ \A s \in Sessions, p \in MsgPrefixes, k \in Sockets :
          Contains(outs[s], Output(p, k)) <=> Contains(att[k], Attachment(s, p))
    /\ \A s \in Sessions : UniquePrefixes(outs[s])
    /\ \A k \in Sockets : IsInjective(att[k])
    /\ \A s \in Sessions \ lv : outs[s] = <<>>

(* ... equal keys are together, ...                                        *)
Together(outs, att) ==
    /\ \A s \in Sessions : Grouped(SocketsOf(outs[s]))
    /\ \A k \in Sockets : Grouped(UsersOf(att[k]))

(* ... and the lists have entries of their types.                          *)
Sound(lv, outs, att) ==
    /\ lv \subseteq Sessions
    /\ outs \in [Sessions -> Seq(Entry)]
    /\ att \in [Sockets -> Seq(Attachments)]
    /\ Mirrored(lv, outs, att)
    /\ Together(outs, att)

OutputsInv ==
    /\ Sound(live, outputs, attached)
    /\ cookie \in [Sessions -> Cookies \cup {NoCookie}]
    /\ sent.kind \in {"nothing", "disconnect", "sync", "message"}

-----------------------------------------------------------------------------
(* Lists.                                                                  *)

(* Every position of the set is the Nth for one n, in the order of n. *)
LEMMA NthIs ==
  ASSUME NEW top \in Nat, NEW at \in SUBSET (1 .. top)
  PROVE  /\ IsFiniteSet(at) /\ Cardinality(at) \in Nat
         /\ \A n \in 1 .. Cardinality(at) : Nth(at, n) \in at
         /\ \A m, n \in 1 .. Cardinality(at) : m < n => Nth(at, m) < Nth(at, n)
         /\ \A i \in at : \E n \in 1 .. Cardinality(at) : Nth(at, n) = i
<1> DEFINE c == Cardinality(at)
           upto(i) == {j \in at : j <= i}
           rank == [i \in at |-> Cardinality(upto(i))]
<1>1. IsFiniteSet(at) /\ c \in Nat
  <2>1. IsFiniteSet(1 .. top)
    BY FS_Interval
  <2>2. IsFiniteSet(at)
    BY <2>1, FS_Subset
  <2> QED BY <2>2, FS_CardinalityType
<1>2. ASSUME NEW i \in at
      PROVE  IsFiniteSet(upto(i)) /\ rank[i] = Cardinality(upto(i)) /\ rank[i] \in 1 .. c
  <2>1. upto(i) \in SUBSET at /\ i \in upto(i)
    OBVIOUS
  <2>2. IsFiniteSet(upto(i)) /\ Cardinality(upto(i)) <= c
    BY <1>1, <2>1, FS_Subset
  <2>3. Cardinality(upto(i)) \in Nat /\ Cardinality(upto(i)) # 0
    BY <2>1, <2>2, FS_CardinalityType, FS_EmptySet
  <2> QED BY <1>1, <2>2, <2>3
<1>3. ASSUME NEW i \in at, NEW j \in at, i < j PROVE rank[i] < rank[j]
  <2>1. upto(i) \in SUBSET upto(j) /\ upto(i) # upto(j)
    <3>1. i \in Int /\ j \in Int /\ \A k \in at : k \in Int
      OBVIOUS
    <3>2. j \in upto(j) /\ j \notin upto(i)
      BY <1>3, <3>1
    <3>3. \A k \in at : k <= i => k <= j
      BY <1>3, <3>1
    <3> QED BY <3>2, <3>3
  <2>2. IsFiniteSet(upto(j)) /\ rank[i] = Cardinality(upto(i)) /\ rank[j] = Cardinality(upto(j))
        /\ rank[i] \in 1 .. c /\ rank[j] \in 1 .. c
    BY <1>2
  <2>3. Cardinality(upto(i)) <= Cardinality(upto(j)) /\ Cardinality(upto(i)) # Cardinality(upto(j))
    BY <2>1, <2>2, FS_Subset
  <2> QED BY <1>1, <2>2, <2>3
<1>4. \A n \in 1 .. c : \E i \in at : rank[i] = n
  <2>1. rank \in [at -> 1 .. c]
    BY <1>2
  <2>2. \A i, j \in at : rank[i] = rank[j] => i = j
    BY <1>2, <1>3
  <2>3. rank \in Injection(at, 1 .. c)
    <3> HIDE DEF rank
    <3> QED BY <2>1, <2>2 DEF Injection, IsInjective
  <2>4. IsFiniteSet(1 .. c) /\ Cardinality(1 .. c) = c
    BY <1>1, FS_Interval
  <2>5. rank \in Surjection(at, 1 .. c)
    <3> HIDE DEF rank
    <3> QED BY <2>3, <2>4, FS_Injection
  <2> HIDE DEF rank
  <2> QED BY <2>5 DEF Surjection
<1>5. ASSUME NEW n \in 1 .. c PROVE Nth(at, n) \in at /\ rank[Nth(at, n)] = n
  <2>1. \A i \in at : rank[i] = Cardinality(upto(i))
    OBVIOUS
  <2>2. PICK k \in at : rank[k] = n
    BY <1>4
  <2>3. Nth(at, n) = CHOOSE i \in at : Cardinality(upto(i)) = n
    BY DEF Nth
  <2> HIDE DEF rank, upto
  <2>4. Cardinality(upto(k)) = n
    BY <2>1, <2>2
  <2>5. Nth(at, n) \in at /\ Cardinality(upto(Nth(at, n))) = n
    BY <2>3, <2>4
  <2> QED BY <2>1, <2>5
<1>r. \A i \in at : rank[i] \in 1 .. c
  BY <1>2
<1> HIDE DEF rank, upto
<1>n. \A i \in at : i \in Nat /\ rank[i] \in Nat
  <2>1. \A i \in at : i \in Nat
    OBVIOUS
  <2> QED BY <1>1, <1>r, <2>1
<1>6. \A i, j \in at : rank[i] < rank[j] => i < j
  BY <1>n, <1>3
<1>7. \A i \in at : Nth(at, rank[i]) = i
  <2> SUFFICES ASSUME NEW i \in at PROVE Nth(at, rank[i]) = i
    OBVIOUS
  <2> DEFINE j == Nth(at, rank[i])
  <2>1. rank[i] \in 1 .. c
    BY <1>2
  <2>2. j \in at /\ rank[j] = rank[i]
    BY <1>5, <2>1
  <2> HIDE DEF j
  <2>3. i = j
    BY <1>n, <1>3, <2>2
  <2> QED BY <2>3 DEF j
<1>8. ASSUME NEW m \in 1 .. c, NEW n \in 1 .. c, m < n PROVE Nth(at, m) < Nth(at, n)
  <2>1. Nth(at, m) \in at /\ rank[Nth(at, m)] = m /\ Nth(at, n) \in at /\ rank[Nth(at, n)] = n
    BY <1>5
  <2> QED BY <1>6, <1>8, <2>1
<1>9. \A i \in at : \E n \in 1 .. c : Nth(at, n) = i
  BY <1>7, <1>r
<1> QED BY <1>1, <1>5, <1>8, <1>9

(* w has the entries of the list at the positions at, in their order. *)
Thins(w, list, at) ==
    \E f \in [1 .. Len(w) -> at] :
        /\ \A m, n \in 1 .. Len(w) : m < n => f[m] < f[n]
        /\ \A i \in at : \E n \in 1 .. Len(w) : f[n] = i
        /\ \A n \in 1 .. Len(w) : w[n] = list[f[n]]

(* What Kept makes of a list. *)
LEMMA KeptIs ==
  ASSUME NEW S, NEW list \in Seq(S), NEW at \in SUBSET (1 .. Len(list))
  PROVE  /\ Kept(list, at) \in Seq(S) /\ Len(Kept(list, at)) = Cardinality(at)
         /\ Thins(Kept(list, at), list, at)
<1> DEFINE w == Kept(list, at)
           c == Cardinality(at)
           f == [n \in 1 .. c |-> Nth(at, n)]
<1>1. /\ c \in Nat
      /\ \A n \in 1 .. c : Nth(at, n) \in at
      /\ \A m, n \in 1 .. c : m < n => Nth(at, m) < Nth(at, n)
      /\ \A i \in at : \E n \in 1 .. c : Nth(at, n) = i
  BY NthIs
<1>2. w = [n \in 1 .. c |-> list[Nth(at, n)]]
  BY DEF Kept
<1>3. \A n \in 1 .. c : list[Nth(at, n)] \in S
  BY <1>1, ElementOfSeq
<1>4. w \in Seq(S) /\ Len(w) = c /\ \A n \in 1 .. c : w[n] = list[Nth(at, n)]
  BY <1>1, <1>2, <1>3
<1> HIDE DEF w
<1>5. /\ f \in [1 .. Len(w) -> at]
      /\ \A m, n \in 1 .. Len(w) : m < n => f[m] < f[n]
      /\ \A i \in at : \E n \in 1 .. Len(w) : f[n] = i
      /\ \A n \in 1 .. Len(w) : w[n] = list[f[n]]
  BY <1>1, <1>4
<1> HIDE DEF f, c
<1>6. Thins(w, list, at)
  BY <1>5 DEF Thins
<1> QED BY <1>4, <1>6 DEF w, c

(* A non-empty set of naturals has a first element, ... *)
LEMMA MinIs ==
  ASSUME NEW T \in SUBSET Nat, T # {}
  PROVE  Min(T) \in T /\ \A y \in T : Min(T) <= y
<1> DEFINE R == OpToRel(<, Nat)
<1>1. IsWellFoundedOn(R, Nat)
  BY NatLessThanWellFounded
<1>2. \A y, x \in T : y < x => <<y, x>> \in R
  BY DEF OpToRel
<1> HIDE DEF R
<1>3. PICK x \in T : \A y \in T : ~ (<<y, x>> \in R)
  BY <1>1, WFMin
<1>4. \A y \in T : ~ (y < x)
  BY <1>2, <1>3
<1>5. x \in Int /\ \A y \in T : y \in Int
  OBVIOUS
<1>6. \A y \in T : x <= y
  BY <1>4, <1>5
<1> QED BY <1>6 DEF Min

(* ... and a last one, if it is bounded. *)
LEMMA MaxIs ==
  ASSUME NEW top \in Nat, NEW T \in SUBSET (0 .. top), T # {}
  PROVE  Max(T) \in T /\ \A y \in T : y <= Max(T)
<1> DEFINE U == {top - y : y \in T}
<1>1. U \in SUBSET Nat /\ U # {}
  OBVIOUS
<1>2. Min(U) \in U /\ \A z \in U : Min(U) <= z
  <2> HIDE DEF U
  <2> QED BY <1>1, MinIs
<1>3. PICK x \in T : Min(U) = top - x
  BY <1>2
<1>4. \A y \in T : x >= y
  <2> SUFFICES ASSUME NEW y \in T PROVE x >= y
    OBVIOUS
  <2>1. top - x <= top - y
    BY <1>2, <1>3
  <2>2. x \in Int /\ y \in Int
    OBVIOUS
  <2> QED BY <2>1, <2>2
<1>5. Max(T) \in T /\ \A y \in T : Max(T) >= y
  BY <1>4 DEF Max
<1>6. \A y \in T : y \in Int
  OBVIOUS
<1> QED BY <1>5, <1>6

(* w has entries of the list in their order; an entry may come repeatedly. *)
Drawn(w, list) ==
    \E f \in [1 .. Len(w) -> 1 .. Len(list)] :
        /\ \A m, n \in 1 .. Len(w) : m <= n => f[m] <= f[n]
        /\ \A n \in 1 .. Len(w) : w[n] = list[f[n]]

(* Such a list is grouped if the one it is drawn from is. *)
LEMMA DrawnGrouped ==
  ASSUME NEW S, NEW list \in Seq(S), NEW w \in Seq(S), Drawn(w, list), Grouped(list)
  PROVE  Grouped(w)
<1>1. /\ DOMAIN list = 1 .. Len(list) /\ Len(list) \in Nat
      /\ DOMAIN w = 1 .. Len(w) /\ Len(w) \in Nat
  BY LenProperties
<1>2. PICK f \in [1 .. Len(w) -> 1 .. Len(list)] :
        /\ \A m, n \in 1 .. Len(w) : m <= n => f[m] <= f[n]
        /\ \A n \in 1 .. Len(w) : w[n] = list[f[n]]
  BY DEF Drawn
<1> SUFFICES ASSUME NEW i \in 1 .. Len(w), NEW j \in 1 .. Len(w), i < j, w[i] = w[j],
                    NEW k \in i .. j
             PROVE  w[k] = w[i]
  BY <1>1 DEF Grouped
<1>3. k \in 1 .. Len(w) /\ i <= k /\ k <= j
  BY <1>1
<1>4. f[i] \in 1 .. Len(list) /\ f[j] \in 1 .. Len(list) /\ f[k] \in 1 .. Len(list)
      /\ f[i] <= f[k] /\ f[k] <= f[j]
  BY <1>2, <1>3
<1>5. list[f[i]] = list[f[j]] /\ w[k] = list[f[k]] /\ w[i] = list[f[i]]
  BY <1>2, <1>3
<1> DEFINE a == f[i]
           b == f[j]
           c == f[k]
<1>6. a \in Int /\ b \in Int /\ c \in Int /\ a <= c /\ c <= b
  BY <1>4
<1>7. CASE a < b
  <2>1. c \in a .. b
    BY <1>6
  <2> QED BY <1>1, <1>4, <1>5, <1>7, <2>1 DEF Grouped
<1>8. CASE ~ (a < b)
  <2>1. a = c
    BY <1>6, <1>8
  <2> QED BY <1>5, <2>1
<1> QED BY <1>7, <1>8

(* What is left of a list when the entries G are unlinked. *)
LEMMA UnlinkedIs ==
  ASSUME NEW S, NEW list \in Seq(S), NEW G
  PROVE  /\ Unlinked(list, G) \in Seq(S)
         /\ \A e : Contains(Unlinked(list, G), e) <=> Contains(list, e) /\ e \notin G
         /\ IsInjective(list) => IsInjective(Unlinked(list, G))
         /\ UniquePrefixes(list) => UniquePrefixes(Unlinked(list, G))
         /\ Drawn(Unlinked(list, G), list)
<1> DEFINE at == {i \in 1 .. Len(list) : list[i] \notin G}
           w == Unlinked(list, G)
<1>1. /\ DOMAIN list = 1 .. Len(list) /\ Len(list) \in Nat /\ at \in SUBSET (1 .. Len(list))
  BY LenProperties
<1>2. w = Kept(list, at)
  BY <1>1 DEF Unlinked
<1>3. w \in Seq(S) /\ Thins(w, list, at)
  BY <1>1, <1>2, KeptIs
<1>4. \A i : i \in at <=> i \in 1 .. Len(list) /\ list[i] \notin G
  OBVIOUS
<1>5. DOMAIN w = 1 .. Len(w) /\ Len(w) \in Nat
  BY <1>3, LenProperties
<1> HIDE DEF w, at
<1>6. PICK f \in [1 .. Len(w) -> at] :
        /\ \A m, n \in 1 .. Len(w) : m < n => f[m] < f[n]
        /\ \A i \in at : \E n \in 1 .. Len(w) : f[n] = i
        /\ \A n \in 1 .. Len(w) : w[n] = list[f[n]]
  BY <1>3 DEF Thins
<1>7. \A n \in 1 .. Len(w) : f[n] \in 1 .. Len(list) /\ list[f[n]] \notin G
  BY <1>4, <1>6
<1>8. \A e : Contains(w, e) <=> Contains(list, e) /\ e \notin G
  <2>1. ASSUME NEW e, Contains(w, e) PROVE Contains(list, e) /\ e \notin G
    BY <1>6, <1>7, <2>1 DEF Contains
  <2>2. ASSUME NEW e, Contains(list, e), e \notin G PROVE Contains(w, e)
    <3>1. PICK i \in 1 .. Len(list) : list[i] = e
      BY <2>2 DEF Contains
    <3>2. i \in at
      BY <1>4, <2>2, <3>1
    <3> QED BY <1>6, <3>1, <3>2 DEF Contains
  <2> QED BY <2>1, <2>2
<1>9. \A m, n \in 1 .. Len(w) : f[m] = f[n] => m = n
  <2> SUFFICES ASSUME NEW m \in 1 .. Len(w), NEW n \in 1 .. Len(w), f[m] = f[n]
               PROVE  m = n
    OBVIOUS
  <2>1. f[m] \in Int /\ f[n] \in Int
    BY <1>7
  <2>2. ~ (m < n) /\ ~ (n < m)
    BY <1>6, <2>1
  <2>3. m \in Int /\ n \in Int
    BY <1>5
  <2> QED BY <2>2, <2>3
<1>10. ASSUME IsInjective(list) PROVE IsInjective(w)
  BY <1>1, <1>5, <1>6, <1>7, <1>9, <1>10 DEF IsInjective
<1>11. ASSUME UniquePrefixes(list) PROVE UniquePrefixes(w)
  BY <1>1, <1>5, <1>6, <1>7, <1>9, <1>11 DEF UniquePrefixes
<1>12. Drawn(w, list)
  <2>1. f \in [1 .. Len(w) -> 1 .. Len(list)]
    BY <1>6, <1>7
  <2>2. \A m, n \in 1 .. Len(w) : m <= n => f[m] <= f[n]
    <3> SUFFICES ASSUME NEW m \in 1 .. Len(w), NEW n \in 1 .. Len(w), m <= n
                 PROVE  f[m] <= f[n]
      OBVIOUS
    <3>1. f[m] \in Int /\ f[n] \in Int
      BY <1>7
    <3>2. m < n \/ m = n
      BY <1>5
    <3> QED BY <1>6, <3>1, <3>2
  <2> QED BY <1>6, <2>1, <2>2 DEF Drawn
<1> QED BY <1>3, <1>8, <1>10, <1>11, <1>12 DEF w

(* w is the list with e put behind its first m entries. *)
Inserted(w, list, m, e) ==
    /\ Len(w) = Len(list) + 1 /\ w[m + 1] = e
    /\ \A i \in 1 .. m : w[i] = list[i]
    /\ \A i \in m + 1 .. Len(list) : w[i + 1] = list[i]

(* What InsertAt makes of a list. *)
LEMMA InsertAtIs ==
  ASSUME NEW S, NEW list \in Seq(S), NEW e \in S, NEW m \in 0 .. Len(list)
  PROVE  InsertAt(list, m + 1, e) \in Seq(S) /\ Inserted(InsertAt(list, m + 1, e), list, m, e)
<1> DEFINE w == InsertAt(list, m + 1, e)
           len == Len(list)
           head == SubSeq(list, 1, m)
           tail == SubSeq(list, m + 1, len)
           one == << e >>
           first == head \o one
<1>1. len \in Nat /\ m \in Nat /\ m <= len /\ (m + 1) - 1 = m
  BY LenProperties
<1>2. w = first \o tail
  BY <1>1 DEF InsertAt
<1>3. head \in Seq(S) /\ Len(head) = m /\ \A i \in 1 .. m : head[i] = list[i]
  BY <1>1, SubSeqProperties, ElementOfSeq
<1>4. /\ tail \in Seq(S) /\ Len(tail) = len - m
      /\ \A i \in 1 .. len - m : tail[i] = list[(m + 1) + i - 1]
  BY <1>1, SubSeqProperties, ElementOfSeq
<1>5. one \in Seq(S) /\ Len(one) = 1 /\ one[1] = e
  OBVIOUS
<1> HIDE DEF head, tail, one, w
<1>6. /\ first \in Seq(S) /\ Len(first) = m + 1
      /\ \A i \in 1 .. m + 1 : first[i] = IF i <= m THEN head[i] ELSE one[i - m]
  <2>1. /\ head \o one \in Seq(S) /\ Len(head \o one) = Len(head) + Len(one)
        /\ \A i \in 1 .. Len(head) + Len(one) :
              (head \o one)[i] = IF i <= Len(head) THEN head[i] ELSE one[i - Len(head)]
    BY <1>3, <1>5, ConcatProperties
  <2>2. Len(head) = m /\ Len(one) = 1
    BY <1>3, <1>5
  <2> HIDE DEF first
  <2> QED BY <2>1, <2>2, Zenon DEF first
<1> HIDE DEF first
<1>7. /\ w \in Seq(S) /\ Len(w) = len + 1
      /\ \A i \in 1 .. len + 1 : w[i] = IF i <= m + 1 THEN first[i] ELSE tail[i - (m + 1)]
  <2>1. /\ w \in Seq(S) /\ Len(w) = Len(first) + Len(tail)
        /\ \A i \in 1 .. Len(first) + Len(tail) :
              w[i] = IF i <= Len(first) THEN first[i] ELSE tail[i - Len(first)]
    BY <1>2, <1>4, <1>6, ConcatProperties
  <2>2. Len(first) + Len(tail) = len + 1
    BY <1>1, <1>4, <1>6
  <2> QED BY <1>6, <2>1, <2>2
<1> HIDE DEF len
<1>8. ASSUME NEW i \in 1 .. m PROVE w[i] = list[i]
  <2>1. i \in 1 .. len + 1 /\ i <= m + 1 /\ i \in 1 .. m + 1 /\ i <= m
    BY <1>1
  <2> QED BY <1>3, <1>6, <1>7, <2>1
<1>9. w[m + 1] = e
  <2>1. m + 1 \in 1 .. len + 1 /\ m + 1 <= m + 1 /\ m + 1 \in 1 .. m + 1 /\ ~ (m + 1 <= m)
        /\ (m + 1) - m = 1
    BY <1>1
  <2> QED BY <1>5, <1>6, <1>7, <2>1
<1>10. ASSUME NEW i \in m + 1 .. len PROVE w[i + 1] = list[i]
  <2>1. i + 1 \in 1 .. len + 1 /\ ~ (i + 1 <= m + 1) /\ (i + 1) - (m + 1) = i - m
        /\ i - m \in 1 .. len - m /\ (m + 1) + (i - m) - 1 = i
    BY <1>1
  <2>2. w[i + 1] = tail[i - m]
    BY <1>7, <2>1
  <2> QED BY <1>4, <2>1, <2>2
<1>11. Len(w) = len + 1 /\ w \in Seq(S)
  BY <1>7
<1> QED BY <1>8, <1>9, <1>10, <1>11 DEF Inserted, len, w

(* Where the entries of such a list come from. *)
LEMMA InsertedFrom ==
  ASSUME NEW S, NEW list \in Seq(S), NEW w \in Seq(S), NEW e, NEW m \in 0 .. Len(list),
         Inserted(w, list, m, e), NEW i \in 1 .. Len(w)
  PROVE  \/ i = m + 1 /\ w[i] = e
         \/ i <= m /\ i \in 1 .. Len(list) /\ w[i] = list[i]
         \/ i > m + 1 /\ i - 1 \in 1 .. Len(list) /\ w[i] = list[i - 1]
<1> DEFINE len == Len(list)
<1>1. len \in Nat /\ Len(w) = len + 1 /\ m \in 0 .. len /\ i \in 1 .. len + 1
  BY LenProperties DEF Inserted
<1>2. /\ w[m + 1] = e
      /\ \A j \in 1 .. m : w[j] = list[j]
      /\ \A j \in m + 1 .. len : w[j + 1] = list[j]
  BY DEF Inserted
<1> HIDE DEF len
<1>3. CASE i = m + 1
  BY <1>2, <1>3
<1>4. CASE i <= m
  <2>1. i \in 1 .. m /\ i \in 1 .. len
    BY <1>1, <1>4
  <2> QED BY <1>2, <1>4, <2>1 DEF len
<1>5. CASE i > m + 1
  <2>1. i - 1 \in m + 1 .. len /\ i - 1 \in 1 .. len /\ (i - 1) + 1 = i
    BY <1>1, <1>5
  <2>2. w[(i - 1) + 1] = list[i - 1]
    BY <1>2, <2>1
  <2> QED BY <1>5, <2>1, <2>2 DEF len
<1> QED BY <1>1, <1>3, <1>4, <1>5

(* What such a list contains. *)
LEMMA InsertedContains ==
  ASSUME NEW S, NEW list \in Seq(S), NEW w \in Seq(S), NEW e, NEW m \in 0 .. Len(list),
         Inserted(w, list, m, e)
  PROVE  \A x : Contains(w, x) <=> x = e \/ Contains(list, x)
<1> DEFINE len == Len(list)
<1>1. len \in Nat /\ Len(w) = len + 1 /\ m \in 0 .. len
  BY LenProperties DEF Inserted
<1>2. ASSUME NEW x, Contains(w, x) PROVE x = e \/ Contains(list, x)
  <2>1. PICK i \in 1 .. Len(w) : w[i] = x
    BY <1>2 DEF Contains
  <2> QED BY <2>1, InsertedFrom DEF Contains
<1>3. Contains(w, e)
  <2>1. m + 1 \in 1 .. Len(w)
    BY <1>1
  <2> QED BY <2>1 DEF Contains, Inserted
<1>4. ASSUME NEW x, Contains(list, x) PROVE Contains(w, x)
  <2>1. PICK i \in 1 .. Len(list) : list[i] = x
    BY <1>4 DEF Contains
  <2>2. CASE i \in 1 .. m
    <3>1. i \in 1 .. Len(w)
      BY <1>1
    <3> QED BY <2>1, <2>2, <3>1 DEF Contains, Inserted
  <2>3. CASE i \in m + 1 .. Len(list)
    <3>1. i + 1 \in 1 .. Len(w)
      BY <1>1
    <3> QED BY <2>1, <2>3, <3>1 DEF Contains, Inserted
  <2>4. i \in 1 .. m \/ i \in m + 1 .. Len(list)
    BY <1>1
  <2> QED BY <2>2, <2>3, <2>4
<1> QED BY <1>2, <1>3, <1>4

(* A new entry keeps the entries distinct, ... *)
LEMMA InsertedInjective ==
  ASSUME NEW S, NEW list \in Seq(S), NEW w \in Seq(S), NEW e, NEW m \in 0 .. Len(list),
         Inserted(w, list, m, e), ~ Contains(list, e), IsInjective(list)
  PROVE  IsInjective(w)
<1>1. DOMAIN list = 1 .. Len(list) /\ DOMAIN w = 1 .. Len(w) /\ Len(w) \in Nat /\ Len(list) \in Nat
  BY LenProperties
<1> SUFFICES ASSUME NEW i \in 1 .. Len(w), NEW j \in 1 .. Len(w), w[i] = w[j] PROVE i = j
  BY <1>1 DEF IsInjective
<1>2. \A n \in 1 .. Len(list) : list[n] # e
  BY DEF Contains
<1>3. \A a, b \in 1 .. Len(list) : list[a] = list[b] => a = b
  BY <1>1 DEF IsInjective
<1>4. i \in Int /\ j \in Int /\ m \in Int
  BY <1>1
<1>5. \/ i = m + 1 /\ w[i] = e
      \/ i <= m /\ i \in 1 .. Len(list) /\ w[i] = list[i]
      \/ i > m + 1 /\ i - 1 \in 1 .. Len(list) /\ w[i] = list[i - 1]
  BY InsertedFrom
<1>6. \/ j = m + 1 /\ w[j] = e
      \/ j <= m /\ j \in 1 .. Len(list) /\ w[j] = list[j]
      \/ j > m + 1 /\ j - 1 \in 1 .. Len(list) /\ w[j] = list[j - 1]
  BY InsertedFrom
<1>7. CASE i = m + 1
  BY <1>2, <1>5, <1>6, <1>7
<1>8. CASE i <= m /\ i \in 1 .. Len(list) /\ w[i] = list[i]
  <2>1. j # m + 1
    BY <1>2, <1>4, <1>6, <1>8
  <2>2. CASE j <= m /\ j \in 1 .. Len(list) /\ w[j] = list[j]
    BY <1>3, <1>8, <2>2
  <2>3. CASE j > m + 1 /\ j - 1 \in 1 .. Len(list) /\ w[j] = list[j - 1]
    <3>1. i = j - 1
      BY <1>3, <1>8, <2>3
    <3> QED BY <1>4, <1>8, <2>3, <3>1
  <2> QED BY <1>6, <2>1, <2>2, <2>3
<1>9. CASE i > m + 1 /\ i - 1 \in 1 .. Len(list) /\ w[i] = list[i - 1]
  <2>1. j # m + 1
    BY <1>2, <1>4, <1>6, <1>9
  <2>2. CASE j <= m /\ j \in 1 .. Len(list) /\ w[j] = list[j]
    <3>1. j = i - 1
      BY <1>3, <1>9, <2>2
    <3> QED BY <1>4, <1>9, <2>2, <3>1
  <2>3. CASE j > m + 1 /\ j - 1 \in 1 .. Len(list) /\ w[j] = list[j - 1]
    <3>1. i - 1 = j - 1
      BY <1>3, <1>9, <2>3
    <3> QED BY <1>4, <3>1
  <2> QED BY <1>6, <2>1, <2>2, <2>3
<1> QED BY <1>5, <1>7, <1>8, <1>9

(* ... and equal keys together, if it is put behind one of its own kind,   *)
(* or before a list that has none of it.                                   *)
LEMMA InsertedGrouped ==
  ASSUME NEW S, NEW list \in Seq(S), NEW w \in Seq(S), NEW e, NEW m \in 0 .. Len(list),
         Inserted(w, list, m, e), Grouped(list),
         \/ m = 0 /\ ~ Contains(list, e)
         \/ m # 0 /\ list[m] = e
  PROVE  Grouped(w)
<1> DEFINE len == Len(list)
<1>1. len \in Nat /\ Len(w) = len + 1 /\ m \in 0 .. len
  BY LenProperties DEF Inserted
<1>2. DOMAIN list = 1 .. len /\ DOMAIN w = 1 .. Len(w)
  BY LenProperties
<1>3. \A i \in 1 .. Len(w) :
         \/ i = m + 1 /\ w[i] = e
         \/ i <= m /\ i \in 1 .. len /\ w[i] = list[i]
         \/ i > m + 1 /\ i - 1 \in 1 .. len /\ w[i] = list[i - 1]
  BY InsertedFrom
<1>4. CASE m # 0 /\ list[m] = e
  <2> DEFINE f == [i \in 1 .. Len(w) |-> IF i <= m THEN i ELSE i - 1]
  <2> HIDE DEF len
  <2>1. f \in [1 .. Len(w) -> 1 .. len]
    BY <1>1, <1>4
  <2>2. \A i, n \in 1 .. Len(w) : i <= n => f[i] <= f[n]
    BY <1>1
  <2>3. \A i \in 1 .. Len(w) : w[i] = list[f[i]]
    <3> SUFFICES ASSUME NEW i \in 1 .. Len(w) PROVE w[i] = list[f[i]]
      OBVIOUS
    <3>1. i \in Int /\ m \in Int /\ f[i] = IF i <= m THEN i ELSE i - 1
      BY <1>1
    <3> HIDE DEF f
    <3>2. CASE i = m + 1
      <4>1. f[i] = m
        BY <3>1, <3>2
      <4> QED BY <1>3, <1>4, <3>1, <3>2, <4>1
    <3>3. CASE i <= m
      <4>1. f[i] = i /\ i # m + 1 /\ ~ (i > m + 1)
        BY <3>1, <3>3
      <4> QED BY <1>3, <4>1
    <3>4. CASE i > m + 1
      <4>1. f[i] = i - 1 /\ i # m + 1 /\ ~ (i <= m)
        BY <3>1, <3>4
      <4> QED BY <1>3, <4>1
    <3> QED BY <3>1, <3>2, <3>3, <3>4
  <2> HIDE DEF f
  <2>4. Drawn(w, list)
    BY <2>1, <2>2, <2>3 DEF Drawn, len
  <2> QED BY <2>4, DrawnGrouped
<1>5. CASE m = 0 /\ ~ Contains(list, e)
  <2> SUFFICES ASSUME NEW i \in 1 .. Len(w), NEW j \in 1 .. Len(w), i < j, w[i] = w[j],
                      NEW k \in i .. j
               PROVE  w[k] = w[i]
    BY <1>2 DEF Grouped
  <2>1. \A n \in 1 .. len : list[n] # e
    BY <1>5 DEF Contains
  <2>2. \A n \in 1 .. Len(w) : n # 1 => n - 1 \in 1 .. len /\ w[n] = list[n - 1]
    BY <1>1, <1>3, <1>5
  <2>3. w[1] = e
    BY <1>5 DEF Inserted
  <2> HIDE DEF len
  <2>4. i \in Int /\ j \in Int /\ k \in Int /\ i <= k /\ k <= j /\ k \in 1 .. Len(w) /\ j # 1
    BY <1>1
  <2>5. i # 1
    BY <2>1, <2>2, <2>3, <2>4
  <2>6. k # 1
    BY <1>1, <2>4, <2>5
  <2>7. i - 1 < j - 1 /\ k - 1 \in (i - 1) .. (j - 1)
    BY <2>4
  <2>8. /\ i - 1 \in 1 .. len /\ j - 1 \in 1 .. len
        /\ list[i - 1] = list[j - 1] /\ w[i] = list[i - 1] /\ w[k] = list[k - 1]
    BY <2>2, <2>4, <2>5, <2>6
  <2>9. list[k - 1] = list[i - 1]
    BY <1>2, <2>7, <2>8 DEF Grouped
  <2> QED BY <2>8, <2>9
<1> QED BY <1>4, <1>5

-----------------------------------------------------------------------------
(* Keys.                                                                   *)

PrefixesOf(list) == [i \in DOMAIN list |-> list[i].prefix]

(* The keys of a list of outputs are a sequence as long as it. *)
LEMMA OutputKeys ==
  ASSUME NEW list \in Seq(Entry)
  PROVE  /\ SocketsOf(list) \in Seq(Sockets) /\ Len(SocketsOf(list)) = Len(list)
         /\ PrefixesOf(list) \in Seq(MsgPrefixes) /\ Len(PrefixesOf(list)) = Len(list)
         /\ \A i \in 1 .. Len(list) : /\ SocketsOf(list)[i] = list[i].socket
                                      /\ PrefixesOf(list)[i] = list[i].prefix
         /\ UniquePrefixes(list) <=> IsInjective(PrefixesOf(list))
<1>1. DOMAIN list = 1 .. Len(list) /\ Len(list) \in Nat
  BY LenProperties
<1>2. \A i \in 1 .. Len(list) : list[i] \in Entry
  BY ElementOfSeq
<1>3. \A i \in 1 .. Len(list) : list[i].socket \in Sockets /\ list[i].prefix \in MsgPrefixes
  BY <1>2 DEF Entry
<1>4. /\ SocketsOf(list) = [i \in 1 .. Len(list) |-> list[i].socket]
      /\ PrefixesOf(list) = [i \in 1 .. Len(list) |-> list[i].prefix]
  BY <1>1 DEF SocketsOf, PrefixesOf
<1>5. /\ SocketsOf(list) \in Seq(Sockets) /\ Len(SocketsOf(list)) = Len(list)
      /\ PrefixesOf(list) \in Seq(MsgPrefixes) /\ Len(PrefixesOf(list)) = Len(list)
  BY <1>1, <1>3, <1>4
<1>6. UniquePrefixes(list) <=> IsInjective(PrefixesOf(list))
  BY <1>1, <1>4 DEF UniquePrefixes, IsInjective
<1> QED BY <1>4, <1>5, <1>6

(* So are the keys of a list of attachments. *)
LEMMA UserKeys ==
  ASSUME NEW list \in Seq(Attachments)
  PROVE  /\ UsersOf(list) \in Seq(Sessions) /\ Len(UsersOf(list)) = Len(list)
         /\ \A i \in 1 .. Len(list) : UsersOf(list)[i] = list[i].connection
<1>1. DOMAIN list = 1 .. Len(list) /\ Len(list) \in Nat
  BY LenProperties
<1>2. \A i \in 1 .. Len(list) : list[i] \in Attachments
  BY ElementOfSeq
<1>3. \A i \in 1 .. Len(list) : list[i].connection \in Sessions
  BY <1>2 DEF Attachments
<1>4. UsersOf(list) = [i \in 1 .. Len(list) |-> list[i].connection]
  BY <1>1 DEF UsersOf
<1>5. UsersOf(list) \in Seq(Sessions) /\ Len(UsersOf(list)) = Len(list)
  BY <1>1, <1>3, <1>4
<1> QED BY <1>4, <1>5

(* Unlinking entries keeps equal keys together. *)
LEMMA UnlinkedGrouped ==
  ASSUME NEW G
  PROVE  /\ \A list \in Seq(Entry) :
               Grouped(SocketsOf(list)) => Grouped(SocketsOf(Unlinked(list, G)))
         /\ \A list \in Seq(Attachments) :
               Grouped(UsersOf(list)) => Grouped(UsersOf(Unlinked(list, G)))
<1>1. ASSUME NEW list \in Seq(Entry), Grouped(SocketsOf(list))
      PROVE  Grouped(SocketsOf(Unlinked(list, G)))
  <2> DEFINE w == Unlinked(list, G)
  <2>1. w \in Seq(Entry) /\ Drawn(w, list)
    BY UnlinkedIs
  <2> HIDE DEF w
  <2>2. PICK f \in [1 .. Len(w) -> 1 .. Len(list)] :
          /\ \A m, n \in 1 .. Len(w) : m <= n => f[m] <= f[n]
          /\ \A n \in 1 .. Len(w) : w[n] = list[f[n]]
    BY <2>1 DEF Drawn
  <2>3. \A n \in 1 .. Len(w) : SocketsOf(w)[n] = SocketsOf(list)[f[n]]
    <3>1. /\ \A n \in 1 .. Len(w) : SocketsOf(w)[n] = w[n].socket
          /\ \A n \in 1 .. Len(list) : SocketsOf(list)[n] = list[n].socket
      BY <2>1, OutputKeys
    <3> QED BY <2>2, <3>1
  <2>4. /\ Len(SocketsOf(w)) = Len(w) /\ Len(SocketsOf(list)) = Len(list)
        /\ SocketsOf(w) \in Seq(Sockets) /\ SocketsOf(list) \in Seq(Sockets)
    BY <2>1, OutputKeys
  <2>5. Drawn(SocketsOf(w), SocketsOf(list))
    <3> DEFINE x == SocketsOf(w)
               y == SocketsOf(list)
    <3>1. Len(x) = Len(w) /\ Len(y) = Len(list) /\ \A n \in 1 .. Len(w) : x[n] = y[f[n]]
      BY <2>3, <2>4
    <3> HIDE DEF x, y
    <3>2. Drawn(x, y)
      BY <2>2, <3>1 DEF Drawn
    <3> QED BY <3>2 DEF x, y
  <2>6. Grouped(SocketsOf(w))
    BY <1>1, <2>4, <2>5, DrawnGrouped
  <2> QED BY <2>6 DEF w
<1>2. ASSUME NEW list \in Seq(Attachments), Grouped(UsersOf(list))
      PROVE  Grouped(UsersOf(Unlinked(list, G)))
  <2> DEFINE w == Unlinked(list, G)
  <2>1. w \in Seq(Attachments) /\ Drawn(w, list)
    BY UnlinkedIs
  <2> HIDE DEF w
  <2>2. PICK f \in [1 .. Len(w) -> 1 .. Len(list)] :
          /\ \A m, n \in 1 .. Len(w) : m <= n => f[m] <= f[n]
          /\ \A n \in 1 .. Len(w) : w[n] = list[f[n]]
    BY <2>1 DEF Drawn
  <2>3. \A n \in 1 .. Len(w) : UsersOf(w)[n] = UsersOf(list)[f[n]]
    <3>1. /\ \A n \in 1 .. Len(w) : UsersOf(w)[n] = w[n].connection
          /\ \A n \in 1 .. Len(list) : UsersOf(list)[n] = list[n].connection
      BY <2>1, UserKeys
    <3> QED BY <2>2, <3>1
  <2>4. /\ Len(UsersOf(w)) = Len(w) /\ Len(UsersOf(list)) = Len(list)
        /\ UsersOf(w) \in Seq(Sessions) /\ UsersOf(list) \in Seq(Sessions)
    BY <2>1, UserKeys
  <2>5. Drawn(UsersOf(w), UsersOf(list))
    <3> DEFINE x == UsersOf(w)
               y == UsersOf(list)
    <3>1. Len(x) = Len(w) /\ Len(y) = Len(list) /\ \A n \in 1 .. Len(w) : x[n] = y[f[n]]
      BY <2>3, <2>4
    <3> HIDE DEF x, y
    <3>2. Drawn(x, y)
      BY <2>2, <3>1 DEF Drawn
    <3> QED BY <3>2 DEF x, y
  <2>6. Grouped(UsersOf(w))
    BY <1>2, <2>4, <2>5, DrawnGrouped
  <2> QED BY <2>6 DEF w
<1> QED BY <1>1, <1>2

-----------------------------------------------------------------------------
(* Walks.                                                                  *)

(* A walk that stops at one entry of each key sees each key once. *)
LEMMA WalkIs ==
  ASSUME NEW S, NEW seq \in Seq(S), NEW at \in SUBSET (1 .. Len(seq)),
         \A i \in 1 .. Len(seq) : \E j \in at : seq[j] = seq[i],
         \A i, j \in at : seq[i] = seq[j] => i = j
  PROVE  /\ Kept(seq, at) \in Seq(S) /\ IsInjective(Kept(seq, at))
         /\ ToSet(Kept(seq, at)) = ToSet(seq)
<1> DEFINE w == Kept(seq, at)
<1>1. w \in Seq(S) /\ Thins(w, seq, at)
  BY KeptIs
<1> HIDE DEF w
<1>2. PICK f \in [1 .. Len(w) -> at] :
        /\ \A m, n \in 1 .. Len(w) : m < n => f[m] < f[n]
        /\ \A i \in at : \E n \in 1 .. Len(w) : f[n] = i
        /\ \A n \in 1 .. Len(w) : w[n] = seq[f[n]]
  BY <1>1 DEF Thins
<1>3. /\ DOMAIN w = 1 .. Len(w) /\ Len(w) \in Nat /\ DOMAIN seq = 1 .. Len(seq)
  BY <1>1, LenProperties
<1>4. IsInjective(w)
  <2> SUFFICES ASSUME NEW m \in 1 .. Len(w), NEW n \in 1 .. Len(w), w[m] = w[n]
               PROVE  m = n
    BY <1>3 DEF IsInjective
  <2>1. f[m] = f[n] /\ f[m] \in Int /\ f[n] \in Int
    <3>1. f[m] \in at /\ f[n] \in at /\ seq[f[m]] = seq[f[n]]
      BY <1>2
    <3>2. \A i \in at : i \in Int
      OBVIOUS
    <3> QED BY <3>1, <3>2
  <2>2. ~ (m < n) /\ ~ (n < m)
    BY <1>2, <2>1
  <2>3. m \in Int /\ n \in Int
    BY <1>3
  <2> QED BY <2>2, <2>3
<1>5. ToSet(w) = ToSet(seq)
  <2>1. ASSUME NEW n \in 1 .. Len(w) PROVE w[n] \in ToSet(seq)
    <3>1. f[n] \in 1 .. Len(seq) /\ w[n] = seq[f[n]]
      BY <1>2
    <3> QED BY <1>3, <3>1 DEF ToSet
  <2>2. ASSUME NEW i \in 1 .. Len(seq) PROVE seq[i] \in ToSet(w)
    <3>1. PICK j \in at : seq[j] = seq[i]
      OBVIOUS
    <3>2. PICK n \in 1 .. Len(w) : f[n] = j
      BY <1>2
    <3>3. w[n] = seq[i]
      BY <1>2, <3>1, <3>2
    <3> QED BY <1>3, <3>3 DEF ToSet
  <2>3. ToSet(w) = {w[n] : n \in 1 .. Len(w)} /\ ToSet(seq) = {seq[i] : i \in 1 .. Len(seq)}
    BY <1>3 DEF ToSet
  <2>4. ToSet(w) \subseteq ToSet(seq)
    <3> SUFFICES ASSUME NEW x \in ToSet(w) PROVE x \in ToSet(seq)
      OBVIOUS
    <3>1. PICK n \in 1 .. Len(w) : x = w[n]
      BY <2>3, Zenon
    <3> QED BY <2>1, <3>1, Zenon
  <2>5. ToSet(seq) \subseteq ToSet(w)
    <3> SUFFICES ASSUME NEW x \in ToSet(seq) PROVE x \in ToSet(w)
      OBVIOUS
    <3>1. PICK n \in 1 .. Len(seq) : x = seq[n]
      BY <2>3, Zenon
    <3> QED BY <2>2, <3>1, Zenon
  <2> QED BY <2>4, <2>5, Zenon
<1> QED BY <1>1, <1>4, <1>5 DEF w

(* hybi_stop stops at the last entry of each run: each socket once. *)
LEMMA LastOfRunsIs ==
  ASSUME NEW S, NEW seq \in Seq(S), Grouped(seq)
  PROVE  /\ Kept(seq, LastOfRuns(seq)) \in Seq(S) /\ IsInjective(Kept(seq, LastOfRuns(seq)))
         /\ ToSet(Kept(seq, LastOfRuns(seq))) = ToSet(seq)
<1> DEFINE len == Len(seq)
           at == LastOfRuns(seq)
<1>1. len \in Nat /\ DOMAIN seq = 1 .. len
  BY LenProperties
<1>2. \A i : i \in at <=> i \in 1 .. len /\ (i = len \/ seq[i + 1] # seq[i])
  BY <1>1 DEF LastOfRuns
<1> HIDE DEF len, at
<1>3. ASSUME NEW i \in 1 .. len PROVE \E j \in at : seq[j] = seq[i]
  <2> DEFINE T == {j \in 1 .. len : seq[j] = seq[i]}
             j == Max(T)
  <2>1. T \in SUBSET (0 .. len) /\ T # {}
    OBVIOUS
  <2>2. j \in T /\ \A y \in T : y <= j
    <3> HIDE DEF T
    <3>1. \A U \in SUBSET (0 .. len) : U # {} => Max(U) \in U /\ \A y \in U : y <= Max(U)
      BY <1>1, MaxIs
    <3> QED BY <2>1, <3>1
  <2>3. j \in 1 .. len /\ seq[j] = seq[i]
    BY <2>2
  <2>4. j # len => seq[j + 1] # seq[j]
    <3>1. ASSUME j # len, seq[j + 1] = seq[j] PROVE FALSE
      <4> HIDE DEF j
      <4>1. j + 1 \in 1 .. len /\ j \in Int /\ ~ (j + 1 <= j)
        BY <1>1, <2>3, <3>1
      <4>2. j + 1 \in T
        BY <2>3, <3>1, <4>1
      <4> QED BY <2>2, <4>1, <4>2
    <3> QED BY <3>1
  <2> HIDE DEF j
  <2> QED BY <1>2, <2>3, <2>4
<1>4. ASSUME NEW i \in at, NEW j \in at, seq[i] = seq[j], i < j PROVE FALSE
  <2>1. i \in 1 .. len /\ j \in 1 .. len
    BY <1>2
  <2>2. i # len /\ i + 1 \in i .. j
    BY <1>1, <1>4, <2>1
  <2>3. seq[i + 1] = seq[i]
    BY <1>1, <1>4, <2>1, <2>2 DEF Grouped
  <2> QED BY <1>2, <2>2, <2>3
<1>5. \A i, j \in at : seq[i] = seq[j] => i = j
  <2> SUFFICES ASSUME NEW i \in at, NEW j \in at, seq[i] = seq[j] PROVE i = j
    OBVIOUS
  <2>1. ~ (i < j) /\ ~ (j < i)
    BY <1>4
  <2>2. i \in 1 .. len /\ j \in 1 .. len
    BY <1>2
  <2> QED BY <1>1, <2>1, <2>2
<1>6. at \in SUBSET (1 .. Len(seq)) /\ \A i \in 1 .. Len(seq) : \E j \in at : seq[j] = seq[i]
  BY <1>2, <1>3 DEF len
<1>7. Kept(seq, at) \in Seq(S) /\ IsInjective(Kept(seq, at)) /\ ToSet(Kept(seq, at)) = ToSet(seq)
  BY <1>5, <1>6, WalkIs
<1> QED BY <1>7 DEF at

(* send_sync stops at the first entry of each run: each user once. *)
LEMMA FirstOfRunsIs ==
  ASSUME NEW S, NEW seq \in Seq(S), Grouped(seq)
  PROVE  /\ Kept(seq, FirstOfRuns(seq)) \in Seq(S) /\ IsInjective(Kept(seq, FirstOfRuns(seq)))
         /\ ToSet(Kept(seq, FirstOfRuns(seq))) = ToSet(seq)
<1> DEFINE len == Len(seq)
           at == FirstOfRuns(seq)
<1>1. len \in Nat /\ DOMAIN seq = 1 .. len
  BY LenProperties
<1>2. \A i : i \in at <=> i \in 1 .. len /\ (i = 1 \/ seq[i - 1] # seq[i])
  BY <1>1 DEF FirstOfRuns
<1> HIDE DEF len, at
<1>3. ASSUME NEW i \in 1 .. len PROVE \E j \in at : seq[j] = seq[i]
  <2> DEFINE T == {j \in 1 .. len : seq[j] = seq[i]}
             j == Min(T)
  <2>1. T \in SUBSET Nat /\ T # {}
    BY <1>1
  <2>2. j \in T /\ \A y \in T : j <= y
    <3> HIDE DEF T
    <3> QED BY <2>1, MinIs
  <2>3. j \in 1 .. len /\ seq[j] = seq[i]
    BY <2>2
  <2>4. j # 1 => seq[j - 1] # seq[j]
    <3>1. ASSUME j # 1, seq[j - 1] = seq[j] PROVE FALSE
      <4> HIDE DEF j
      <4>1. j - 1 \in 1 .. len /\ j \in Int /\ ~ (j <= j - 1)
        BY <1>1, <2>3, <3>1
      <4>2. j - 1 \in T
        BY <2>3, <3>1, <4>1
      <4> QED BY <2>2, <4>1, <4>2
    <3> QED BY <3>1
  <2> HIDE DEF j
  <2> QED BY <1>2, <2>3, <2>4
<1>4. ASSUME NEW i \in at, NEW j \in at, seq[i] = seq[j], i < j PROVE FALSE
  <2>1. i \in 1 .. len /\ j \in 1 .. len
    BY <1>2
  <2>2. j # 1 /\ j - 1 \in i .. j
    BY <1>1, <1>4, <2>1
  <2>3. seq[j - 1] = seq[i]
    BY <1>1, <1>4, <2>1, <2>2 DEF Grouped
  <2> QED BY <1>2, <1>4, <2>2, <2>3
<1>5. \A i, j \in at : seq[i] = seq[j] => i = j
  <2> SUFFICES ASSUME NEW i \in at, NEW j \in at, seq[i] = seq[j] PROVE i = j
    OBVIOUS
  <2>1. ~ (i < j) /\ ~ (j < i)
    BY <1>4
  <2>2. i \in 1 .. len /\ j \in 1 .. len
    BY <1>2
  <2> QED BY <1>1, <2>1, <2>2
<1>6. at \in SUBSET (1 .. Len(seq)) /\ \A i \in 1 .. Len(seq) : \E j \in at : seq[j] = seq[i]
  BY <1>2, <1>3 DEF len
<1>7. Kept(seq, at) \in Seq(S) /\ IsInjective(Kept(seq, at)) /\ ToSet(Kept(seq, at)) = ToSet(seq)
  BY <1>5, <1>6, WalkIs
<1> QED BY <1>7 DEF at

-----------------------------------------------------------------------------
(* Targets.                                                                *)

(* Where a list sends a prefix. *)
Target(list, p) ==
    IF \E i \in DOMAIN list : list[i].prefix = p
    THEN list[CHOOSE i \in DOMAIN list : list[i].prefix = p].socket
    ELSE Forward

(* The refinement mapping before and after a step. *)
LEMMA MappingIs ==
  /\ Mapping = [s \in Sessions |-> [p \in MsgPrefixes |-> Target(outputs[s], p)]]
  /\ Mapping' = [s \in Sessions |-> [p \in MsgPrefixes |-> Target(outputs'[s], p)]]
BY DEF Mapping, HasPrefix, SocketOf, Target

(* An entry is its prefix and its socket. *)
LEMMA ContainsIs ==
  /\ \A list \in Seq(Entry) : \A p, k :
        Contains(list, Output(p, k)) <=>
          \E i \in 1 .. Len(list) : list[i].prefix = p /\ list[i].socket = k
  /\ \A list \in Seq(Attachments) : \A s, p :
        Contains(list, Attachment(s, p)) <=>
          \E i \in 1 .. Len(list) : list[i].connection = s /\ list[i].prefix = p
<1>1. ASSUME NEW list \in Seq(Entry), NEW p, NEW k
      PROVE  Contains(list, Output(p, k)) <=>
               \E i \in 1 .. Len(list) : list[i].prefix = p /\ list[i].socket = k
  <2>1. \A i \in 1 .. Len(list) : list[i] \in Entry
    BY ElementOfSeq
  <2>2. \A x \in Entry : x = Output(p, k) <=> x.prefix = p /\ x.socket = k
    BY DEF Entry, Output
  <2> QED BY <2>1, <2>2 DEF Contains
<1>2. ASSUME NEW list \in Seq(Attachments), NEW s, NEW p
      PROVE  Contains(list, Attachment(s, p)) <=>
               \E i \in 1 .. Len(list) : list[i].connection = s /\ list[i].prefix = p
  <2>1. \A i \in 1 .. Len(list) : list[i] \in Attachments
    BY ElementOfSeq
  <2>2. \A x \in Attachments : x = Attachment(s, p) <=> x.connection = s /\ x.prefix = p
    BY DEF Attachments, Attachment
  <2> QED BY <2>1, <2>2 DEF Contains
<1> QED BY <1>1, <1>2

(* What a list sends where, in terms of its entries. *)
LEMMA TargetIs ==
  ASSUME NEW list \in Seq(Entry), UniquePrefixes(list), NEW p
  PROVE  /\ Target(list, p) \in Sockets \cup {Forward}
         /\ \A k \in Sockets : Target(list, p) = k <=> Contains(list, Output(p, k))
         /\ Target(list, p) = Forward <=> \A i \in 1 .. Len(list) : list[i].prefix # p
         /\ \A i \in 1 .. Len(list) : list[i].prefix = p => Target(list, p) = list[i].socket
<1>1. DOMAIN list = 1 .. Len(list)
  BY LenProperties
<1>2. \A i \in 1 .. Len(list) : list[i] \in Entry
  BY ElementOfSeq
<1>3. \A i \in 1 .. Len(list) : list[i].socket \in Sockets
  BY <1>2 DEF Entry
<1>4. \A i \in 1 .. Len(list) : list[i].prefix = p => Target(list, p) = list[i].socket
  BY <1>1 DEF Target, UniquePrefixes
<1>5. (\A i \in 1 .. Len(list) : list[i].prefix # p) => Target(list, p) = Forward
  BY <1>1 DEF Target
<1>6. \A k \in Sockets : Contains(list, Output(p, k)) <=>
          \E i \in 1 .. Len(list) : list[i].prefix = p /\ list[i].socket = k
  BY ContainsIs
<1>7. Forward \notin Sockets
  BY ForwardAssumption
<1> QED BY <1>3, <1>4, <1>5, <1>6, <1>7

-----------------------------------------------------------------------------
(* How a list changes.                                                     *)

(* LIST_INSERT_AFTER the last of some positions. *)
LEMMA InsertAfterIs ==
  ASSUME NEW S, NEW list \in Seq(S), NEW e \in S, NEW at \in SUBSET (1 .. Len(list))
  PROVE  /\ InsertAfterLast(list, e, at) \in Seq(S)
         /\ \E m \in 0 .. Len(list) :
               /\ Inserted(InsertAfterLast(list, e, at), list, m, e)
               /\ m = 0 => at = {}
               /\ m # 0 => m \in at
<1> DEFINE m == Max(at \cup {0})
           T == at \cup {0}
<1>1. Len(list) \in Nat
  BY LenProperties
<1>2. T \in SUBSET (0 .. Len(list)) /\ T # {}
  BY <1>1
<1>3. m \in T /\ \A y \in T : y <= m
  <2>1. \A U \in SUBSET (0 .. Len(list)) : U # {} => Max(U) \in U /\ \A y \in U : y <= Max(U)
    BY <1>1, MaxIs
  <2> HIDE DEF T
  <2>2. Max(T) \in T /\ \A y \in T : y <= Max(T)
    BY <1>2, <2>1
  <2> QED BY <2>2 DEF T
<1>4. InsertAfterLast(list, e, at) = InsertAt(list, m + 1, e)
  BY DEF InsertAfterLast
<1> HIDE DEF m
<1>5. m \in 0 .. Len(list) /\ (m # 0 => m \in at)
  BY <1>2, <1>3
<1>6. m = 0 => at = {}
  <2>1. \A y \in at : y <= m /\ y \in 1 .. Len(list)
    BY <1>3
  <2> QED BY <1>1, <2>1
<1> QED BY <1>4, <1>5, <1>6, InsertAtIs

(* The entries that a session may have for a prefix. *)
Gone(p) == {Output(p, k) : k \in Sockets}

(* The list of a session without a prefix. *)
LEMMA RemovedIs ==
  ASSUME NEW list \in Seq(Entry), UniquePrefixes(list), Grouped(SocketsOf(list)), NEW p,
         NEW w, w = Unlinked(list, Gone(p))
  PROVE  /\ w \in Seq(Entry) /\ UniquePrefixes(w) /\ Grouped(SocketsOf(w))
         /\ \A q, k : Contains(w, Output(q, k)) <=> q # p /\ Contains(list, Output(q, k))
         /\ \A i \in 1 .. Len(w) : w[i].prefix # p
<1> DEFINE G == Gone(p)
<1>1. /\ w \in Seq(Entry) /\ UniquePrefixes(w)
      /\ \A e : Contains(w, e) <=> Contains(list, e) /\ e \notin G
  BY UnlinkedIs
<1>2. Grouped(SocketsOf(w))
  BY UnlinkedGrouped
<1>3. ASSUME NEW q, NEW k, Contains(list, Output(q, k)) PROVE Output(q, k) \in G <=> q = p
  <2>1. PICK i \in 1 .. Len(list) : list[i] = Output(q, k)
    BY <1>3 DEF Contains
  <2>2. Output(q, k) \in Entry
    BY <2>1, ElementOfSeq
  <2>3. k \in Sockets
    BY <2>2 DEF Entry, Output
  <2> QED BY <2>3 DEF Output, Gone
<1>4. \A q, k : Contains(w, Output(q, k)) <=> q # p /\ Contains(list, Output(q, k))
  <2> HIDE DEF G
  <2> QED BY <1>1, <1>3
<1>5. ASSUME NEW i \in 1 .. Len(w), w[i].prefix = p PROVE FALSE
  <2>1. Contains(w, Output(p, w[i].socket))
    BY <1>1, <1>5, ContainsIs
  <2> QED BY <1>4, <2>1
<1> QED BY <1>1, <1>2, <1>4, <1>5

(* The list of a session with a prefix put to its socket. *)
LEMMA AddedIs ==
  ASSUME NEW list \in Seq(Entry), UniquePrefixes(list), Grouped(SocketsOf(list)),
         NEW p \in MsgPrefixes, NEW k \in Sockets, \A i \in 1 .. Len(list) : list[i].prefix # p,
         NEW w, w = InsertAfterLast(list, Output(p, k), OfSocket(list, k))
  PROVE  /\ w \in Seq(Entry) /\ UniquePrefixes(w) /\ Grouped(SocketsOf(w))
         /\ \A x : Contains(w, x) <=> x = Output(p, k) \/ Contains(list, x)
<1> DEFINE e == Output(p, k)
           at == OfSocket(list, k)
<1>1. e \in Entry /\ e.prefix = p /\ e.socket = k
  BY DEF Output, Entry
<1>2. DOMAIN list = 1 .. Len(list) /\ Len(list) \in Nat
  BY LenProperties
<1>3. at \in SUBSET (1 .. Len(list)) /\ \A i : i \in at <=> i \in 1 .. Len(list) /\ list[i].socket = k
  BY <1>2 DEF OfSocket
<1> HIDE DEF e, at
<1>4. /\ w \in Seq(Entry)
      /\ \E m \in 0 .. Len(list) : Inserted(w, list, m, e) /\ (m = 0 => at = {}) /\ (m # 0 => m \in at)
  <2>1. w = InsertAfterLast(list, e, at)
    BY DEF e, at
  <2> QED BY <1>1, <1>3, <2>1, InsertAfterIs
<1>5. PICK m \in 0 .. Len(list) : Inserted(w, list, m, e) /\ (m = 0 => at = {}) /\ (m # 0 => m \in at)
  BY <1>4
<1> DEFINE ks == SocketsOf(list)
           kw == SocketsOf(w)
           ps == PrefixesOf(list)
           pw == PrefixesOf(w)
<1>6. /\ ks \in Seq(Sockets) /\ Len(ks) = Len(list) /\ kw \in Seq(Sockets) /\ Len(kw) = Len(w)
      /\ \A i \in 1 .. Len(list) : ks[i] = list[i].socket
      /\ \A i \in 1 .. Len(w) : kw[i] = w[i].socket
  BY <1>4, OutputKeys
<1>7. /\ ps \in Seq(MsgPrefixes) /\ Len(ps) = Len(list)
      /\ pw \in Seq(MsgPrefixes) /\ Len(pw) = Len(w)
      /\ \A i \in 1 .. Len(list) : ps[i] = list[i].prefix
      /\ \A i \in 1 .. Len(w) : pw[i] = w[i].prefix
      /\ IsInjective(ps) /\ (UniquePrefixes(w) <=> IsInjective(pw))
  BY <1>4, OutputKeys
<1>g. Grouped(ks)
  OBVIOUS
<1> HIDE DEF ks, kw, ps, pw
<1>8. /\ Len(w) = Len(list) + 1 /\ w[m + 1] = e /\ m + 1 \in 1 .. Len(w)
      /\ \A i \in 1 .. m : w[i] = list[i] /\ i \in 1 .. Len(w) /\ i \in 1 .. Len(list)
      /\ \A i \in m + 1 .. Len(list) :
            w[i + 1] = list[i] /\ i + 1 \in 1 .. Len(w) /\ i \in 1 .. Len(list)
  <2>1. /\ Len(w) = Len(list) + 1 /\ w[m + 1] = e
        /\ \A i \in 1 .. m : w[i] = list[i]
        /\ \A i \in m + 1 .. Len(list) : w[i + 1] = list[i]
    BY <1>5 DEF Inserted
  <2>2. m + 1 \in 1 .. Len(w)
    BY <1>2, <2>1
  <2>3. \A i \in 1 .. m : i \in 1 .. Len(w) /\ i \in 1 .. Len(list)
    BY <1>2, <2>1
  <2>4. \A i \in m + 1 .. Len(list) : i + 1 \in 1 .. Len(w) /\ i \in 1 .. Len(list)
    BY <1>2, <2>1
  <2> QED BY <2>1, <2>2, <2>3, <2>4
<1>9. Inserted(kw, ks, m, k) /\ Inserted(pw, ps, m, p)
  <2>1. kw[m + 1] = k /\ pw[m + 1] = p
    BY <1>1, <1>6, <1>7, <1>8
  <2>2. ASSUME NEW i \in 1 .. m PROVE kw[i] = ks[i] /\ pw[i] = ps[i]
    <3>1. w[i] = list[i] /\ i \in 1 .. Len(w) /\ i \in 1 .. Len(list)
      BY <1>8
    <3>2. kw[i] = w[i].socket /\ ks[i] = list[i].socket
      BY <1>6, <3>1
    <3>3. pw[i] = w[i].prefix /\ ps[i] = list[i].prefix
      BY <1>7, <3>1
    <3> QED BY <3>1, <3>2, <3>3
  <2>3. ASSUME NEW i \in m + 1 .. Len(list) PROVE kw[i + 1] = ks[i] /\ pw[i + 1] = ps[i]
    <3>1. w[i + 1] = list[i] /\ i + 1 \in 1 .. Len(w) /\ i \in 1 .. Len(list)
      BY <1>8
    <3>2. kw[i + 1] = w[i + 1].socket /\ ks[i] = list[i].socket
      BY <1>6, <3>1
    <3>3. pw[i + 1] = w[i + 1].prefix /\ ps[i] = list[i].prefix
      BY <1>7, <3>1
    <3> QED BY <3>1, <3>2, <3>3
  <2> QED BY <1>6, <1>7, <1>8, <2>1, <2>2, <2>3 DEF Inserted
<1>10. UniquePrefixes(w)
  <2>1. ~ Contains(ps, p)
    BY <1>7 DEF Contains
  <2> QED BY <1>7, <1>9, <2>1, InsertedInjective
<1>11. Grouped(kw)
  <2>1. m = 0 => ~ Contains(ks, k)
    BY <1>3, <1>5, <1>6 DEF Contains
  <2>2. m # 0 => ks[m] = k
    BY <1>3, <1>5, <1>6
  <2>3. m \in 0 .. Len(ks)
    BY <1>6
  <2> QED BY <1>6, <1>9, <1>g, <2>1, <2>2, <2>3, InsertedGrouped
<1>12. \A x : Contains(w, x) <=> x = e \/ Contains(list, x)
  BY <1>4, <1>5, InsertedContains
<1> QED BY <1>4, <1>10, <1>11, <1>12 DEF e, kw

(* at has positions of entries of s, some if there are any. *)
Among(al, at, s) ==
    /\ at \in SUBSET (1 .. Len(al)) /\ \A i \in at : al[i].connection = s
    /\ at = {} => \A i \in 1 .. Len(al) : al[i].connection # s

(* The list of a socket with a prefix of a session attached behind an      *)
(* entry of that session.                                                  *)
LEMMA AttachedIs ==
  ASSUME NEW list \in Seq(Attachments), IsInjective(list), Grouped(UsersOf(list)),
         NEW s \in Sessions, NEW p \in MsgPrefixes, ~ Contains(list, Attachment(s, p)),
         NEW at, Among(list, at, s),
         NEW w, w = InsertAfterLast(list, Attachment(s, p), at)
  PROVE  /\ w \in Seq(Attachments) /\ IsInjective(w) /\ Grouped(UsersOf(w))
         /\ \A x : Contains(w, x) <=> x = Attachment(s, p) \/ Contains(list, x)
<1>a. /\ at \in SUBSET (1 .. Len(list)) /\ \A i \in at : list[i].connection = s
      /\ at = {} => \A i \in 1 .. Len(list) : list[i].connection # s
  BY DEF Among
<1> DEFINE e == Attachment(s, p)
<1>1. e \in Attachments /\ e.connection = s /\ ~ Contains(list, e)
  BY DEF Attachment, Attachments
<1>2. Len(list) \in Nat
  BY LenProperties
<1> HIDE DEF e
<1>3. /\ w \in Seq(Attachments)
      /\ \E m \in 0 .. Len(list) : Inserted(w, list, m, e) /\ (m = 0 => at = {}) /\ (m # 0 => m \in at)
  <2>1. w = InsertAfterLast(list, e, at)
    BY DEF e
  <2> QED BY <1>1, <1>a, <2>1, InsertAfterIs
<1>4. PICK m \in 0 .. Len(list) : Inserted(w, list, m, e) /\ (m = 0 => at = {}) /\ (m # 0 => m \in at)
  BY <1>3
<1> DEFINE us == UsersOf(list)
           uw == UsersOf(w)
<1>5. /\ us \in Seq(Sessions) /\ Len(us) = Len(list) /\ uw \in Seq(Sessions) /\ Len(uw) = Len(w)
      /\ \A i \in 1 .. Len(list) : us[i] = list[i].connection
      /\ \A i \in 1 .. Len(w) : uw[i] = w[i].connection
  BY <1>3, UserKeys
<1>g. Grouped(us)
  OBVIOUS
<1> HIDE DEF us, uw
<1>6. /\ Len(w) = Len(list) + 1 /\ w[m + 1] = e /\ m + 1 \in 1 .. Len(w)
      /\ \A i \in 1 .. m : w[i] = list[i] /\ i \in 1 .. Len(w) /\ i \in 1 .. Len(list)
      /\ \A i \in m + 1 .. Len(list) :
            w[i + 1] = list[i] /\ i + 1 \in 1 .. Len(w) /\ i \in 1 .. Len(list)
  <2>1. /\ Len(w) = Len(list) + 1 /\ w[m + 1] = e
        /\ \A i \in 1 .. m : w[i] = list[i]
        /\ \A i \in m + 1 .. Len(list) : w[i + 1] = list[i]
    BY <1>4 DEF Inserted
  <2>2. m + 1 \in 1 .. Len(w)
    BY <1>2, <2>1
  <2>3. \A i \in 1 .. m : i \in 1 .. Len(w) /\ i \in 1 .. Len(list)
    BY <1>2, <2>1
  <2>4. \A i \in m + 1 .. Len(list) : i + 1 \in 1 .. Len(w) /\ i \in 1 .. Len(list)
    BY <1>2, <2>1
  <2> QED BY <2>1, <2>2, <2>3, <2>4
<1>7. Inserted(uw, us, m, s)
  <2>1. uw[m + 1] = s
    BY <1>1, <1>5, <1>6
  <2>2. ASSUME NEW i \in 1 .. m PROVE uw[i] = us[i]
    <3>1. w[i] = list[i] /\ i \in 1 .. Len(w) /\ i \in 1 .. Len(list)
      BY <1>6
    <3>2. uw[i] = w[i].connection /\ us[i] = list[i].connection
      BY <1>5, <3>1
    <3> QED BY <3>1, <3>2
  <2>3. ASSUME NEW i \in m + 1 .. Len(list) PROVE uw[i + 1] = us[i]
    <3>1. w[i + 1] = list[i] /\ i + 1 \in 1 .. Len(w) /\ i \in 1 .. Len(list)
      BY <1>6
    <3>2. uw[i + 1] = w[i + 1].connection /\ us[i] = list[i].connection
      BY <1>5, <3>1
    <3> QED BY <3>1, <3>2
  <2> QED BY <1>5, <1>6, <2>1, <2>2, <2>3 DEF Inserted
<1>8. Grouped(uw)
  <2>1. m = 0 => ~ Contains(us, s)
    BY <1>4, <1>5, <1>a DEF Contains
  <2>2. m # 0 => us[m] = s
    BY <1>4, <1>5, <1>a
  <2>3. m \in 0 .. Len(us)
    BY <1>5
  <2> QED BY <1>5, <1>7, <1>g, <2>1, <2>2, <2>3, InsertedGrouped
<1>9. IsInjective(w) /\ \A x : Contains(w, x) <=> x = e \/ Contains(list, x)
  BY <1>1, <1>3, <1>4, InsertedInjective, InsertedContains
<1> QED BY <1>3, <1>8, <1>9 DEF e, uw

-----------------------------------------------------------------------------
(* How both lists change together.                                         *)

(* Lists that contain the same entries of a prefix send it to one place. *)
LEMMA SameTarget ==
  ASSUME NEW l1 \in Seq(Entry), NEW l2 \in Seq(Entry), UniquePrefixes(l1), UniquePrefixes(l2),
         NEW q, \A k \in Sockets : Contains(l1, Output(q, k)) <=> Contains(l2, Output(q, k))
  PROVE  Target(l1, q) = Target(l2, q)
<1>1. /\ Target(l1, q) \in Sockets \cup {Forward}
      /\ \A k \in Sockets : Target(l1, q) = k <=> Contains(l1, Output(q, k))
  BY TargetIs
<1>2. /\ Target(l2, q) \in Sockets \cup {Forward}
      /\ \A k \in Sockets : Target(l2, q) = k <=> Contains(l2, Output(q, k))
  BY TargetIs
<1> QED BY <1>1, <1>2

(* What del_output does. *)
Deleted(outs, att, s, p, outs2, att2) ==
    /\ outs2 = [outs EXCEPT ![s] = Unlinked(outs[s], Gone(p))]
    /\ att2 = [k \in Sockets |-> Unlinked(att[k], {Attachment(s, p)})]

(* It keeps the invariant and sends the prefix to the main socket again. *)
LEMMA DelStep ==
  ASSUME NEW lv, NEW outs, NEW att, Sound(lv, outs, att), NEW s \in lv, NEW p \in MsgPrefixes,
         NEW outs2, NEW att2, Deleted(outs, att, s, p, outs2, att2)
  PROVE  /\ Sound(lv, outs2, att2)
         /\ \A t \in Sessions, q \in MsgPrefixes :
               Target(outs2[t], q) = IF t = s /\ q = p THEN Forward ELSE Target(outs[t], q)
<1>d. /\ outs2 = [outs EXCEPT ![s] = Unlinked(outs[s], Gone(p))]
      /\ att2 = [k \in Sockets |-> Unlinked(att[k], {Attachment(s, p)})]
  BY DEF Deleted
<1>1. /\ lv \subseteq Sessions /\ outs \in [Sessions -> Seq(Entry)]
      /\ att \in [Sockets -> Seq(Attachments)] /\ Mirrored(lv, outs, att) /\ Together(outs, att)
      /\ s \in Sessions
  BY DEF Sound
<1>2. /\ outs[s] \in Seq(Entry) /\ UniquePrefixes(outs[s]) /\ Grouped(SocketsOf(outs[s]))
  BY <1>1 DEF Mirrored, Together
<1>3. /\ \A t \in Sessions : t # s => outs2[t] = outs[t]
      /\ outs2[s] = Unlinked(outs[s], Gone(p))
      /\ DOMAIN outs2 = Sessions
      /\ outs2 = [t \in Sessions |-> outs2[t]]
  BY <1>1, <1>d
<1>4. /\ outs2[s] \in Seq(Entry) /\ UniquePrefixes(outs2[s]) /\ Grouped(SocketsOf(outs2[s]))
      /\ \A q, k : Contains(outs2[s], Output(q, k)) <=> q # p /\ Contains(outs[s], Output(q, k))
      /\ \A i \in 1 .. Len(outs2[s]) : outs2[s][i].prefix # p
  <2> DEFINE list == outs[s]
             w == outs2[s]
  <2>1. /\ list \in Seq(Entry) /\ UniquePrefixes(list) /\ Grouped(SocketsOf(list))
        /\ w = Unlinked(list, Gone(p))
    BY <1>2, <1>3
  <2> HIDE DEF list, w
  <2>2. /\ w \in Seq(Entry) /\ UniquePrefixes(w) /\ Grouped(SocketsOf(w))
        /\ \A q, k : Contains(w, Output(q, k)) <=> q # p /\ Contains(list, Output(q, k))
        /\ \A i \in 1 .. Len(w) : w[i].prefix # p
    BY <2>1, RemovedIs
  <2> QED BY <2>2 DEF list, w
<1>5. outs2 \in [Sessions -> Seq(Entry)]
  <2>1. \A t \in Sessions : outs2[t] \in Seq(Entry)
    BY <1>1, <1>3, <1>4
  <2> QED BY <1>3, <2>1, Zenon
<1>6. ASSUME NEW k \in Sockets
      PROVE  /\ att2[k] \in Seq(Attachments) /\ IsInjective(att2[k]) /\ Grouped(UsersOf(att2[k]))
             /\ \A e : Contains(att2[k], e) <=> Contains(att[k], e) /\ e # Attachment(s, p)
  <2>1. att[k] \in Seq(Attachments) /\ IsInjective(att[k]) /\ Grouped(UsersOf(att[k]))
    BY <1>1 DEF Mirrored, Together
  <2>2. att2[k] = Unlinked(att[k], {Attachment(s, p)})
    BY <1>d
  <2>3. /\ att2[k] \in Seq(Attachments) /\ IsInjective(att2[k])
        /\ \A e : Contains(att2[k], e) <=> Contains(att[k], e) /\ e \notin {Attachment(s, p)}
    BY <2>1, <2>2, UnlinkedIs
  <2>4. Grouped(UsersOf(att2[k]))
    BY <2>1, <2>2, UnlinkedGrouped
  <2> QED BY <2>3, <2>4
<1>7. att2 \in [Sockets -> Seq(Attachments)]
  BY <1>6, <1>d
<1>8. ASSUME NEW t \in Sessions, NEW q \in MsgPrefixes, NEW k \in Sockets
      PROVE  Contains(outs2[t], Output(q, k)) <=> Contains(att2[k], Attachment(t, q))
  <2>1. Contains(outs[t], Output(q, k)) <=> Contains(att[k], Attachment(t, q))
    BY <1>1 DEF Mirrored
  <2>2. Attachment(t, q) = Attachment(s, p) <=> t = s /\ q = p
    BY DEF Attachment
  <2> QED BY <1>3, <1>4, <1>6, <2>1, <2>2
<1>9. \A t \in Sessions : UniquePrefixes(outs2[t]) /\ Grouped(SocketsOf(outs2[t]))
  BY <1>1, <1>3, <1>4 DEF Mirrored, Together
<1>10. \A t \in Sessions \ lv : outs2[t] = << >>
  BY <1>1, <1>3 DEF Mirrored
<1>11. Mirrored(lv, outs2, att2) /\ Together(outs2, att2)
  BY <1>6, <1>8, <1>9, <1>10 DEF Mirrored, Together
<1>12. ASSUME NEW t \in Sessions, NEW q \in MsgPrefixes
       PROVE  Target(outs2[t], q) = IF t = s /\ q = p THEN Forward ELSE Target(outs[t], q)
  <2>1. CASE t = s /\ q = p
    <3> DEFINE w == outs2[s]
    <3>1. w \in Seq(Entry) /\ UniquePrefixes(w) /\ \A i \in 1 .. Len(w) : w[i].prefix # p
      BY <1>4
    <3> HIDE DEF w
    <3>2. Target(w, p) = Forward
      BY <3>1, TargetIs
    <3> QED BY <2>1, <3>2 DEF w
  <2>2. CASE t = s /\ q # p
    <3>1. Target(outs2[s], q) = Target(outs[s], q)
      BY <1>2, <1>4, <2>2, SameTarget
    <3> QED BY <2>2, <3>1
  <2>3. CASE t # s
    BY <1>3, <2>3
  <2> QED BY <2>1, <2>2, <2>3
<1> QED BY <1>1, <1>5, <1>7, <1>11, <1>12 DEF Sound

(* Where a socket's list has the last entry of s for it. *)
Prev(list, al, s, k) ==
    {i \in DOMAIN al : \E j \in OfSocket(list, k) :
        /\ j = Max(OfSocket(list, k))
        /\ al[i] = Attachment(s, list[j].prefix)}

(* prev_output is an entry of the session, and there is one if the session *)
(* has any for the socket.                                                 *)
LEMMA PrevIs ==
  ASSUME NEW lv, NEW outs, NEW att, Sound(lv, outs, att), NEW s \in Sessions, NEW k \in Sockets,
         NEW at, at = Prev(outs[s], att[k], s, k)
  PROVE  Among(att[k], at, s)
<1>1. /\ outs[s] \in Seq(Entry) /\ att[k] \in Seq(Attachments) /\ Mirrored(lv, outs, att)
  BY DEF Sound
<1> DEFINE list == outs[s]
           al == att[k]
           T == OfSocket(list, k)
<1>2. /\ DOMAIN al = 1 .. Len(al) /\ DOMAIN list = 1 .. Len(list) /\ Len(list) \in Nat
  BY <1>1, LenProperties
<1>3. T \in SUBSET (0 .. Len(list)) /\ \A j : j \in T <=> j \in 1 .. Len(list) /\ list[j].socket = k
  BY <1>2 DEF OfSocket
<1>4. /\ at \in SUBSET (1 .. Len(al))
      /\ \A i \in 1 .. Len(al) :
            i \in at <=> \E j \in T : j = Max(T) /\ al[i] = Attachment(s, list[j].prefix)
  BY <1>2 DEF Prev
<1>5. \A q : Attachment(s, q).connection = s
  BY DEF Attachment
<1> HIDE DEF T
<1>6. \A i \in at : al[i].connection = s
  <2> SUFFICES ASSUME NEW i \in at PROVE al[i].connection = s
    OBVIOUS
  <2>1. PICK j \in T : al[i] = Attachment(s, list[j].prefix)
    BY <1>4
  <2> QED BY <1>5, <2>1
<1>7. ASSUME at = {}, NEW i \in 1 .. Len(al), al[i].connection = s PROVE FALSE
  <2>1. al[i] \in Attachments
    BY <1>1, ElementOfSeq
  <2>2. al[i].prefix \in MsgPrefixes
    BY <2>1 DEF Attachments
  <2>3. Contains(al, Attachment(s, al[i].prefix))
    BY <1>1, <1>7, ContainsIs
  <2>4. Contains(list, Output(al[i].prefix, k))
    BY <1>1, <2>2, <2>3 DEF Mirrored
  <2>5. T # {}
    BY <1>1, <1>3, <2>4, ContainsIs
  <2>6. Max(T) \in T
    <3>1. \A U \in SUBSET (0 .. Len(list)) : U # {} => Max(U) \in U
      BY <1>2, MaxIs
    <3> QED BY <1>3, <2>5, <3>1
  <2> DEFINE j == Max(T)
  <2>7. j \in T /\ j \in 1 .. Len(list) /\ list[j].socket = k
    BY <1>3, <2>6
  <2> HIDE DEF j
  <2>8. list[j] \in Entry
    BY <1>1, <2>7, ElementOfSeq
  <2>9. list[j].prefix \in MsgPrefixes
    BY <2>8 DEF Entry
  <2>10. Contains(list, Output(list[j].prefix, k))
    BY <1>1, <2>7, ContainsIs
  <2>11. Contains(al, Attachment(s, list[j].prefix))
    BY <1>1, <2>9, <2>10 DEF Mirrored
  <2>12. PICK n \in 1 .. Len(al) : al[n] = Attachment(s, list[j].prefix)
    BY <2>11 DEF Contains
  <2>13. n \in at
    BY <1>4, <2>7, <2>12 DEF j
  <2> QED BY <1>7, <2>13
<1> QED BY <1>4, <1>6, <1>7 DEF Among

(* What add_output does. *)
Added(outs, att, s, p, k, rest, outs2, att2) ==
    /\ rest = Unlinked(outs[s], Gone(p))
    /\ outs2 = [outs EXCEPT ![s] = InsertAfterLast(rest, Output(p, k), OfSocket(rest, k))]
    /\ att2 = [j \in Sockets |->
          IF j = k THEN InsertAfterLast(att[k], Attachment(s, p), Prev(outs[s], att[k], s, k))
          ELSE Unlinked(att[j], {Attachment(s, p)})]

(* It keeps the invariant and sends the prefix to the socket. *)
LEMMA AddStep ==
  ASSUME NEW lv, NEW outs, NEW att, Sound(lv, outs, att), NEW s \in lv, NEW p \in MsgPrefixes,
         NEW k \in Sockets, ~ Contains(outs[s], Output(p, k)),
         NEW rest, NEW outs2, NEW att2, Added(outs, att, s, p, k, rest, outs2, att2)
  PROVE  /\ Sound(lv, outs2, att2)
         /\ \A t \in Sessions, q \in MsgPrefixes :
               Target(outs2[t], q) = IF t = s /\ q = p THEN k ELSE Target(outs[t], q)
<1>d. /\ rest = Unlinked(outs[s], Gone(p))
      /\ outs2 = [outs EXCEPT ![s] = InsertAfterLast(rest, Output(p, k), OfSocket(rest, k))]
      /\ att2 = [j \in Sockets |->
            IF j = k THEN InsertAfterLast(att[k], Attachment(s, p), Prev(outs[s], att[k], s, k))
            ELSE Unlinked(att[j], {Attachment(s, p)})]
  BY DEF Added
<1>1. /\ lv \subseteq Sessions /\ outs \in [Sessions -> Seq(Entry)]
      /\ att \in [Sockets -> Seq(Attachments)] /\ Mirrored(lv, outs, att) /\ Together(outs, att)
      /\ s \in Sessions
  BY DEF Sound
<1>2. /\ outs[s] \in Seq(Entry) /\ UniquePrefixes(outs[s]) /\ Grouped(SocketsOf(outs[s]))
  BY <1>1 DEF Mirrored, Together
<1>3. /\ \A t \in Sessions : t # s => outs2[t] = outs[t]
      /\ outs2[s] = InsertAfterLast(rest, Output(p, k), OfSocket(rest, k))
      /\ DOMAIN outs2 = Sessions
      /\ outs2 = [t \in Sessions |-> outs2[t]]
  BY <1>1, <1>d
<1> DEFINE list == outs[s]
           new == outs2[s]
<1>4. /\ rest \in Seq(Entry) /\ UniquePrefixes(rest) /\ Grouped(SocketsOf(rest))
      /\ \A q, j : Contains(rest, Output(q, j)) <=> q # p /\ Contains(list, Output(q, j))
      /\ \A i \in 1 .. Len(rest) : rest[i].prefix # p
  <2>1. /\ list \in Seq(Entry) /\ UniquePrefixes(list) /\ Grouped(SocketsOf(list))
        /\ rest = Unlinked(list, Gone(p))
    BY <1>2, <1>d
  <2> HIDE DEF list
  <2> QED BY <2>1, RemovedIs
<1>5. /\ new \in Seq(Entry) /\ UniquePrefixes(new) /\ Grouped(SocketsOf(new))
      /\ \A x : Contains(new, x) <=> x = Output(p, k) \/ Contains(rest, x)
  <2>1. new = InsertAfterLast(rest, Output(p, k), OfSocket(rest, k))
    BY <1>3
  <2> HIDE DEF new
  <2> QED BY <1>4, <2>1, AddedIs
<1>6. \A q, j : Contains(new, Output(q, j)) <=>
                  (q = p /\ j = k) \/ (q # p /\ Contains(list, Output(q, j)))
  <2>1. \A q, j : Output(q, j) = Output(p, k) <=> q = p /\ j = k
    BY DEF Output
  <2> HIDE DEF new, list
  <2> QED BY <1>4, <1>5, <2>1
<1>7. outs2 \in [Sessions -> Seq(Entry)]
  <2>1. \A t \in Sessions : outs2[t] \in Seq(Entry)
    BY <1>1, <1>3, <1>5
  <2> QED BY <1>3, <2>1, Zenon
<1>8. ASSUME NEW j \in Sockets
      PROVE  /\ att2[j] \in Seq(Attachments) /\ IsInjective(att2[j]) /\ Grouped(UsersOf(att2[j]))
             /\ \A e : Contains(att2[j], e) <=> \/ j = k /\ (e = Attachment(s, p) \/ Contains(att[j], e))
                                                \/ j # k /\ Contains(att[j], e) /\ e # Attachment(s, p)
  <2> DEFINE al == att[j]
             w == att2[j]
  <2>1. al \in Seq(Attachments) /\ IsInjective(al) /\ Grouped(UsersOf(al))
    BY <1>1 DEF Mirrored, Together
  <2>2. CASE j = k
    <3> DEFINE at == Prev(outs[s], att[k], s, k)
    <3>1. Among(al, at, s)
      BY <1>1, <2>2, PrevIs
    <3>2. ~ Contains(al, Attachment(s, p))
      BY <1>1, <2>2 DEF Mirrored
    <3>3. w = InsertAfterLast(al, Attachment(s, p), at)
      BY <1>d, <2>2
    <3> HIDE DEF al, w, at
    <3>4. /\ w \in Seq(Attachments) /\ IsInjective(w) /\ Grouped(UsersOf(w))
          /\ \A x : Contains(w, x) <=> x = Attachment(s, p) \/ Contains(al, x)
      BY <1>1, <2>1, <3>1, <3>2, <3>3, AttachedIs
    <3> QED BY <2>2, <3>4 DEF al, w
  <2>3. CASE j # k
    <3>1. w = Unlinked(al, {Attachment(s, p)})
      BY <1>d, <2>3
    <3> HIDE DEF al, w
    <3>2. /\ w \in Seq(Attachments) /\ IsInjective(w)
          /\ \A e : Contains(w, e) <=> Contains(al, e) /\ e \notin {Attachment(s, p)}
      BY <2>1, <3>1, UnlinkedIs
    <3>3. Grouped(UsersOf(w))
      BY <2>1, <3>1, UnlinkedGrouped
    <3> QED BY <2>3, <3>2, <3>3 DEF al, w
  <2> QED BY <2>2, <2>3
<1>9. att2 \in [Sockets -> Seq(Attachments)]
  BY <1>8, <1>d
<1>10. ASSUME NEW t \in Sessions, NEW q \in MsgPrefixes, NEW j \in Sockets
       PROVE  Contains(outs2[t], Output(q, j)) <=> Contains(att2[j], Attachment(t, q))
  <2>1. Contains(outs[t], Output(q, j)) <=> Contains(att[j], Attachment(t, q))
    BY <1>1 DEF Mirrored
  <2>2. Attachment(t, q) = Attachment(s, p) <=> t = s /\ q = p
    BY DEF Attachment
  <2>3. Contains(att2[j], Attachment(t, q)) <=>
          \/ j = k /\ ((t = s /\ q = p) \/ Contains(outs[t], Output(q, j)))
          \/ j # k /\ Contains(outs[t], Output(q, j)) /\ ~ (t = s /\ q = p)
    BY <1>8, <2>1, <2>2
  <2>4. CASE t = s
    BY <1>6, <2>3, <2>4
  <2>5. CASE t # s
    BY <1>3, <2>3, <2>5
  <2> QED BY <2>4, <2>5
<1>11. \A t \in Sessions : UniquePrefixes(outs2[t]) /\ Grouped(SocketsOf(outs2[t]))
  BY <1>1, <1>3, <1>5 DEF Mirrored, Together
<1>12. \A t \in Sessions \ lv : outs2[t] = << >>
  BY <1>1, <1>3 DEF Mirrored
<1>13. Mirrored(lv, outs2, att2) /\ Together(outs2, att2)
  BY <1>8, <1>10, <1>11, <1>12 DEF Mirrored, Together
<1>14. ASSUME NEW t \in Sessions, NEW q \in MsgPrefixes
       PROVE  Target(outs2[t], q) = IF t = s /\ q = p THEN k ELSE Target(outs[t], q)
  <2>1. CASE t = s /\ q = p
    <3>1. Contains(new, Output(p, k))
      BY <1>6
    <3> HIDE DEF new
    <3>2. Target(new, p) = k
      BY <1>5, <3>1, TargetIs
    <3> QED BY <2>1, <3>2 DEF new
  <2>2. CASE t = s /\ q # p
    <3>1. \A j \in Sockets : Contains(new, Output(q, j)) <=> Contains(list, Output(q, j))
      BY <1>6, <2>2
    <3>2. list \in Seq(Entry) /\ UniquePrefixes(list)
      BY <1>2
    <3> HIDE DEF new, list
    <3>3. Target(new, q) = Target(list, q)
      BY <1>5, <3>1, <3>2, SameTarget
    <3> QED BY <2>2, <3>3 DEF new, list
  <2>3. CASE t # s
    BY <1>3, <2>3
  <2> QED BY <2>1, <2>2, <2>3
<1> QED BY <1>1, <1>7, <1>9, <1>13, <1>14 DEF Sound

(* The entries that the sockets may have for a session. *)
GoneOf(s) == {Attachment(s, p) : p \in MsgPrefixes}

(* What hybi_stop does. *)
Stopped(outs, att, s, outs2, att2) ==
    /\ outs2 = [outs EXCEPT ![s] = << >>]
    /\ att2 = [k \in Sockets |-> Unlinked(att[k], GoneOf(s))]

(* It keeps the invariant and sends the session's prefixes nowhere else. *)
LEMMA StopStep ==
  ASSUME NEW lv, NEW outs, NEW att, Sound(lv, outs, att), NEW s \in lv,
         NEW outs2, NEW att2, Stopped(outs, att, s, outs2, att2)
  PROVE  /\ Sound(lv \ {s}, outs2, att2)
         /\ \A t \in Sessions, q \in MsgPrefixes :
               Target(outs2[t], q) = IF t = s THEN Forward ELSE Target(outs[t], q)
<1>d. /\ outs2 = [outs EXCEPT ![s] = << >>]
      /\ att2 = [k \in Sockets |-> Unlinked(att[k], GoneOf(s))]
  BY DEF Stopped
<1>1. /\ lv \subseteq Sessions /\ outs \in [Sessions -> Seq(Entry)]
      /\ att \in [Sockets -> Seq(Attachments)] /\ Mirrored(lv, outs, att) /\ Together(outs, att)
      /\ s \in Sessions
  BY DEF Sound
<1>2. /\ \A t \in Sessions : t # s => outs2[t] = outs[t]
      /\ outs2[s] = << >>
      /\ outs2 \in [Sessions -> Seq(Entry)]
  BY <1>1, <1>d
<1>3. /\ UniquePrefixes(<< >>) /\ Grouped(SocketsOf(<< >>)) /\ \A e : ~ Contains(<< >>, e)
      /\ \A q : Target(<< >>, q) = Forward
  BY DEF UniquePrefixes, Grouped, SocketsOf, Contains, Target
<1>4. ASSUME NEW k \in Sockets
      PROVE  /\ att2[k] \in Seq(Attachments) /\ IsInjective(att2[k]) /\ Grouped(UsersOf(att2[k]))
             /\ \A e : Contains(att2[k], e) <=> Contains(att[k], e) /\ e \notin GoneOf(s)
  <2>1. att[k] \in Seq(Attachments) /\ IsInjective(att[k]) /\ Grouped(UsersOf(att[k]))
    BY <1>1 DEF Mirrored, Together
  <2>2. att2[k] = Unlinked(att[k], GoneOf(s))
    BY <1>d
  <2>3. /\ att2[k] \in Seq(Attachments) /\ IsInjective(att2[k])
        /\ \A e : Contains(att2[k], e) <=> Contains(att[k], e) /\ e \notin GoneOf(s)
    BY <2>1, <2>2, UnlinkedIs
  <2>4. Grouped(UsersOf(att2[k]))
    BY <2>1, <2>2, UnlinkedGrouped
  <2> QED BY <2>3, <2>4
<1>5. att2 \in [Sockets -> Seq(Attachments)]
  BY <1>4, <1>d
<1>6. ASSUME NEW t \in Sessions, NEW q \in MsgPrefixes, NEW k \in Sockets
      PROVE  Contains(outs2[t], Output(q, k)) <=> Contains(att2[k], Attachment(t, q))
  <2>1. Contains(outs[t], Output(q, k)) <=> Contains(att[k], Attachment(t, q))
    BY <1>1 DEF Mirrored
  <2>2. Attachment(t, q) \in GoneOf(s) <=> t = s
    BY DEF Attachment, GoneOf
  <2> QED BY <1>2, <1>3, <1>4, <2>1, <2>2
<1>7. \A t \in Sessions : UniquePrefixes(outs2[t]) /\ Grouped(SocketsOf(outs2[t]))
  BY <1>1, <1>2, <1>3 DEF Mirrored, Together
<1>8. \A t \in Sessions \ (lv \ {s}) : outs2[t] = << >>
  BY <1>1, <1>2 DEF Mirrored
<1>9. Mirrored(lv \ {s}, outs2, att2) /\ Together(outs2, att2)
  BY <1>4, <1>6, <1>7, <1>8 DEF Mirrored, Together
<1>10. \A t \in Sessions, q \in MsgPrefixes :
          Target(outs2[t], q) = IF t = s THEN Forward ELSE Target(outs[t], q)
  BY <1>2, <1>3
<1> QED BY <1>1, <1>2, <1>5, <1>9, <1>10 DEF Sound

-----------------------------------------------------------------------------
(* Every step keeps the invariant and is a step of OutputTable.            *)

(* The invariant before and after a step, and what the runs check. *)
LEMMA InvIs ==
  /\ OutputsInv <=> /\ Sound(live, outputs, attached)
                    /\ cookie \in [Sessions -> Cookies \cup {NoCookie}]
                    /\ sent.kind \in {"nothing", "disconnect", "sync", "message"}
  /\ OutputsInv' <=> /\ Sound(live', outputs', attached')
                     /\ cookie' \in [Sessions -> Cookies \cup {NoCookie}]
                     /\ sent'.kind \in {"nothing", "disconnect", "sync", "message"}
<1>1. OutputsInv' <=> /\ Sound(live', outputs', attached')
                      /\ cookie' \in [Sessions -> Cookies \cup {NoCookie}]
                      /\ sent'.kind \in {"nothing", "disconnect", "sync", "message"}
  BY DEF OutputsInv, Sound, Mirrored, Together, Grouped, SocketsOf, UsersOf, UniquePrefixes,
         Contains, IsInjective, Output, Attachment
<1> QED BY <1>1 DEF OutputsInv

(* The invariants of the runs follow from it. *)
LEMMA PropertiesAre == OutputsInv => RunsGrouped /\ ListsMirror
BY DEF OutputsInv, Sound, Mirrored, Together, SocketsOf, UsersOf, UniquePrefixes,
       RunsGrouped, ListsMirror, TypeOK, Entry, Attachments

(* What the parts of the invariant say. *)
LEMMA Parts ==
  ASSUME OutputsInv
  PROVE  /\ Sound(live, outputs, attached) /\ live \subseteq Sessions
         /\ outputs \in [Sessions -> Seq(Entry)] /\ attached \in [Sockets -> Seq(Attachments)]
         /\ cookie \in [Sessions -> Cookies \cup {NoCookie}]
         /\ Mirrored(live, outputs, attached) /\ Together(outputs, attached)
         /\ \A s \in Sessions : /\ outputs[s] \in Seq(Entry) /\ UniquePrefixes(outputs[s])
                                /\ Grouped(SocketsOf(outputs[s]))
BY InvIs DEF Sound, Mirrored, Together

(* A step that the mapping shows as a step of OutputTable, or as none. *)
Refines == Table!TNext \/ UNCHANGED <<live, Mapping, cookie, sent>>

(* The sockets that a session is attached to are the ones in its list. *)
LEMMA AttachedSockets ==
  ASSUME NEW list \in Seq(Entry), UniquePrefixes(list)
  PROVE  ToSet(SocketsOf(list)) = {Target(list, p) : p \in MsgPrefixes} \ {Forward}
<1>1. DOMAIN list = 1 .. Len(list) /\ \A i \in 1 .. Len(list) : list[i] \in Entry
  BY LenProperties, ElementOfSeq
<1>2. \A i \in 1 .. Len(list) : list[i].prefix \in MsgPrefixes /\ list[i].socket \in Sockets
  BY <1>1 DEF Entry
<1>3. \A p \in MsgPrefixes :
         /\ Target(list, p) = Forward <=> \A i \in 1 .. Len(list) : list[i].prefix # p
         /\ \A i \in 1 .. Len(list) : list[i].prefix = p => Target(list, p) = list[i].socket
  BY TargetIs
<1>4. ToSet(SocketsOf(list)) = {list[i].socket : i \in 1 .. Len(list)}
  BY <1>1 DEF ToSet, SocketsOf
<1>5. ASSUME NEW i \in 1 .. Len(list)
      PROVE  list[i].socket \in {Target(list, p) : p \in MsgPrefixes} \ {Forward}
  BY <1>2, <1>3, ForwardAssumption
<1>6. ASSUME NEW p \in MsgPrefixes, Target(list, p) # Forward
      PROVE  \E i \in 1 .. Len(list) : Target(list, p) = list[i].socket
  BY <1>3, <1>6
<1> QED BY <1>4, <1>5, <1>6

(* A session connects. *)
LEMMA StartRefines ==
  ASSUME OutputsInv, NEW s \in Sessions, hybi_start(s)
  PROVE  OutputsInv' /\ Refines
<1>1. /\ s \notin live /\ live' = live \cup {s} /\ outputs' = [outputs EXCEPT ![s] = << >>]
      /\ cookie' = [cookie EXCEPT ![s] = NoCookie] /\ sent' = Nothing /\ attached' = attached
  BY DEF hybi_start
<1>2. outputs[s] = << >>
  BY <1>1, Parts DEF Mirrored
<1>3. outputs' = outputs
  BY <1>1, <1>2, Parts
<1>4. Sound(live', outputs', attached')
  BY <1>1, <1>3, Parts DEF Sound, Mirrored
<1>5. sent'.kind = "nothing"
  BY <1>1 DEF Nothing
<1>6. OutputsInv'
  BY <1>1, <1>4, <1>5, InvIs, Parts
<1>7. \A q : Target(<< >>, q) = Forward
  BY DEF Target
<1>8. Mapping' = [Mapping EXCEPT ![s] = [q \in MsgPrefixes |-> Forward]]
  <2>1. \A t \in Sessions, q \in MsgPrefixes :
          Target(outputs'[t], q) = IF t = s THEN Forward ELSE Target(outputs[t], q)
    BY <1>2, <1>3, <1>7
  <2> QED BY <2>1, MappingIs
<1>9. Table!Enter(s)
  BY <1>1, <1>5, <1>8 DEF Table!Enter, Table!Empty
<1> QED BY <1>6, <1>9 DEF Refines, Table!TNext

(* A session ends. *)
LEMMA StopRefines ==
  ASSUME OutputsInv, NEW s \in Sessions, hybi_stop(s)
  PROVE  OutputsInv' /\ Refines
<1> DEFINE list == outputs[s]
           to == Kept(SocketsOf(list), LastOfRuns(SocketsOf(list)))
<1>1. /\ s \in live /\ live' = live \ {s} /\ outputs' = [outputs EXCEPT ![s] = << >>]
      /\ cookie' = [cookie EXCEPT ![s] = NoCookie] /\ sent' = Disconnects(s, to)
      /\ attached' = [k \in Sockets |-> Unlinked(attached[k], GoneOf(s))]
  BY DEF hybi_stop, SocketsOf, GoneOf
<1>2. list \in Seq(Entry) /\ UniquePrefixes(list) /\ Grouped(SocketsOf(list))
  BY Parts
<1>3. /\ Sound(live', outputs', attached')
      /\ \A t \in Sessions, q \in MsgPrefixes :
            Target(outputs'[t], q) = IF t = s THEN Forward ELSE Target(outputs[t], q)
  <2>1. Stopped(outputs, attached, s, outputs', attached')
    BY <1>1 DEF Stopped
  <2>2. Sound(live, outputs, attached) /\ s \in live /\ live' = live \ {s}
    BY <1>1, Parts
  <2> QED BY <2>1, <2>2, StopStep
<1>4. IsInjective(to) /\ ToSet(to) = {Target(list, p) : p \in MsgPrefixes} \ {Forward}
  <2> HIDE DEF list
  <2>1. SocketsOf(list) \in Seq(Sockets)
    BY <1>2, OutputKeys
  <2>2. IsInjective(to) /\ ToSet(to) = ToSet(SocketsOf(list))
    BY <1>2, <2>1, LastOfRunsIs
  <2> QED BY <1>2, <2>2, AttachedSockets
<1> HIDE DEF to
<1>5. sent'.kind = "disconnect" /\ sent'.hybi = s /\ sent'.cookie = cookie[s] /\ sent'.to = to
  BY <1>1 DEF Disconnects
<1>6. OutputsInv'
  BY <1>1, <1>3, <1>5, InvIs, Parts
<1>7. Mapping' = [Mapping EXCEPT ![s] = [q \in MsgPrefixes |-> Forward]]
  BY <1>3, MappingIs
<1>8. Table!Attached(s) = {Target(list, p) : p \in MsgPrefixes} \ {Forward}
  BY MappingIs DEF Table!Attached
<1>9. Table!Lists(to, Table!Attached(s))
  BY <1>4, <1>8 DEF Table!Lists, Table!ToSet, Table!IsInjective, ToSet, IsInjective
<1>10. Table!Leave(s)
  BY <1>1, <1>5, <1>7, <1>9 DEF Table!Leave, Table!Empty
<1> QED BY <1>6, <1>10 DEF Refines, Table!TNext

(* set_cookie. *)
LEMMA CookieRefines ==
  ASSUME OutputsInv, NEW s \in Sessions, NEW c \in Cookies, set_cookie(s, c)
  PROVE  OutputsInv' /\ Refines
<1>1. /\ s \in live /\ cookie' = [cookie EXCEPT ![s] = c] /\ sent' = Nothing
      /\ live' = live /\ outputs' = outputs /\ attached' = attached
  BY DEF set_cookie
<1>2. sent'.kind = "nothing"
  BY <1>1 DEF Nothing
<1>3. OutputsInv'
  BY <1>1, <1>2, InvIs, Parts
<1>4. Mapping' = Mapping
  BY <1>1, MappingIs
<1>5. Table!Mark(s, c)
  BY <1>1, <1>2, <1>4 DEF Table!Mark
<1> QED BY <1>3, <1>5 DEF Refines, Table!TNext

(* add_output. *)
LEMMA AddRefines ==
  ASSUME OutputsInv, NEW s \in Sessions, NEW p \in MsgPrefixes, NEW k \in Sockets, add_output(s, p, k)
  PROVE  OutputsInv' /\ Refines
<1> DEFINE list == outputs[s]
           rest == Unlinked(list, Gone(p))
<1>1. /\ s \in live /\ ~ (HasPrefix(s, p) /\ SocketOf(s, p) = k)
      /\ outputs' = [outputs EXCEPT ![s] = InsertAfterLast(rest, Output(p, k), OfSocket(rest, k))]
      /\ attached' = [j \in Sockets |->
             IF j = k THEN InsertAfterLast(attached[k], Attachment(s, p), Prev(list, attached[k], s, k))
             ELSE Unlinked(attached[j], {Attachment(s, p)})]
      /\ sent' = Nothing /\ live' = live /\ cookie' = cookie
  BY DEF add_output, OutputsWithout, AttachedWithout, PrevOutput, Prev, Gone
<1>2. ~ Contains(list, Output(p, k))
  <2>1. list \in Seq(Entry) /\ UniquePrefixes(list)
    BY Parts
  <2>2. Target(list, p) = k => HasPrefix(s, p) /\ SocketOf(s, p) = k
    BY ForwardAssumption DEF Target, HasPrefix, SocketOf
  <2> HIDE DEF list
  <2> QED BY <1>1, <2>1, <2>2, TargetIs
<1>3. /\ Sound(live', outputs', attached')
      /\ \A t \in Sessions, q \in MsgPrefixes :
            Target(outputs'[t], q) = IF t = s /\ q = p THEN k ELSE Target(outputs[t], q)
  <2>1. Added(outputs, attached, s, p, k, rest, outputs', attached')
    BY <1>1 DEF Added
  <2>2. Sound(live, outputs, attached) /\ s \in live /\ live' = live
    BY <1>1, Parts
  <2>3. ~ Contains(outputs[s], Output(p, k))
    BY <1>2
  <2> HIDE DEF rest, list
  <2> QED BY <2>1, <2>2, <2>3, AddStep
<1>4. sent'.kind = "nothing"
  BY <1>1 DEF Nothing
<1>5. OutputsInv'
  BY <1>1, <1>3, <1>4, InvIs, Parts
<1>6. Mapping' = [Mapping EXCEPT ![s][p] = k]
  BY <1>3, MappingIs
<1>7. Table!Map(s, p, k)
  BY <1>1, <1>4, <1>6 DEF Table!Map
<1> QED BY <1>5, <1>7 DEF Refines, Table!TNext

(* del_output. *)
LEMMA DelRefines ==
  ASSUME OutputsInv, NEW s \in Sessions, NEW p \in MsgPrefixes, del_output(s, p)
  PROVE  OutputsInv' /\ Refines
<1>1. /\ s \in live /\ outputs' = [outputs EXCEPT ![s] = Unlinked(outputs[s], Gone(p))]
      /\ attached' = [j \in Sockets |-> Unlinked(attached[j], {Attachment(s, p)})]
      /\ sent' = Nothing /\ live' = live /\ cookie' = cookie
  BY DEF del_output, OutputsWithout, AttachedWithout, Gone
<1>2. /\ Sound(live', outputs', attached')
      /\ \A t \in Sessions, q \in MsgPrefixes :
            Target(outputs'[t], q) = IF t = s /\ q = p THEN Forward ELSE Target(outputs[t], q)
  <2>1. Deleted(outputs, attached, s, p, outputs', attached')
    BY <1>1 DEF Deleted
  <2>2. Sound(live, outputs, attached) /\ s \in live /\ live' = live
    BY <1>1, Parts
  <2> QED BY <2>1, <2>2, DelStep
<1>3. sent'.kind = "nothing"
  BY <1>1 DEF Nothing
<1>4. OutputsInv'
  BY <1>1, <1>2, <1>3, InvIs, Parts
<1>5. Mapping' = [Mapping EXCEPT ![s][p] = Forward]
  BY <1>2, MappingIs
<1>6. Table!Map(s, p, Forward)
  BY <1>1, <1>3, <1>5 DEF Table!Map
<1> QED BY <1>4, <1>6 DEF Refines, Table!TNext

(* Who is attached to a socket, by the two lists. *)
LEMMA AttachedUsers ==
  ASSUME OutputsInv, NEW k \in Sockets
  PROVE  /\ UsersOf(attached[k]) \in Seq(Sessions)
         /\ ToSet(UsersOf(attached[k])) = {t \in Sessions : k \in Table!Attached(t)}
<1> DEFINE al == attached[k]
<1>1. al \in Seq(Attachments)
  BY Parts
<1>2. /\ UsersOf(al) \in Seq(Sessions) /\ Len(UsersOf(al)) = Len(al)
      /\ \A i \in 1 .. Len(al) : UsersOf(al)[i] = al[i].connection
  BY <1>1, UserKeys
<1>3. DOMAIN UsersOf(al) = 1 .. Len(al)
  BY <1>2, LenProperties
<1>4. ASSUME NEW t \in Sessions
      PROVE  k \in Table!Attached(t) <=> \E p \in MsgPrefixes : Contains(al, Attachment(t, p))
  <2> DEFINE list == outputs[t]
  <2>1. list \in Seq(Entry) /\ UniquePrefixes(list)
    BY Parts
  <2>2. Table!Attached(t) = {Target(list, p) : p \in MsgPrefixes} \ {Forward}
    BY MappingIs DEF Table!Attached
  <2>3. \A p \in MsgPrefixes : Contains(list, Output(p, k)) <=> Contains(al, Attachment(t, p))
    BY Parts DEF Mirrored
  <2> HIDE DEF list
  <2>4. \A p \in MsgPrefixes : Target(list, p) = k <=> Contains(list, Output(p, k))
    BY <2>1, TargetIs
  <2> QED BY <2>2, <2>3, <2>4, ForwardAssumption
<1>5. ASSUME NEW t \in Sessions
      PROVE  (\E p \in MsgPrefixes : Contains(al, Attachment(t, p)))
                <=> \E i \in 1 .. Len(al) : al[i].connection = t
  <2>1. \A i \in 1 .. Len(al) : al[i] \in Attachments
    BY <1>1, ElementOfSeq
  <2>2. \A i \in 1 .. Len(al) : al[i].prefix \in MsgPrefixes
    BY <2>1 DEF Attachments
  <2>3. \A p : Contains(al, Attachment(t, p)) <=>
                 \E i \in 1 .. Len(al) : al[i].connection = t /\ al[i].prefix = p
    BY <1>1, ContainsIs
  <2> HIDE DEF al
  <2> QED BY <2>2, <2>3
<1>6. \A i \in 1 .. Len(al) : al[i].connection \in Sessions
  <2>1. \A i \in 1 .. Len(al) : al[i] \in Attachments
    BY <1>1, ElementOfSeq
  <2> QED BY <2>1 DEF Attachments
<1>7. ToSet(UsersOf(al)) = {al[i].connection : i \in 1 .. Len(al)}
  BY <1>2, <1>3 DEF ToSet
<1> HIDE DEF al
<1>8. ToSet(UsersOf(al)) = {t \in Sessions : k \in Table!Attached(t)}
  <2>1. \A t \in Sessions : k \in Table!Attached(t) <=> \E i \in 1 .. Len(al) : al[i].connection = t
    BY <1>4, <1>5
  <2> QED BY <1>6, <1>7, <2>1
<1> QED BY <1>2, <1>8 DEF al

(* Even and odd numbers. *)
LEMMA Halves ==
  ASSUME NEW i \in Nat
  PROVE  /\ (2 * i) % 2 = 0 /\ (2 * i) \div 2 = i
         /\ (2 * i + 1) % 2 = 1 /\ (2 * i + 1) \div 2 = i
<1>1. (2 * i) \div 2 = i /\ (2 * i) % 2 = 0
  OBVIOUS
<1>2. (2 * i + 1) \div 2 = i
  OBVIOUS
<1>3. (2 * i + 1) % 2 = 1
  OBVIOUS
<1> QED BY <1>1, <1>2, <1>3

(* send_sync. *)
LEMMA SyncRefines ==
  ASSUME OutputsInv, NEW k \in Sockets, send_sync(k)
  PROVE  OutputsInv' /\ Refines
<1> DEFINE users == UsersOf(attached[k])
           first == Kept(users, FirstOfRuns(users))
           parts == [n \in 1 .. 2 * Len(first) + 1 |->
                        IF n % 2 = 1 THEN Msg(first, n \div 2) ELSE first[n \div 2]]
           told == [i \in DOMAIN first |-> <<first[i], cookie[first[i]]>>]
<1>1. /\ sent' = Sync(k, parts) /\ live' = live /\ outputs' = outputs /\ attached' = attached
      /\ cookie' = cookie
  BY DEF send_sync, UsersOf
<1>2. users \in Seq(Sessions) /\ ToSet(users) = {t \in Sessions : k \in Table!Attached(t)}
  BY AttachedUsers
<1>3. Grouped(users)
  BY Parts DEF Together
<1> HIDE DEF users
<1>4. IsInjective(first) /\ ToSet(first) = {t \in Sessions : k \in Table!Attached(t)}
  <2>1. IsInjective(first) /\ ToSet(first) = ToSet(users)
    BY <1>2, <1>3, FirstOfRunsIs
  <2> QED BY <1>2, <2>1
<1>p. DOMAIN first = 1 .. Len(first) /\ Len(first) \in Nat
  <2>1. first \in Seq(Sessions)
    BY <1>2, <1>3, FirstOfRunsIs
  <2> HIDE DEF first
  <2> QED BY <2>1, LenProperties
<1> HIDE DEF first
<1>w. /\ Table!Users(parts) = told
      /\ Len(parts) % 2 = 1 /\ parts[1] = "sync"
  <2> DEFINE n == Len(first)
  <2>1. n \in Nat /\ DOMAIN told = 1 .. n
    BY <1>p
  <2>2. Len(parts) = 2 * n + 1
    <3>1. 2 * n + 1 \in Nat /\ DOMAIN parts = 1 .. 2 * n + 1
      BY <2>1
    <3> DEFINE S == {parts[j] : j \in 1 .. 2 * n + 1}
    <3>2. parts \in [1 .. 2 * n + 1 -> S]
      BY <3>1
    <3> HIDE DEF parts, S, n
    <3>3. parts \in Seq(S)
      BY <3>1, <3>2, SeqDef
    <3>4. Len(parts) \in Nat /\ 1 .. Len(parts) = 1 .. 2 * n + 1
      BY <3>1, <3>3, LenProperties
    <3>5. 2 * n + 1 \in 1 .. Len(parts) /\ (Len(parts) > 0 => Len(parts) \in 1 .. 2 * n + 1)
      BY <2>1, <3>4
    <3> QED BY <2>1, <3>4, <3>5
  <2>3. parts[1] = "sync"
    <3>1. 1 \in 1 .. 2 * n + 1 /\ 1 % 2 = 1 /\ 1 \div 2 = 0
      BY <2>1, Halves
    <3> QED BY <3>1 DEF Msg
  <2>4. ASSUME NEW i \in 1 .. n
        PROVE  parts[2 * i] = first[i] /\ parts[2 * i + 1] = cookie[first[i]]
    <3>1. /\ 2 * i \in 1 .. 2 * n + 1 /\ (2 * i) % 2 = 0 /\ (2 * i) \div 2 = i
          /\ 2 * i + 1 \in 1 .. 2 * n + 1 /\ (2 * i + 1) % 2 = 1 /\ (2 * i + 1) \div 2 = i
          /\ i # 0
      <4>1. i \in Nat /\ i # 0 /\ 2 * i \in 1 .. 2 * n + 1 /\ 2 * i + 1 \in 1 .. 2 * n + 1
        BY <2>1
      <4> QED BY <4>1, Halves
    <3> QED BY <3>1 DEF Msg
  <2>5. (2 * n + 1) \div 2 = n /\ (2 * n + 1) % 2 = 1
    BY <2>1, Halves
  <2>6. Table!Users(parts) = [i \in 1 .. n |-> <<parts[2 * i], parts[2 * i + 1]>>]
    BY <2>2, <2>5 DEF Table!Users
  <2>7. told = [i \in 1 .. n |-> <<first[i], cookie[first[i]]>>]
    BY <2>1
  <2> HIDE DEF parts, told
  <2> QED BY <2>2, <2>3, <2>4, <2>5, <2>6, <2>7
<1> HIDE DEF parts
<1>5. IsInjective(told) /\ ToSet(told) = {<<s, cookie[s]>> : s \in ToSet(first)}
  <2>1. DOMAIN told = DOMAIN first /\ \A i \in DOMAIN first : told[i] = <<first[i], cookie[first[i]]>>
    OBVIOUS
  <2>2. \A i, j \in DOMAIN first : told[i] = told[j] => first[i] = first[j]
    BY <2>1
  <2>3. IsInjective(told)
    BY <1>4, <2>1, <2>2 DEF IsInjective
  <2>4. ToSet(told) = {<<first[i], cookie[first[i]]>> : i \in DOMAIN first}
    BY <2>1 DEF ToSet
  <2>5. {<<first[i], cookie[first[i]]>> : i \in DOMAIN first} = {<<s, cookie[s]>> : s \in ToSet(first)}
    BY DEF ToSet
  <2> QED BY <2>3, <2>4, <2>5
<1> HIDE DEF told
<1>6. Table!Lists(told, {<<s, cookie[s]>> : s \in {t \in Sessions : k \in Table!Attached(t)}})
  <2> DEFINE who == {t \in Sessions : k \in Table!Attached(t)}
  <2>1. ToSet(first) = who
    BY <1>4
  <2> HIDE DEF who
  <2>2. IsInjective(told) /\ ToSet(told) = {<<s, cookie[s]>> : s \in who}
    BY <1>5, <2>1
  <2>3. Table!Lists(told, {<<s, cookie[s]>> : s \in who})
    BY <2>2 DEF Table!Lists, Table!ToSet, Table!IsInjective, ToSet, IsInjective
  <2> QED BY <2>3 DEF who
<1>7. sent'.kind = "sync" /\ sent'.to = k /\ sent'.parts = parts
  BY <1>1 DEF Sync
<1>8. OutputsInv'
  BY <1>1, <1>7, InvIs, Parts
<1>9. Mapping' = Mapping
  BY <1>1, MappingIs
<1>10. Table!Synchronise(k)
  <2> HIDE DEF told
  <2>1. /\ Len(sent'.parts) % 2 = 1 /\ sent'.parts[1] = "sync"
        /\ Table!Users(sent'.parts) = told
    BY <1>w, <1>7
  <2> QED BY <1>1, <1>6, <1>7, <1>9, <2>1 DEF Table!Synchronise
<1> QED BY <1>8, <1>10 DEF Refines, Table!TNext

(* websock_resolve. *)
LEMMA RouteRefines ==
  ASSUME OutputsInv, NEW s \in Sessions, NEW M \in SUBSET MsgPrefixes, websock_resolve(s, M)
  PROVE  OutputsInv' /\ Refines
<1> DEFINE list == outputs[s]
           matching == {i \in DOMAIN list : list[i].prefix \in M}
           to == IF matching = {} THEN Forward ELSE list[Min(matching)].socket
           mapped == {Target(list, p) : p \in M} \ {Forward}
<1>1. /\ s \in live /\ sent' = Message(s, M, to) /\ live' = live /\ outputs' = outputs
      /\ attached' = attached /\ cookie' = cookie
  BY DEF websock_resolve
<1>2. list \in Seq(Entry) /\ UniquePrefixes(list)
  BY Parts
<1> HIDE DEF list
<1>3. DOMAIN list = 1 .. Len(list) /\ Len(list) \in Nat
  BY <1>2, LenProperties
<1>4. /\ \A p \in M : Target(list, p) = Forward <=> \A i \in 1 .. Len(list) : list[i].prefix # p
      /\ \A p \in M : \A i \in 1 .. Len(list) : list[i].prefix = p => Target(list, p) = list[i].socket
  BY <1>2, TargetIs
<1>5. matching = {} <=> mapped = {}
  <2>1. mapped = {} <=> \A p \in M : Target(list, p) = Forward
    OBVIOUS
  <2>2. matching = {} <=> \A i \in 1 .. Len(list) : list[i].prefix \notin M
    BY <1>3
  <2>3. (\A p \in M : Target(list, p) = Forward)
          <=> \A p \in M : \A i \in 1 .. Len(list) : list[i].prefix # p
    BY <1>4
  <2> HIDE DEF matching, mapped
  <2> QED BY <2>1, <2>2, <2>3
<1>6. matching # {} => to \in mapped
  <2> SUFFICES ASSUME matching # {} PROVE to \in mapped
    OBVIOUS
  <2> DEFINE i == Min(matching)
  <2>1. matching \in SUBSET Nat
    BY <1>3
  <2>2. i \in matching
    <3> HIDE DEF matching
    <3> QED BY <2>1, MinIs
  <2>3. i \in 1 .. Len(list) /\ list[i].prefix \in M /\ to = list[i].socket
    BY <1>3, <2>2
  <2> HIDE DEF i, to
  <2>4. Target(list, list[i].prefix) = to /\ Target(list, list[i].prefix) # Forward
    BY <1>4, <2>3
  <2> QED BY <2>3, <2>4
<1>7. IF mapped = {} THEN to = Forward ELSE to \in mapped
  BY <1>5, <1>6
<1>8. mapped = {Mapping[s][p] : p \in M} \ {Forward}
  BY MappingIs DEF list
<1> HIDE DEF to, mapped
<1>9. /\ sent'.kind = "message" /\ sent'.hybi = s /\ sent'.matched = M
      /\ sent'.cookie = cookie[s] /\ sent'.to = to
  BY <1>1 DEF Message
<1>10. OutputsInv'
  BY <1>1, <1>9, InvIs, Parts
<1>11. Mapping' = Mapping
  BY <1>1, MappingIs
<1>12. Table!Route(s, M)
  BY <1>1, <1>7, <1>8, <1>9, <1>11 DEF Table!Route
<1> QED BY <1>10, <1>12 DEF Refines, Table!TNext

(* Any step. *)
LEMMA StepRefines ==
  ASSUME OutputsInv, [Next]_vars
  PROVE  OutputsInv' /\ Refines
<1>1. CASE UNCHANGED vars
  <2>1. live' = live /\ outputs' = outputs /\ attached' = attached /\ cookie' = cookie /\ sent' = sent
    BY <1>1 DEF vars
  <2>2. Mapping' = Mapping
    BY <2>1, MappingIs
  <2> QED BY <2>1, <2>2, InvIs DEF Refines
<1>2. ASSUME NEW s \in Sessions, hybi_start(s) \/ hybi_stop(s) PROVE OutputsInv' /\ Refines
  BY <1>2, StartRefines, StopRefines
<1>3. ASSUME NEW s \in Sessions, NEW c \in Cookies, set_cookie(s, c) PROVE OutputsInv' /\ Refines
  BY <1>3, CookieRefines
<1>4. ASSUME NEW s \in Sessions, NEW p \in MsgPrefixes, NEW k \in Sockets, add_output(s, p, k)
      PROVE  OutputsInv' /\ Refines
  BY <1>4, AddRefines
<1>5. ASSUME NEW s \in Sessions, NEW p \in MsgPrefixes, del_output(s, p) PROVE OutputsInv' /\ Refines
  BY <1>5, DelRefines
<1>6. ASSUME NEW s \in Sessions, NEW M \in SUBSET MsgPrefixes, websock_resolve(s, M)
      PROVE  OutputsInv' /\ Refines
  BY <1>6, RouteRefines
<1>7. ASSUME NEW k \in Sockets, send_sync(k) PROVE OutputsInv' /\ Refines
  BY <1>7, SyncRefines
<1> QED BY <1>1, <1>2, <1>3, <1>4, <1>5, <1>6, <1>7 DEF Next

(* The start. *)
LEMMA InitRefines == Init => OutputsInv /\ Table!TInit
<1> SUFFICES ASSUME Init PROVE OutputsInv /\ Table!TInit
  OBVIOUS
<1>1. /\ live = {} /\ outputs = [s \in Sessions |-> << >>] /\ attached = [k \in Sockets |-> << >>]
      /\ cookie = [s \in Sessions |-> NoCookie] /\ sent.kind = "nothing"
  BY DEF Init, Nothing
<1>2. /\ UniquePrefixes(<< >>) /\ Grouped(SocketsOf(<< >>)) /\ Grouped(UsersOf(<< >>))
      /\ IsInjective(<< >>) /\ (\A e : ~ Contains(<< >>, e)) /\ \A q : Target(<< >>, q) = Forward
  BY DEF UniquePrefixes, Grouped, SocketsOf, UsersOf, IsInjective, Contains, Target
<1>3. (\A s \in Sessions : outputs[s] = << >>) /\ \A k \in Sockets : attached[k] = << >>
  BY <1>1
<1>4. Mirrored(live, outputs, attached) /\ Together(outputs, attached)
  BY <1>2, <1>3 DEF Mirrored, Together
<1>5. outputs \in [Sessions -> Seq(Entry)] /\ attached \in [Sockets -> Seq(Attachments)]
  BY <1>1
<1>6. OutputsInv
  BY <1>1, <1>4, <1>5, InvIs DEF Sound
<1>7. Mapping = [s \in Sessions |-> [p \in MsgPrefixes |-> Forward]]
  BY <1>2, <1>3, MappingIs
<1> QED BY <1>1, <1>6, <1>7 DEF Table!TInit, Table!Empty

-----------------------------------------------------------------------------
(* The inductive invariant holds throughout. *)
THEOREM Invariance == Spec => []OutputsInv
<1>1. Init => OutputsInv
  BY InitRefines
<1>2. OutputsInv /\ [Next]_vars => OutputsInv'
  BY StepRefines
<1> QED BY <1>1, <1>2, PTL DEF Spec

(* However prefixes are mapped, moved and unmapped by however many         *)
(* sessions, entries of one socket are together in a session's list and    *)
(* entries of one session in a socket's, as hybi_stop and send_sync rely   *)
(* on when they compare neighbours only.                                   *)
THEOREM RunsGroupedHolds == Spec => []RunsGrouped
<1>1. OutputsInv => RunsGrouped
  BY PropertiesAre
<1> QED BY <1>1, Invariance, PTL

(* An output is in the list of its session and of its socket or in         *)
(* neither, once, and a prefix is mapped once.                             *)
THEOREM ListsMirrorHolds == Spec => []ListsMirror
<1>1. OutputsInv => ListsMirror
  BY PropertiesAre
<1> QED BY <1>1, Invariance, PTL

(* The two lists implement a plain table of targets: one disconnect to     *)
(* each attached socket, a sync that names each user once with its cookie, *)
(* messages by the table.                                                  *)
THEOREM Refinement == Spec => OutputTableSpec
<1>1. Init => Table!TInit
  BY InitRefines
<1>2. OutputsInv /\ [Next]_vars => [Table!TNext]_(Table!tvars)
  BY StepRefines DEF Refines, Table!tvars
<1> QED BY <1>1, <1>2, Invariance, PTL DEF Spec, OutputTableSpec, Table!TSpec
=============================================================================
