------------------------- MODULE HttpForwardProofs -------------------------
(***************************************************************************)
(* For every number of requests and slots, every retry mode and count and  *)
(* whatever clients, timers, backends and zeromq do: a request gets one    *)
(* response at most and it is its own, the reference count is exact, and   *)
(* slots and timers belong to the requests that wait.                      *)
(***************************************************************************)
EXTENDS HttpForward, SieveProofs, SequenceTheorems

Message == [req : Requests, attempt : Nat]

(* The messages of r inside zeromq. *)
Places(p, r) == {i \in DOMAIN p : p[i].req = r}

(* The inductive invariant.  Ids are never issued twice: every id that a   *)
(* request carries or a backend got is from before the counter, two        *)
(* requests never carry the same one, a backend that got an id got it from *)
(* the only request that ever carried it, and what is listed or inside     *)
(* zeromq carries one.                                                     *)
IdsUnique ==
    /\ \A r \in Requests : uid[r].index < sieve.index
    /\ \A r, q \in Requests : uid[r].index = uid[q].index /\ uid[r].index >= 0 => r = q
    /\ \A r \in Requests : in_sieve[r] => uid[r].index >= 0
    /\ \A i \in DOMAIN pipe : uid[pipe[i].req].index >= 0
    /\ \A m \in inbox : m.uid.index >= 0 /\ m.uid.index < sieve.index
    /\ \A m \in inbox, r \in Requests : m.uid.index = uid[r].index => m.req = r

Waiting ==
    \A r \in Requests :
        /\ in_sieve[r] => written[r] = <<>> /\ client[r] # "idle" /\ refcnt[r] > 0
        /\ client[r] = "idle" => written[r] = <<>> /\ refcnt[r] = 0
        /\ timeout[r] <=> in_sieve[r] /\ mode # "NoTimeout"

IndInv ==
    /\ TypeOK
    /\ Tracks(sieve, uid, in_sieve)
    /\ Waiting
    /\ IdsUnique
    /\ RefcntExact
    /\ OneOwnResponse

-----------------------------------------------------------------------------
(* A sequence of messages, its first one gone or one more at its end: how  *)
(* many of them are of a request.                                          *)
LEMMA PlacesFinite ==
  ASSUME NEW S, NEW p \in Seq(S), NEW r
  PROVE  IsFiniteSet(Places(p, r)) /\ Cardinality(Places(p, r)) \in Nat
<1>1. Len(p) \in Nat /\ DOMAIN p = 1 .. Len(p)
  BY LenProperties
<1>2. IsFiniteSet(1 .. Len(p))
  BY <1>1, FS_Interval
<1>3. Places(p, r) \subseteq 1 .. Len(p)
  BY <1>1 DEF Places
<1>4. IsFiniteSet(Places(p, r))
  BY <1>2, <1>3, FS_Subset
<1> QED BY <1>4, FS_CardinalityType

(* A message is added at the end. *)
LEMMA PlacesAppend ==
  ASSUME NEW S, NEW p \in Seq(S), NEW e \in S, NEW r
  PROVE  Cardinality(Places(Append(p, e), r)) =
            Cardinality(Places(p, r)) + (IF e.req = r THEN 1 ELSE 0)
<1> DEFINE n == Len(p) + 1
           q == Append(p, e)
<1>1. /\ Len(p) \in Nat /\ DOMAIN p = 1 .. Len(p)
      /\ DOMAIN q = 1 .. n /\ q[n] = e /\ \A i \in 1 .. Len(p) : q[i] = p[i]
  BY LenProperties, AppendProperties
<1> HIDE DEF q
<1>2. n \notin Places(p, r)
  BY <1>1 DEF Places
<1>3. IsFiniteSet(Places(p, r)) /\ Cardinality(Places(p, r)) \in Nat
  BY PlacesFinite
<1>4. CASE e.req = r
  <2>1. Places(q, r) = Places(p, r) \cup {n}
    BY <1>1, <1>4 DEF Places
  <2>2. Cardinality(Places(p, r) \cup {n}) = Cardinality(Places(p, r)) + 1
    BY <1>2, <1>3, FS_AddElement
  <2> QED BY <1>4, <2>1, <2>2 DEF q
<1>5. CASE e.req # r
  <2>1. Places(q, r) = Places(p, r)
    BY <1>1, <1>5 DEF Places
  <2> QED BY <1>3, <1>5, <2>1 DEF q
<1> QED BY <1>4, <1>5

(* The first message leaves. *)
LEMMA PlacesTail ==
  ASSUME NEW S, NEW p \in Seq(S), p # << >>, NEW r
  PROVE  Cardinality(Places(Tail(p), r)) =
            Cardinality(Places(p, r)) - (IF Head(p).req = r THEN 1 ELSE 0)
<1> DEFINE q == Tail(p)
           rest == Places(p, r) \ {1}
           f == [i \in Places(q, r) |-> i + 1]
<1>1. /\ Len(p) \in Nat \ {0} /\ DOMAIN p = 1 .. Len(p) /\ Head(p) = p[1]
      /\ DOMAIN q = 1 .. Len(p) - 1 /\ \A i \in 1 .. Len(p) - 1 : q[i] = p[i + 1]
  <2>1. /\ Len(p) \in Nat \ {0} /\ Tail(p) \in Seq(S) /\ Len(Tail(p)) = Len(p) - 1
        /\ \A i \in 1 .. Len(Tail(p)) : Tail(p)[i] = p[i + 1]
    BY EmptySeq, HeadTailProperties
  <2>2. DOMAIN p = 1 .. Len(p) /\ DOMAIN Tail(p) = 1 .. Len(Tail(p))
    BY <2>1, LenProperties
  <2> QED BY <2>1, <2>2
<1> HIDE DEF q
<1>2. IsFiniteSet(Places(p, r)) /\ Cardinality(Places(p, r)) \in Nat
  BY PlacesFinite
<1>3. /\ \A i \in Places(q, r) : i \in Int /\ i + 1 \in rest
      /\ \A j \in rest : j - 1 \in Places(q, r) /\ (j - 1) + 1 = j
  BY <1>1 DEF Places
<1>4. f \in [Places(q, r) -> rest]
  BY <1>3
<1>5. \A i, j \in Places(q, r) : f[i] = f[j] => i = j
  BY <1>3
<1>6. \A j \in rest : \E i \in Places(q, r) : f[i] = j
  BY <1>3
<1> HIDE DEF f, rest
<1>7. f \in Bijection(Places(q, r), rest)
  BY <1>4, <1>5, <1>6 DEF Bijection, Injection, Surjection, IsInjective
<1>8. IsFiniteSet(rest)
  BY <1>2, FS_Subset DEF rest
<1>9. Cardinality(Places(q, r)) = Cardinality(rest)
  <2>1. ExistsBijection(Places(q, r), rest)
    BY <1>7 DEF ExistsBijection
  <2>2. ExistsBijection(rest, Places(q, r))
    BY <2>1, Fun_ExistsBijSymmetric
  <2> QED BY <1>8, <2>2, FS_Bijection
<1>10. CASE Head(p).req = r
  <2>1. 1 \in Places(p, r)
    BY <1>1, <1>10 DEF Places
  <2>2. Cardinality(rest) = Cardinality(Places(p, r)) - 1
    BY <1>2, <2>1, FS_RemoveElement DEF rest
  <2> QED BY <1>9, <1>10, <2>2 DEF q
<1>11. CASE Head(p).req # r
  <2>1. rest = Places(p, r)
    BY <1>1, <1>11 DEF Places, rest
  <2> QED BY <1>2, <1>9, <1>11, <2>1 DEF q
<1> QED BY <1>10, <1>11

-----------------------------------------------------------------------------
(* The request sieve under request_finish, REQ_DECREF and a new id.        *)

(* An id names a slot, and so does the id before the first one. *)
LEMMA UidSlots == NameSlots(AnyUid) /\ NoUid \in AnyUid
BY MaxAssumption DEF NameSlots, AnyUid, NoUid, Slots

(* A new id is the next one and names the hole. *)
LEMMA NewUid ==
  ASSUME NEW sv \in SieveType, Holes(sv) # {}
  PROVE  /\ UidOf(sv) \in AnyUid /\ UidOf(sv).hole = HoleAt(sv)
         /\ UidOf(sv).index = sv.index /\ sv.index \in Nat
         /\ \A r : sieve_find_hole(sv, r).index = sv.index + 1
<1>1. HoleAt(sv) \in Slots
  BY HoleAtIsHole
<1>2. sv.index \in Nat
  BY DEF SieveType
<1> QED BY <1>1, <1>2 DEF UidOf, AnyUid, sieve_find_hole

(* request_finish takes the request out of the table, if it is there. *)
LEMMA FinishTracks ==
  ASSUME NEW r \in Requests, NEW sv, in_sieve \in [Requests -> BOOLEAN],
         uid' \in [Requests -> AnyUid], Tracks(sv, uid', in_sieve),
         request_finish(r, sv)
  PROVE  /\ Tracks(sieve', uid', in_sieve')
         /\ sieve'.index = sv.index
         /\ in_sieve' \in [Requests -> BOOLEAN] /\ ~ in_sieve'[r]
         /\ \A q \in Requests : q # r => in_sieve'[q] = in_sieve[q]
<1>1. Released(sv, uid', in_sieve, r, sieve', in_sieve')
  BY DEF request_finish, Released
<1>2. Owned(AnyUid, uid', in_sieve) /\ r \in Objects
  BY UidSlots DEF Requests, Owned
<1> QED BY <1>1, <1>2, TracksRelease DEF Requests

(* REQ_DECREF of a request that is held. *)
LEMMA DecrefTracks ==
  ASSUME NEW r \in Requests, RequestTypeOK, Tracks(sieve, uid, in_sieve),
         uid' = uid, REQ_DECREF(r)
  PROVE  /\ Tracks(sieve', uid', in_sieve')
         /\ sieve'.index = sieve.index
         /\ refcnt' = [refcnt EXCEPT ![r] = @ - 1]
         /\ in_sieve' \in [Requests -> BOOLEAN] /\ timeout' \in [Requests -> BOOLEAN]
         /\ \A q \in Requests : q # r => in_sieve'[q] = in_sieve[q] /\ timeout'[q] = timeout[q]
         /\ refcnt[r] = 1 => ~ in_sieve'[r] /\ ~ timeout'[r]
         /\ refcnt[r] # 1 => in_sieve'[r] = in_sieve[r] /\ timeout'[r] = timeout[r]
<1>0. /\ in_sieve \in [Requests -> BOOLEAN] /\ timeout \in [Requests -> BOOLEAN]
      /\ uid \in [Requests -> AnyUid]
      /\ refcnt' = [refcnt EXCEPT ![r] = @ - 1]
  BY DEF RequestTypeOK, REQ_DECREF
<1>1. CASE refcnt[r] = 1
  <2>1. request_finish(r, sieve)
    BY <1>1 DEF REQ_DECREF
  <2>2. timeout' = [timeout EXCEPT ![r] = FALSE]
    BY <2>1 DEF request_finish
  <2>3. uid' \in [Requests -> AnyUid] /\ Tracks(sieve, uid', in_sieve)
    BY <1>0
  <2>4. /\ Tracks(sieve', uid', in_sieve')
        /\ sieve'.index = sieve.index
        /\ in_sieve' \in [Requests -> BOOLEAN] /\ ~ in_sieve'[r]
        /\ \A q \in Requests : q # r => in_sieve'[q] = in_sieve[q]
    BY <1>0, <2>1, <2>3, FinishTracks
  <2>5. /\ timeout' \in [Requests -> BOOLEAN] /\ ~ timeout'[r]
        /\ \A q \in Requests : q # r => timeout'[q] = timeout[q]
    BY <1>0, <2>2
  <2> QED BY <1>0, <1>1, <2>4, <2>5
<1>2. CASE refcnt[r] # 1
  <2>1. sieve' = sieve /\ in_sieve' = in_sieve /\ timeout' = timeout
    BY <1>2 DEF REQ_DECREF
  <2> QED BY <1>0, <1>2, <2>1
<1> QED BY <1>1, <1>2
-----------------------------------------------------------------------------
(* The references, with the pipe as a set of places.                       *)
Held(c, p, r) ==
    (IF c[r] \in {"waiting", "answered"} THEN 1 ELSE 0) + Cardinality(Places(p, r))

(* RefcntExact, before and after a step. *)
LEMMA RefcntHeld ==
  /\ RefcntExact <=> \A r \in Requests : refcnt[r] = Held(client, pipe, r)
  /\ RefcntExact' <=> \A r \in Requests : refcnt'[r] = Held(client', pipe', r)
BY DEF RefcntExact, ConnectionRefs, Held, Places

(* A step that issues no id. *)
LEMMA SameIds ==
  ASSUME TypeOK, IdsUnique, uid' = uid, sieve'.index = sieve.index, inbox' = inbox,
         \A q \in Requests : in_sieve'[q] => in_sieve[q],
         \A i \in DOMAIN pipe' : uid[pipe'[i].req].index >= 0
  PROVE  IdsUnique'
BY DEF IdsUnique

(* A step that gives r the next id. *)
LEMMA NextId ==
  ASSUME TypeOK, IdsUnique, NEW r \in Requests, NEW x, x.index = sieve.index,
         uid' = [uid EXCEPT ![r] = x], sieve'.index = sieve.index + 1, inbox' = inbox,
         \A q \in Requests : in_sieve'[q] => in_sieve[q] \/ q = r,
         \A i \in DOMAIN pipe' : pipe'[i].req = r \/ (i \in DOMAIN pipe /\ pipe'[i] = pipe[i])
  PROVE  IdsUnique'
<1>1. /\ uid \in [Requests -> AnyUid] /\ sieve.index \in Nat
      /\ inbox \subseteq [uid : AnyUid, req : Requests, attempt : Nat]
  BY DEF TypeOK, RequestTypeOK, SieveType
<1>2. /\ uid'[r] = x /\ \A q \in Requests : q # r => uid'[q] = uid[q]
      /\ \A q \in Requests : uid[q].index \in Int
      /\ \A m \in inbox : m.uid.index \in Int /\ m.req \in Requests
  BY <1>1 DEF AnyUid
<1>3. \A q \in Requests : uid'[q].index < sieve'.index
  BY <1>1, <1>2 DEF IdsUnique
<1>4. \A p, q \in Requests : uid'[p].index = uid'[q].index /\ uid'[p].index >= 0 => p = q
  BY <1>1, <1>2 DEF IdsUnique
<1>5. \A i \in DOMAIN pipe' : uid'[pipe'[i].req].index >= 0
  <2> TAKE i \in DOMAIN pipe'
  <2>1. CASE pipe'[i].req = r
    BY <1>1, <1>2, <2>1
  <2>2. CASE pipe'[i].req # r
    <3>1. i \in DOMAIN pipe /\ pipe'[i] = pipe[i] /\ uid[pipe[i].req].index >= 0
      BY <2>2 DEF IdsUnique
    <3>2. pipe[i].req \in Requests
      <4>1. pipe \in Seq(Message)
        BY DEF TypeOK, Message
      <4>2. pipe[i] \in Message
        BY <3>1, <4>1, LenProperties, ElementOfSeq
      <4> QED BY <4>2 DEF Message
    <3> QED BY <1>2, <2>2, <3>1, <3>2
  <2> QED BY <2>1, <2>2
<1>6. \A m \in inbox' : m.uid.index >= 0 /\ m.uid.index < sieve'.index
  BY <1>1, <1>2 DEF IdsUnique
<1>7. \A m \in inbox', q \in Requests : m.uid.index = uid'[q].index => m.req = q
  BY <1>1, <1>2 DEF IdsUnique
<1>8. \A q \in Requests : in_sieve'[q] => uid'[q].index >= 0
  BY <1>1, <1>2 DEF IdsUnique
<1> QED BY <1>3, <1>4, <1>5, <1>6, <1>7, <1>8 DEF IdsUnique

-----------------------------------------------------------------------------
(* The parts of the invariant after a step. *)
LEMMA IndInvAfter ==
  ASSUME TypeOK', Tracks(sieve', uid', in_sieve'), Waiting', IdsUnique',
         RefcntExact', OneOwnResponse'
  PROVE  IndInv'
BY DEF IndInv, Tracks

(* The types, flat. *)
LEMMA Types ==
  /\ TypeOK <=>
       /\ sieve \in SieveType /\ uid \in [Requests -> AnyUid]
       /\ in_sieve \in [Requests -> BOOLEAN] /\ timeout \in [Requests -> BOOLEAN]
       /\ refcnt \in [Requests -> Int]
       /\ client \in [Requests -> {"idle", "waiting", "answered", "closed"}]
       /\ written \in [Requests -> Seq(Response)] /\ mode \in Modes
       /\ retries \in [Requests -> Nat]
       /\ pipe \in Seq(Message)
       /\ inbox \subseteq [uid : AnyUid, req : Requests, attempt : Nat]
  /\ TypeOK' <=>
       /\ sieve' \in SieveType /\ uid' \in [Requests -> AnyUid]
       /\ in_sieve' \in [Requests -> BOOLEAN] /\ timeout' \in [Requests -> BOOLEAN]
       /\ refcnt' \in [Requests -> Int]
       /\ client' \in [Requests -> {"idle", "waiting", "answered", "closed"}]
       /\ written' \in [Requests -> Seq(Response)] /\ mode' \in Modes
       /\ retries' \in [Requests -> Nat]
       /\ pipe' \in Seq(Message)
       /\ inbox' \subseteq [uid : AnyUid, req : Requests, attempt : Nat]
BY DEF TypeOK, RequestTypeOK, Message

(* A response of a request that has none. *)
LEMMA Responds ==
  ASSUME TypeOK, OneOwnResponse, NEW r \in Requests, written[r] = << >>,
         NEW x \in Response, x.of \in {r, NULL}, Respond(r, x)
  PROVE  /\ written' \in [Requests -> Seq(Response)] /\ OneOwnResponse'
         /\ client' \in [Requests -> {"idle", "waiting", "answered", "closed"}]
         /\ client'[r] = IF client[r] = "closed" THEN "closed" ELSE "answered"
         /\ \A q \in Requests : q # r => written'[q] = written[q] /\ client'[q] = client[q]
<1>1. /\ written \in [Requests -> Seq(Response)]
      /\ client \in [Requests -> {"idle", "waiting", "answered", "closed"}]
  BY Types
<1> DEFINE one == <<x>>
<1>2. /\ written' = [written EXCEPT ![r] = one]
      /\ client' = [client EXCEPT ![r] = IF client[r] = "closed" THEN "closed" ELSE "answered"]
  <2>1. Append(<< >>, x) = <<x>>
    OBVIOUS
  <2> QED BY <1>1, <2>1 DEF Respond
<1>3. one \in Seq(Response) /\ Len(one) = 1 /\ one[1] = x /\ DOMAIN one = {1}
  OBVIOUS
<1> HIDE DEF one
<1>4. written' \in [Requests -> Seq(Response)]
  BY <1>1, <1>2, <1>3
<1>5. /\ client' \in [Requests -> {"idle", "waiting", "answered", "closed"}]
      /\ client'[r] = IF client[r] = "closed" THEN "closed" ELSE "answered"
      /\ \A q \in Requests : q # r => client'[q] = client[q]
  BY <1>1, <1>2
<1>6. written'[r] = one /\ \A q \in Requests : q # r => written'[q] = written[q]
  BY <1>1, <1>2
<1>7. OneOwnResponse'
  <2> SUFFICES ASSUME NEW q \in Requests
               PROVE  /\ Len(written'[q]) <= 1
                      /\ \A i \in DOMAIN written'[q] : written'[q][i].of \in {q, NULL}
    BY DEF OneOwnResponse
  <2>1. CASE q = r
    <3>1. written'[q] = one
      BY <1>6, <2>1
    <3>2. \A i \in DOMAIN one : one[i].of \in {q, NULL}
      BY <1>3, <2>1
    <3>3. Len(written'[q]) = 1
      BY <1>3, <3>1, Zenon
    <3>4. \A i \in DOMAIN written'[q] : written'[q][i].of \in {q, NULL}
      BY <3>1, <3>2, Zenon
    <3> QED BY <3>3, <3>4
  <2>2. CASE q # r
    BY <1>6, <2>2 DEF OneOwnResponse
  <2> QED BY <2>1, <2>2
<1> QED BY <1>4, <1>5, <1>6, <1>7

(* A request that waits gets its response and leaves the table, whatever   *)
(* was done to the table before (sv): request_gives_up,                    *)
(* request_retry_fails and http_process.                                   *)
LEMMA Ends ==
  ASSUME IndInv, NEW r \in Requests, in_sieve[r], NEW x \in Response, x.of \in {r, NULL},
         Respond(r, x), NEW sv, uid' \in [Requests -> AnyUid], Tracks(sv, uid', in_sieve),
         request_finish(r, sv), retries' \in [Requests -> Nat],
         UNCHANGED <<refcnt, pipe, inbox, mode>>
  PROVE  /\ TypeOK' /\ Tracks(sieve', uid', in_sieve') /\ Waiting'
         /\ RefcntExact' /\ OneOwnResponse' /\ sieve'.index = sv.index
<1>1. /\ TypeOK /\ Tracks(sieve, uid, in_sieve) /\ Waiting /\ RefcntExact /\ OneOwnResponse
      /\ refcnt' = refcnt /\ pipe' = pipe /\ inbox' = inbox /\ mode' = mode
  BY DEF IndInv
<1>2. /\ in_sieve \in [Requests -> BOOLEAN] /\ timeout \in [Requests -> BOOLEAN]
      /\ client \in [Requests -> {"idle", "waiting", "answered", "closed"}]
  BY <1>1, Types
<1>3. written[r] = << >> /\ client[r] # "idle"
  BY <1>1 DEF Waiting
<1>4. /\ written' \in [Requests -> Seq(Response)] /\ OneOwnResponse'
      /\ client' \in [Requests -> {"idle", "waiting", "answered", "closed"}]
      /\ client'[r] = IF client[r] = "closed" THEN "closed" ELSE "answered"
      /\ \A q \in Requests : q # r => written'[q] = written[q] /\ client'[q] = client[q]
  BY <1>1, <1>3, Responds
<1>5. /\ Tracks(sieve', uid', in_sieve')
      /\ sieve'.index = sv.index
      /\ in_sieve' \in [Requests -> BOOLEAN] /\ ~ in_sieve'[r]
      /\ \A q \in Requests : q # r => in_sieve'[q] = in_sieve[q]
  BY <1>2, FinishTracks
<1>6. /\ timeout' \in [Requests -> BOOLEAN] /\ ~ timeout'[r]
      /\ \A q \in Requests : q # r => timeout'[q] = timeout[q]
  <2>1. timeout' = [timeout EXCEPT ![r] = FALSE]
    BY DEF request_finish
  <2> QED BY <1>2, <2>1
<1>7. TypeOK'
  <2>1. sieve' \in SieveType
    BY <1>5 DEF Tracks
  <2> QED BY <1>1, <1>4, <1>5, <1>6, <2>1, Types
<1>8. Waiting'
  <2> SUFFICES ASSUME NEW q \in Requests
               PROVE  /\ in_sieve'[q] => written'[q] = << >> /\ client'[q] # "idle" /\ refcnt'[q] > 0
                      /\ client'[q] = "idle" => written'[q] = << >> /\ refcnt'[q] = 0
                      /\ timeout'[q] <=> in_sieve'[q] /\ mode' # "NoTimeout"
    BY DEF Waiting
  <2>1. CASE q = r
    BY <1>4, <1>5, <1>6, <2>1
  <2>2. CASE q # r
    BY <1>1, <1>4, <1>5, <1>6, <2>2 DEF Waiting
  <2> QED BY <2>1, <2>2
<1>9. RefcntExact'
  <2>1. \A q \in Requests : Held(client', pipe', q) = Held(client, pipe, q)
    BY <1>1, <1>2, <1>3, <1>4 DEF Held
  <2> QED BY <1>1, <2>1, RefcntHeld
<1> QED BY <1>4, <1>5, <1>7, <1>8, <1>9
-----------------------------------------------------------------------------
(* The invariant holds at the start. *)
LEMMA InitInv == Init => IndInv
<1> SUFFICES ASSUME Init PROVE IndInv
  OBVIOUS
<1> USE DEF Init, request_init
<1>1. Tracks(sieve, uid, in_sieve)
  <2>1. \A o \in Objects : ~ in_sieve[o]
    BY DEF Requests
  <2> QED BY <2>1, TracksEmpty
<1>2. TypeOK
  <2>1. sieve \in SieveType
    BY <1>1 DEF Tracks
  <2> QED BY <2>1, UidSlots, Types, ModesAssumption
<1>3. Waiting
  BY DEF Waiting
<1>4. IdsUnique
  <2>1. sieve.index = 0 /\ \A r \in Requests : uid[r].index = -1
    BY DEF sieve_prepare, NoUid
  <2> QED BY <2>1 DEF IdsUnique
<1>5. RefcntExact
  <2>1. \A r \in Requests : Places(pipe, r) = {}
    BY DEF Places
  <2>2. Cardinality({}) = 0
    BY FS_EmptySet
  <2>3. \A r \in Requests : client[r] = "idle" /\ refcnt[r] = 0
    OBVIOUS
  <2> HIDE DEF Init
  <2>4. \A r \in Requests : Held(client, pipe, r) = 0
    BY <2>1, <2>2, <2>3 DEF Held
  <2> QED BY <2>3, <2>4, RefcntHeld
<1>6. OneOwnResponse
  BY DEF OneOwnResponse
<1> QED BY <1>1, <1>2, <1>3, <1>4, <1>5, <1>6 DEF IndInv

(* A message of r goes to zeromq. *)
LEMMA Sent ==
  ASSUME TypeOK, NEW r \in Requests, NEW n \in Nat,
         pipe' = Append(pipe, [req |-> r, attempt |-> n])
  PROVE  /\ pipe' \in Seq(Message)
         /\ \A i \in DOMAIN pipe' :
               pipe'[i].req = r \/ (i \in DOMAIN pipe /\ pipe'[i] = pipe[i])
         /\ \A q \in Requests : /\ Cardinality(Places(pipe, q)) \in Nat
                                /\ Cardinality(Places(pipe', q)) =
                                     Cardinality(Places(pipe, q)) + (IF r = q THEN 1 ELSE 0)
<1> DEFINE e == [req |-> r, attempt |-> n]
<1>1. pipe \in Seq(Message) /\ e \in Message /\ e.req = r /\ pipe' = Append(pipe, e)
  BY Types DEF Message
<1> HIDE DEF e
<1>2. /\ pipe' \in Seq(Message) /\ Len(pipe') = Len(pipe) + 1
      /\ pipe'[Len(pipe) + 1] = e /\ \A i \in 1 .. Len(pipe) : pipe'[i] = pipe[i]
  BY <1>1, AppendProperties
<1>3. /\ DOMAIN pipe' = 1 .. Len(pipe) + 1 /\ DOMAIN pipe = 1 .. Len(pipe)
      /\ Len(pipe) \in Nat
  BY <1>1, <1>2, LenProperties
<1>4. ASSUME NEW q \in Requests
      PROVE  /\ Cardinality(Places(pipe, q)) \in Nat
             /\ Cardinality(Places(pipe', q)) =
                  Cardinality(Places(pipe, q)) + (IF r = q THEN 1 ELSE 0)
  <2>1. Cardinality(Places(Append(pipe, e), q)) =
          Cardinality(Places(pipe, q)) + (IF e.req = q THEN 1 ELSE 0)
    BY <1>1, PlacesAppend
  <2> QED BY <1>1, <2>1, PlacesFinite
<1> QED BY <1>1, <1>2, <1>3, <1>4

-----------------------------------------------------------------------------
(* A request that arrives and is forwarded. *)
LEMMA HttpRequestInv ==
  ASSUME IndInv, NEW r \in Requests, http_request(r), mode' = mode
  PROVE  IndInv'
<1>1. /\ TypeOK /\ Tracks(sieve, uid, in_sieve) /\ Waiting /\ IdsUnique
      /\ RefcntExact /\ OneOwnResponse
  BY DEF IndInv
<1>2. /\ client[r] = "idle" /\ ~ sieve_full(sieve) /\ CanSend
      /\ sieve' = sieve_find_hole(sieve, r)
      /\ uid' = [uid EXCEPT ![r] = UidOf(sieve)]
      /\ in_sieve' = [in_sieve EXCEPT ![r] = TRUE]
      /\ timeout' = [timeout EXCEPT ![r] = mode # "NoTimeout"]
      /\ pipe' = Append(pipe, [req |-> r, attempt |-> 1])
      /\ refcnt' = [refcnt EXCEPT ![r] = 2]
      /\ client' = [client EXCEPT ![r] = "waiting"]
      /\ retries' = retries /\ written' = written /\ inbox' = inbox
  BY DEF http_request, ev_timer_start
<1>3. ~ in_sieve[r] /\ written[r] = << >> /\ refcnt[r] = 0
  BY <1>1, <1>2 DEF Waiting
<1>t. /\ sieve \in SieveType /\ uid \in [Requests -> AnyUid]
      /\ in_sieve \in [Requests -> BOOLEAN] /\ timeout \in [Requests -> BOOLEAN]
      /\ refcnt \in [Requests -> Int]
      /\ client \in [Requests -> {"idle", "waiting", "answered", "closed"}]
      /\ pipe \in Seq(Message)
  BY <1>1, Types
<1>4. Holes(sieve) # {}
  BY <1>1, <1>2, TracksNotFull
<1>5. /\ UidOf(sieve) \in AnyUid /\ UidOf(sieve).hole = HoleAt(sieve)
      /\ UidOf(sieve).index = sieve.index /\ sieve'.index = sieve.index + 1
  BY <1>2, <1>4, <1>t, NewUid
<1>6. Tracks(sieve', uid', in_sieve')
  <2>1. PutIn(sieve, uid, in_sieve, r, UidOf(sieve), sieve', uid', in_sieve')
    BY <1>2, <1>3, <1>4, <1>5 DEF PutIn
  <2>2. Owned(AnyUid, uid, in_sieve) /\ r \in Objects
    BY <1>t, UidSlots DEF Owned, Requests
  <2> QED BY <1>1, <1>5, <2>1, <2>2, TracksInsert
<1>8. /\ pipe' \in Seq(Message)
      /\ \A i \in DOMAIN pipe' : pipe'[i].req = r \/ (i \in DOMAIN pipe /\ pipe'[i] = pipe[i])
      /\ \A q \in Requests : /\ Cardinality(Places(pipe, q)) \in Nat
                             /\ Cardinality(Places(pipe', q)) =
                                  Cardinality(Places(pipe, q)) + (IF r = q THEN 1 ELSE 0)
  BY <1>1, <1>2, Sent
<1>9. TypeOK'
  <2>1. sieve' \in SieveType
    BY <1>6 DEF Tracks
  <2> QED BY <1>1, <1>2, <1>5, <1>8, <2>1, Types
<1>10. Waiting'
  <2> SUFFICES ASSUME NEW q \in Requests
               PROVE  /\ in_sieve'[q] => written'[q] = << >> /\ client'[q] # "idle" /\ refcnt'[q] > 0
                      /\ client'[q] = "idle" => written'[q] = << >> /\ refcnt'[q] = 0
                      /\ timeout'[q] <=> in_sieve'[q] /\ mode' # "NoTimeout"
    BY DEF Waiting
  <2>1. CASE q = r
    <3>1. in_sieve'[q] /\ client'[q] = "waiting" /\ refcnt'[q] = 2 /\ written'[q] = << >>
      BY <1>2, <1>3, <1>t, <2>1
    <3>2. timeout'[q] <=> mode # "NoTimeout"
      BY <1>2, <1>t, <2>1
    <3> QED BY <3>1, <3>2
  <2>2. CASE q # r
    <3>1. /\ in_sieve'[q] = in_sieve[q] /\ client'[q] = client[q] /\ refcnt'[q] = refcnt[q]
          /\ timeout'[q] = timeout[q] /\ written'[q] = written[q]
      BY <1>2, <1>t, <2>2
    <3> QED BY <1>1, <3>1 DEF Waiting
  <2> QED BY <2>1, <2>2
<1>11. IdsUnique'
  <2>1. \A q \in Requests : in_sieve'[q] => in_sieve[q] \/ q = r
    BY <1>2, <1>t
  <2> QED BY <1>1, <1>2, <1>5, <1>8, <2>1, NextId
<1>12. RefcntExact'
  <2> SUFFICES ASSUME NEW q \in Requests PROVE refcnt'[q] = Held(client', pipe', q)
    BY RefcntHeld
  <2>1. refcnt[q] = Held(client, pipe, q)
    BY <1>1, RefcntHeld
  <2>2. /\ Cardinality(Places(pipe', q)) =
              Cardinality(Places(pipe, q)) + (IF r = q THEN 1 ELSE 0)
        /\ Cardinality(Places(pipe, q)) \in Nat
    BY <1>8
  <2>3. CASE q = r
    <3>1. client'[q] = "waiting" /\ refcnt'[q] = 2 /\ client[q] = "idle" /\ refcnt[q] = 0
      BY <1>2, <1>3, <1>t, <2>3
    <3> QED BY <2>1, <2>2, <2>3, <3>1 DEF Held
  <2>4. CASE q # r
    <3>1. client'[q] = client[q] /\ refcnt'[q] = refcnt[q]
      BY <1>2, <1>t, <2>4
    <3> QED BY <2>1, <2>2, <2>4, <3>1 DEF Held
  <2> QED BY <2>3, <2>4
<1>13. OneOwnResponse'
  BY <1>1, <1>2 DEF OneOwnResponse
<1> QED BY <1>6, <1>9, <1>10, <1>11, <1>12, <1>13, IndInvAfter

(* A request that arrives and gets 503. *)
LEMMA UnavailableInv ==
  ASSUME IndInv, NEW r \in Requests, http_request_unavailable(r), mode' = mode
  PROVE  IndInv'
<1>1. /\ TypeOK /\ Tracks(sieve, uid, in_sieve) /\ Waiting /\ IdsUnique
      /\ RefcntExact /\ OneOwnResponse
  BY DEF IndInv
<1>2. /\ client[r] = "idle" /\ refcnt' = [refcnt EXCEPT ![r] = 1]
      /\ Respond(r, Static("503"))
      /\ in_sieve' = in_sieve /\ timeout' = timeout /\ retries' = retries
      /\ pipe' = pipe /\ inbox' = inbox
  BY DEF http_request_unavailable
<1>3. ~ in_sieve[r] /\ written[r] = << >> /\ refcnt[r] = 0
  BY <1>1, <1>2 DEF Waiting
<1>t. /\ sieve \in SieveType /\ uid \in [Requests -> AnyUid]
      /\ in_sieve \in [Requests -> BOOLEAN] /\ timeout \in [Requests -> BOOLEAN]
      /\ refcnt \in [Requests -> Int]
      /\ client \in [Requests -> {"idle", "waiting", "answered", "closed"}]
      /\ pipe \in Seq(Message)
  BY <1>1, Types
<1>4. Static("503") \in Response /\ Static("503").of = NULL
  BY DEF Static, Response
<1>5. /\ written' \in [Requests -> Seq(Response)] /\ OneOwnResponse'
      /\ client' \in [Requests -> {"idle", "waiting", "answered", "closed"}]
      /\ client'[r] = IF client[r] = "closed" THEN "closed" ELSE "answered"
      /\ \A q \in Requests : q # r => written'[q] = written[q] /\ client'[q] = client[q]
  BY <1>1, <1>2, <1>3, <1>4, Responds
<1>6. /\ Tracks(sieve', uid', in_sieve') /\ IdsUnique' /\ uid' \in [Requests -> AnyUid]
  <2>1. CASE sieve' = sieve /\ uid' = uid
    <3>1. sieve'.index = sieve.index /\ \A i \in DOMAIN pipe' : uid[pipe'[i].req].index >= 0
      BY <1>1, <1>2, <2>1 DEF IdsUnique
    <3>2. IdsUnique'
      BY <1>1, <1>2, <2>1, <3>1, SameIds
    <3> QED BY <1>1, <1>2, <1>t, <2>1, <3>2
  <2>2. CASE /\ ~ sieve_full(sieve)
             /\ uid' = [uid EXCEPT ![r] = UidOf(sieve)]
             /\ sieve' = sieve_empty(sieve_find_hole(sieve, r), HoleAt(sieve))
    <3> DEFINE sv == sieve_find_hole(sieve, r)
               flag == [in_sieve EXCEPT ![r] = TRUE]
    <3>1. Holes(sieve) # {}
      BY <1>1, <2>2, TracksNotFull
    <3>2. /\ UidOf(sieve) \in AnyUid /\ UidOf(sieve).hole = HoleAt(sieve)
          /\ UidOf(sieve).index = sieve.index /\ sv.index = sieve.index + 1
      BY <1>t, <3>1, NewUid
    <3>3. PutIn(sieve, uid, in_sieve, r, UidOf(sieve), sv, uid', flag)
      BY <1>3, <2>2, <3>1, <3>2 DEF PutIn
    <3>4. Owned(AnyUid, uid, in_sieve) /\ r \in Objects
      BY <1>t, UidSlots DEF Owned, Requests
    <3>5. /\ uid' \in [Requests -> AnyUid] /\ uid'[r].hole = HoleAt(sieve)
          /\ in_sieve' = [flag EXCEPT ![r] = FALSE] /\ flag[r]
          /\ flag \in [Requests -> BOOLEAN]
      BY <1>2, <1>3, <1>t, <2>2, <3>2
    <3> HIDE DEF sv, flag
    <3>6. Tracks(sv, uid', flag)
      BY <1>1, <3>2, <3>3, <3>4, TracksInsert
    <3>7. Owned(AnyUid, uid', flag)
      BY <3>5, UidSlots DEF Owned, Requests
    <3>8. TakenOut(sv, uid', flag, r, sieve', in_sieve')
      BY <2>2, <3>5 DEF TakenOut, sv
    <3>9. Tracks(sieve', uid', in_sieve') /\ sieve'.index = sv.index
      BY <3>4, <3>6, <3>7, <3>8, TracksRemove
    <3>10. \A i \in DOMAIN pipe' : pipe'[i].req = r \/ (i \in DOMAIN pipe /\ pipe'[i] = pipe[i])
      BY <1>2
    <3>11. sieve'.index = sieve.index + 1
      BY <3>2, <3>9
    <3>12. IdsUnique'
      BY <1>1, <1>2, <2>2, <3>2, <3>10, <3>11, NextId
    <3> QED BY <3>5, <3>9, <3>12
  <2> QED BY <2>1, <2>2 DEF http_request_unavailable
<1>7. TypeOK'
  <2>1. sieve' \in SieveType
    BY <1>6 DEF Tracks
  <2>2. refcnt' \in [Requests -> Int]
    BY <1>2, <1>t
  <2> QED BY <1>1, <1>2, <1>5, <1>6, <2>1, <2>2, Types
<1>8. Waiting'
  <2> SUFFICES ASSUME NEW q \in Requests
               PROVE  /\ in_sieve'[q] => written'[q] = << >> /\ client'[q] # "idle" /\ refcnt'[q] > 0
                      /\ client'[q] = "idle" => written'[q] = << >> /\ refcnt'[q] = 0
                      /\ timeout'[q] <=> in_sieve'[q] /\ mode' # "NoTimeout"
    BY DEF Waiting
  <2>1. CASE q = r
    <3>1. ~ in_sieve'[q] /\ client'[q] # "idle" /\ timeout'[q] = timeout[q] /\ ~ in_sieve[q]
      BY <1>2, <1>3, <1>5, <2>1
    <3> QED BY <1>1, <3>1 DEF Waiting
  <2>2. CASE q # r
    <3>1. /\ in_sieve'[q] = in_sieve[q] /\ client'[q] = client[q] /\ refcnt'[q] = refcnt[q]
          /\ timeout'[q] = timeout[q] /\ written'[q] = written[q]
      BY <1>2, <1>5, <1>t, <2>2
    <3> QED BY <1>1, <3>1 DEF Waiting
  <2> QED BY <2>1, <2>2
<1>9. RefcntExact'
  <2> SUFFICES ASSUME NEW q \in Requests PROVE refcnt'[q] = Held(client', pipe', q)
    BY RefcntHeld
  <2>1. refcnt[q] = Held(client, pipe, q) /\ Cardinality(Places(pipe, q)) \in Nat
    BY <1>1, <1>t, RefcntHeld, PlacesFinite
  <2>3. CASE q = r
    <3>1. client'[q] = "answered" /\ refcnt'[q] = 1 /\ client[q] = "idle" /\ refcnt[q] = 0
      BY <1>2, <1>3, <1>5, <1>t, <2>3
    <3> QED BY <1>2, <2>1, <2>3, <3>1 DEF Held
  <2>4. CASE q # r
    <3>1. client'[q] = client[q] /\ refcnt'[q] = refcnt[q]
      BY <1>2, <1>5, <1>t, <2>4
    <3> QED BY <1>2, <2>1, <3>1 DEF Held
  <2> QED BY <2>3, <2>4
<1> QED BY <1>5, <1>6, <1>7, <1>8, <1>9, IndInvAfter

-----------------------------------------------------------------------------
(* A retry of a request that waits: RetryLast moves it to a new slot under *)
(* the next id, and otherwise it keeps both.                               *)
LEMMA ReissueTracks ==
  ASSUME IndInv, NEW r \in Requests, in_sieve[r], uid' = [uid EXCEPT ![r] = Reissue(r).uid]
  PROVE  /\ uid' \in [Requests -> AnyUid]
         /\ Tracks(Reissue(r).sieve, uid', in_sieve)
         /\ \/ uid' = uid /\ Reissue(r).sieve.index = sieve.index
            \/ /\ Reissue(r).uid.index = sieve.index
               /\ Reissue(r).sieve.index = sieve.index + 1
<1>1. /\ TypeOK /\ Tracks(sieve, uid, in_sieve)
      /\ uid \in [Requests -> AnyUid] /\ in_sieve \in [Requests -> BOOLEAN]
  BY Types DEF IndInv
<1>2. CASE RetryMode(r) # "RetryLast"
  <2>1. Reissue(r).sieve = sieve /\ Reissue(r).uid = uid[r]
    BY <1>2 DEF Reissue
  <2>2. uid' = uid
    BY <1>1, <2>1
  <2> QED BY <1>1, <2>1, <2>2
<1>3. CASE RetryMode(r) = "RetryLast"
  <2> DEFINE freed == sieve_empty(sieve, uid[r].hole)
             out == [in_sieve EXCEPT ![r] = FALSE]
             sv == sieve_find_hole(freed, r)
             x == UidOf(freed)
  <2>1. Reissue(r).sieve = sv /\ Reissue(r).uid = x
    BY <1>3 DEF Reissue
  <2>2. TakenOut(sieve, uid, in_sieve, r, freed, out)
    BY DEF TakenOut
  <2>3. Owned(AnyUid, uid, in_sieve) /\ Owned(AnyUid, uid, out) /\ r \in Objects
    BY <1>1, UidSlots DEF Owned, Requests
  <2>4. ~ out[r] /\ in_sieve = [out EXCEPT ![r] = TRUE]
    BY <1>1
  <2> HIDE DEF freed, out
  <2>5. Tracks(freed, uid, out) /\ Holes(freed) # {} /\ freed.index = sieve.index
    BY <1>1, <2>2, <2>3, TracksRemove
  <2>6. /\ x \in AnyUid /\ x.hole = HoleAt(freed) /\ x.index = sieve.index
        /\ sv.index = sieve.index + 1
    <3>1. freed \in SieveType
      BY <2>5 DEF Tracks
    <3> QED BY <2>5, <3>1, NewUid
  <2>7. PutIn(freed, uid, out, r, x, sv, uid', in_sieve)
    BY <2>1, <2>4, <2>5, <2>6 DEF PutIn
  <2> HIDE DEF sv, x
  <2>8. Tracks(sv, uid', in_sieve)
    BY <2>3, <2>5, <2>6, <2>7, TracksInsert
  <2>9. uid' \in [Requests -> AnyUid]
    BY <1>1, <2>1, <2>6
  <2> QED BY <2>1, <2>6, <2>8, <2>9
<1> QED BY <1>2, <1>3

(* The ids after a retry. *)
LEMMA ReissueIds ==
  ASSUME IndInv, NEW r \in Requests, in_sieve[r], uid' = [uid EXCEPT ![r] = Reissue(r).uid],
         sieve'.index = Reissue(r).sieve.index, inbox' = inbox,
         \A q \in Requests : in_sieve'[q] => in_sieve[q],
         \A i \in DOMAIN pipe' : pipe'[i].req = r \/ (i \in DOMAIN pipe /\ pipe'[i] = pipe[i])
  PROVE  IdsUnique'
<1>1. TypeOK /\ IdsUnique
  BY DEF IndInv
<1>2. \/ uid' = uid /\ Reissue(r).sieve.index = sieve.index
      \/ /\ Reissue(r).uid.index = sieve.index
         /\ Reissue(r).sieve.index = sieve.index + 1
  BY ReissueTracks
<1>3. CASE uid' = uid /\ Reissue(r).sieve.index = sieve.index
  <2>1. \A i \in DOMAIN pipe' : uid[pipe'[i].req].index >= 0
    BY <1>1 DEF IdsUnique
  <2> QED BY <1>1, <1>3, <2>1, SameIds
<1>4. CASE /\ Reissue(r).uid.index = sieve.index
           /\ Reissue(r).sieve.index = sieve.index + 1
  <2>1. sieve'.index = sieve.index + 1
    BY <1>4
  <2> QED BY <1>1, <1>4, <2>1, NextId
<1> QED BY <1>2, <1>3, <1>4

(* The timer of a request runs out, for the last time. *)
LEMMA GivesUpInv ==
  ASSUME IndInv, NEW r \in Requests, request_gives_up(r), mode' = mode
  PROVE  IndInv'
<1>1. /\ TypeOK /\ Tracks(sieve, uid, in_sieve) /\ Waiting /\ IdsUnique
      /\ retries \in [Requests -> Nat] /\ uid \in [Requests -> AnyUid]
  BY Types DEF IndInv
<1>2. /\ timeout[r] /\ Respond(r, Static("504")) /\ retries' = [retries EXCEPT ![r] = @ + 1]
      /\ uid' = uid /\ refcnt' = refcnt /\ pipe' = pipe /\ inbox' = inbox
      /\ request_finish(r, sieve)
  BY DEF request_gives_up
<1>3. in_sieve[r] /\ Static("504") \in Response /\ Static("504").of = NULL
  BY <1>1, <1>2 DEF Waiting, Static, Response
<1>4. retries' \in [Requests -> Nat]
  BY <1>1, <1>2
<1>5. /\ TypeOK' /\ Tracks(sieve', uid', in_sieve') /\ Waiting'
      /\ RefcntExact' /\ OneOwnResponse' /\ sieve'.index = sieve.index
  BY <1>1, <1>2, <1>3, <1>4, Ends
<1>6. IdsUnique'
  <2>1. \A q \in Requests : in_sieve'[q] => in_sieve[q]
    BY <1>1, <1>2, Types DEF request_finish
  <2>2. \A i \in DOMAIN pipe' : uid[pipe'[i].req].index >= 0
    BY <1>1, <1>2 DEF IdsUnique
  <2> QED BY <1>1, <1>2, <1>5, <2>1, <2>2, SameIds
<1> QED BY <1>5, <1>6, IndInvAfter

(* ... or the request cannot be forwarded again. *)
LEMMA RetryFailsInv ==
  ASSUME IndInv, NEW r \in Requests, request_retry_fails(r), mode' = mode
  PROVE  IndInv'
<1>1. /\ TypeOK /\ Waiting /\ retries \in [Requests -> Nat]
  BY Types DEF IndInv
<1>2. /\ timeout[r] /\ Respond(r, Static("503")) /\ retries' = [retries EXCEPT ![r] = @ + 1]
      /\ uid' = [uid EXCEPT ![r] = Reissue(r).uid]
      /\ refcnt' = refcnt /\ pipe' = pipe /\ inbox' = inbox
      /\ request_finish(r, Reissue(r).sieve)
  BY DEF request_retry_fails
<1>3. in_sieve[r] /\ Static("503") \in Response /\ Static("503").of = NULL
  BY <1>1, <1>2 DEF Waiting, Static, Response
<1>4. retries' \in [Requests -> Nat]
  BY <1>1, <1>2
<1>5. uid' \in [Requests -> AnyUid] /\ Tracks(Reissue(r).sieve, uid', in_sieve)
  BY <1>2, <1>3, ReissueTracks
<1>6. /\ TypeOK' /\ Tracks(sieve', uid', in_sieve') /\ Waiting'
      /\ RefcntExact' /\ OneOwnResponse' /\ sieve'.index = Reissue(r).sieve.index
  BY <1>2, <1>3, <1>4, <1>5, Ends
<1>7. IdsUnique'
  <2>1. \A q \in Requests : in_sieve'[q] => in_sieve[q]
    BY <1>1, <1>2, Types DEF request_finish
  <2>2. \A i \in DOMAIN pipe' : pipe'[i].req = r \/ (i \in DOMAIN pipe /\ pipe'[i] = pipe[i])
    BY <1>2
  <2> QED BY <1>2, <1>3, <1>6, <2>1, <2>2, ReissueIds
<1> QED BY <1>6, <1>7, IndInvAfter

(* ... or it is. *)
LEMMA RetriesInv ==
  ASSUME IndInv, NEW r \in Requests, request_retries(r), mode' = mode
  PROVE  IndInv'
<1>1. /\ TypeOK /\ Waiting /\ RefcntExact /\ OneOwnResponse
      /\ retries \in [Requests -> Nat] /\ refcnt \in [Requests -> Int]
  BY Types DEF IndInv
<1>2. /\ timeout[r] /\ retries' = [retries EXCEPT ![r] = @ + 1]
      /\ sieve' = Reissue(r).sieve
      /\ uid' = [uid EXCEPT ![r] = Reissue(r).uid]
      /\ pipe' = Append(pipe, [req |-> r, attempt |-> retries'[r] + 1])
      /\ refcnt' = [refcnt EXCEPT ![r] = @ + 1]
      /\ in_sieve' = in_sieve /\ timeout' = timeout /\ client' = client
      /\ written' = written /\ inbox' = inbox
  BY DEF request_retries, do_forward
<1>3. in_sieve[r] /\ refcnt[r] > 0
  BY <1>1, <1>2 DEF Waiting
<1>4. retries' \in [Requests -> Nat] /\ retries'[r] + 1 \in Nat
  BY <1>1, <1>2
<1>5. uid' \in [Requests -> AnyUid] /\ Tracks(sieve', uid', in_sieve')
  BY <1>2, <1>3, ReissueTracks
<1>6. /\ pipe' \in Seq(Message)
      /\ \A i \in DOMAIN pipe' : pipe'[i].req = r \/ (i \in DOMAIN pipe /\ pipe'[i] = pipe[i])
      /\ \A q \in Requests : /\ Cardinality(Places(pipe, q)) \in Nat
                             /\ Cardinality(Places(pipe', q)) =
                                  Cardinality(Places(pipe, q)) + (IF r = q THEN 1 ELSE 0)
  BY <1>1, <1>2, <1>4, Sent
<1>7. TypeOK'
  <2>1. sieve' \in SieveType
    BY <1>5 DEF Tracks
  <2>2. refcnt' \in [Requests -> Int]
    BY <1>1, <1>2
  <2> QED BY <1>1, <1>2, <1>4, <1>5, <1>6, <2>1, <2>2, Types
<1>8. /\ refcnt'[r] = refcnt[r] + 1
      /\ \A q \in Requests : q # r => refcnt'[q] = refcnt[q]
  BY <1>1, <1>2
<1>9. Waiting'
  <2>1. \A q \in Requests : refcnt[q] \in Int
    BY <1>1
  <2>2. client[r] # "idle"
    BY <1>1, <1>3 DEF Waiting
  <2>3. \A q \in Requests : /\ in_sieve[q] => refcnt'[q] > 0
                            /\ client[q] = "idle" => refcnt'[q] = 0
    BY <1>1, <1>3, <1>8, <2>1, <2>2 DEF Waiting
  <2> QED BY <1>1, <1>2, <2>3 DEF Waiting
<1>10. IdsUnique'
  <2>1. sieve'.index = Reissue(r).sieve.index /\ \A q \in Requests : in_sieve'[q] => in_sieve[q]
    BY <1>2
  <2> QED BY <1>2, <1>3, <1>6, <2>1, ReissueIds
<1>11. RefcntExact'
  <2> SUFFICES ASSUME NEW q \in Requests PROVE refcnt'[q] = Held(client', pipe', q)
    BY RefcntHeld
  <2>1. refcnt[q] = Held(client, pipe, q)
    BY <1>1, RefcntHeld
  <2> QED BY <1>2, <1>6, <1>8, <2>1 DEF Held
<1>12. OneOwnResponse'
  BY <1>1, <1>2 DEF OneOwnResponse
<1> QED BY <1>5, <1>7, <1>9, <1>10, <1>11, <1>12, IndInvAfter

-----------------------------------------------------------------------------
(* An answer of a backend that finds a request finds the one it is for. *)
LEMMA ProcessInv ==
  ASSUME IndInv, NEW m \in inbox, NEW x, x = Answer(m) \/ x = Static("500"),
         http_process(m, x), mode' = mode
  PROVE  IndInv'
<1>1. /\ TypeOK /\ Tracks(sieve, uid, in_sieve) /\ Waiting /\ IdsUnique
      /\ retries \in [Requests -> Nat] /\ uid \in [Requests -> AnyUid]
      /\ inbox \subseteq [uid : AnyUid, req : Requests, attempt : Nat]
  BY Types DEF IndInv
<1>2. PICK r \in Requests :
        /\ r \in sieve_get(sieve, m.uid.hole) /\ uid[r] = m.uid /\ Respond(r, x)
        /\ uid' = uid /\ retries' = retries /\ refcnt' = refcnt /\ pipe' = pipe
        /\ inbox' = inbox /\ request_finish(r, sieve)
  BY DEF http_process, UID_EQ
<1>3. in_sieve[r]
  <2>1. m.uid.hole \in Slots
    BY <1>1 DEF AnyUid
  <2>2. sieve_get(sieve, m.uid.hole) = {sieve.items[m.uid.hole]}
    BY <2>1, MaxAssumption DEF sieve_get, Slots
  <2>3. sieve.items[m.uid.hole] = r /\ r # NULL
    BY <1>2, <2>2, NullAssumption DEF Requests
  <2>4. m.uid.hole \in Occupied(sieve)
    BY <2>1, <2>3 DEF Occupied, Holes
  <2> QED BY <1>1, <2>3, <2>4 DEF Tracks
<1>4. m.req = r
  BY <1>1, <1>2 DEF IdsUnique
<1>5. x \in Response /\ x.of \in {r, NULL}
  <2>1. CASE x = Answer(m)
    <3>1. m.attempt \in Nat
      BY <1>1
    <3> QED BY <1>4, <2>1, <3>1 DEF Answer, Response
  <2>2. CASE x = Static("500")
    BY <2>2 DEF Static, Response
  <2> QED BY <2>1, <2>2
<1>6. /\ TypeOK' /\ Tracks(sieve', uid', in_sieve') /\ Waiting'
      /\ RefcntExact' /\ OneOwnResponse' /\ sieve'.index = sieve.index
  BY <1>1, <1>2, <1>3, <1>5, Ends
<1>7. IdsUnique'
  <2>1. \A q \in Requests : in_sieve'[q] => in_sieve[q]
    BY <1>1, <1>2, Types DEF request_finish
  <2>2. \A i \in DOMAIN pipe' : uid[pipe'[i].req].index >= 0
    BY <1>1, <1>2 DEF IdsUnique
  <2> QED BY <1>1, <1>2, <1>6, <2>1, <2>2, SameIds
<1> QED BY <1>6, <1>7, IndInvAfter

(* A party lets go of a request that it holds: what the request's state    *)
(* is, given what the party does to the client's state and the pipe.       *)
LEMMA LetGo ==
  ASSUME IndInv, NEW r \in Requests, refcnt[r] >= 1, client[r] # "idle",
         REQ_DECREF(r), uid' = uid, written' = written, mode' = mode,
         client' \in [Requests -> {"idle", "waiting", "answered", "closed"}],
         client'[r] # "idle", \A q \in Requests : q # r => client'[q] = client[q],
         \A q \in Requests : Held(client', pipe', q) = Held(client, pipe, q) - (IF q = r THEN 1 ELSE 0)
  PROVE  /\ Tracks(sieve', uid', in_sieve') /\ Waiting' /\ RefcntExact' /\ OneOwnResponse'
         /\ sieve'.index = sieve.index /\ sieve' \in SieveType
         /\ refcnt' \in [Requests -> Int] /\ in_sieve' \in [Requests -> BOOLEAN]
         /\ timeout' \in [Requests -> BOOLEAN]
         /\ \A q \in Requests : in_sieve'[q] => in_sieve[q]
<1>1. /\ RequestTypeOK /\ Tracks(sieve, uid, in_sieve) /\ Waiting /\ RefcntExact
      /\ OneOwnResponse /\ refcnt \in [Requests -> Int]
  BY DEF IndInv, TypeOK, RequestTypeOK
<1>2. /\ Tracks(sieve', uid', in_sieve')
      /\ sieve'.index = sieve.index
      /\ refcnt' = [refcnt EXCEPT ![r] = @ - 1]
      /\ in_sieve' \in [Requests -> BOOLEAN] /\ timeout' \in [Requests -> BOOLEAN]
      /\ \A q \in Requests : q # r => in_sieve'[q] = in_sieve[q] /\ timeout'[q] = timeout[q]
      /\ refcnt[r] = 1 => ~ in_sieve'[r] /\ ~ timeout'[r]
      /\ refcnt[r] # 1 => in_sieve'[r] = in_sieve[r] /\ timeout'[r] = timeout[r]
  BY <1>1, DecrefTracks
<1>3. /\ refcnt' \in [Requests -> Int] /\ refcnt'[r] = refcnt[r] - 1
      /\ \A q \in Requests : q # r => refcnt'[q] = refcnt[q]
  BY <1>1, <1>2
<1>4. \A q \in Requests : in_sieve'[q] => in_sieve[q]
  BY <1>2
<1>5. Waiting'
  <2> SUFFICES ASSUME NEW q \in Requests
               PROVE  /\ in_sieve'[q] => written'[q] = << >> /\ client'[q] # "idle" /\ refcnt'[q] > 0
                      /\ client'[q] = "idle" => written'[q] = << >> /\ refcnt'[q] = 0
                      /\ timeout'[q] <=> in_sieve'[q] /\ mode' # "NoTimeout"
    BY DEF Waiting
  <2>1. CASE q # r
    BY <1>1, <1>2, <1>3, <2>1 DEF Waiting
  <2>2. CASE q = r /\ refcnt[r] = 1
    BY <1>2, <2>2
  <2>3. CASE q = r /\ refcnt[r] # 1
    <3>1. in_sieve'[r] = in_sieve[r] /\ timeout'[r] = timeout[r]
      BY <1>2, <2>3
    <3>2. refcnt'[r] > 0
      BY <1>1, <1>3, <2>3
    <3>3. /\ in_sieve[r] => written[r] = << >>
          /\ timeout[r] <=> in_sieve[r] /\ mode # "NoTimeout"
      BY <1>1 DEF Waiting
    <3> QED BY <2>3, <3>1, <3>2, <3>3
  <2> QED BY <2>1, <2>2, <2>3
<1>6. RefcntExact'
  <2> SUFFICES ASSUME NEW q \in Requests PROVE refcnt'[q] = Held(client', pipe', q)
    BY RefcntHeld
  <2>1. refcnt[q] = Held(client, pipe, q) /\ refcnt[q] \in Int
    BY <1>1, RefcntHeld
  <2> QED BY <1>3, <2>1
<1>7. OneOwnResponse'
  BY <1>1 DEF OneOwnResponse
<1>8. sieve' \in SieveType
  BY <1>2 DEF Tracks
<1> QED BY <1>2, <1>3, <1>4, <1>5, <1>6, <1>7, <1>8

(* The connection lets go of a request. *)
LEMMA FinishInv ==
  ASSUME IndInv, NEW r \in Requests, http_request_finish(r), mode' = mode
  PROVE  IndInv'
<1>1. /\ TypeOK /\ IdsUnique /\ RefcntExact
      /\ client \in [Requests -> {"idle", "waiting", "answered", "closed"}]
      /\ pipe \in Seq(Message)
  BY Types DEF IndInv
<1>2. /\ client[r] \in {"waiting", "answered"} /\ client' = [client EXCEPT ![r] = "closed"]
      /\ uid' = uid /\ retries' = retries /\ written' = written /\ pipe' = pipe
      /\ inbox' = inbox /\ REQ_DECREF(r)
  BY DEF http_request_finish
<1>3. /\ client' \in [Requests -> {"idle", "waiting", "answered", "closed"}]
      /\ client'[r] = "closed" /\ \A q \in Requests : q # r => client'[q] = client[q]
  BY <1>1, <1>2
<1>4. \A q \in Requests : Cardinality(Places(pipe, q)) \in Nat
  BY <1>1, PlacesFinite
<1>5. refcnt[r] >= 1
  <2>1. refcnt[r] = Held(client, pipe, r)
    BY <1>1, RefcntHeld
  <2> QED BY <1>2, <1>4, <2>1 DEF Held
<1>6. \A q \in Requests : Held(client', pipe', q) = Held(client, pipe, q) - (IF q = r THEN 1 ELSE 0)
  BY <1>2, <1>3, <1>4 DEF Held
<1>7. /\ Tracks(sieve', uid', in_sieve') /\ Waiting' /\ RefcntExact' /\ OneOwnResponse'
      /\ sieve'.index = sieve.index /\ sieve' \in SieveType
      /\ refcnt' \in [Requests -> Int] /\ in_sieve' \in [Requests -> BOOLEAN]
      /\ timeout' \in [Requests -> BOOLEAN]
      /\ \A q \in Requests : in_sieve'[q] => in_sieve[q]
  <2>1. client[r] # "idle" /\ client'[r] # "idle"
    BY <1>2, <1>3
  <2> QED BY <1>2, <1>3, <1>5, <1>6, <2>1, LetGo
<1>8. TypeOK'
  BY <1>1, <1>2, <1>3, <1>7, Types
<1>9. IdsUnique'
  <2>1. \A i \in DOMAIN pipe' : uid[pipe'[i].req].index >= 0
    BY <1>1, <1>2 DEF IdsUnique
  <2> QED BY <1>1, <1>2, <1>7, <2>1, SameIds
<1> QED BY <1>7, <1>8, <1>9, IndInvAfter

(* zeromq sends a message, with the id that the request carries now, and   *)
(* lets go of the request.                                                 *)
LEMMA SendsInv ==
  ASSUME IndInv, zmq_sends, mode' = mode
  PROVE  IndInv'
<1> DEFINE m == Head(pipe)
           r == m.req
           got == [uid |-> uid[r], req |-> r, attempt |-> m.attempt]
<1>1. /\ TypeOK /\ IdsUnique /\ RefcntExact /\ Waiting
      /\ client \in [Requests -> {"idle", "waiting", "answered", "closed"}]
      /\ pipe \in Seq(Message) /\ uid \in [Requests -> AnyUid] /\ refcnt \in [Requests -> Int]
      /\ inbox \subseteq [uid : AnyUid, req : Requests, attempt : Nat]
  BY Types DEF IndInv
<1>2. /\ pipe # << >> /\ pipe' = Tail(pipe) /\ inbox' = inbox \cup {got}
      /\ uid' = uid /\ retries' = retries /\ client' = client /\ written' = written
      /\ REQ_DECREF(r)
  BY DEF zmq_sends
<1>3. /\ m \in Message /\ pipe' \in Seq(Message) /\ Len(pipe') = Len(pipe) - 1
      /\ Len(pipe) \in Nat \ {0} /\ m = pipe[1]
      /\ \A i \in 1 .. Len(pipe') : pipe'[i] = pipe[i + 1]
  BY <1>1, <1>2, HeadTailProperties, EmptySeq
<1>4. DOMAIN pipe = 1 .. Len(pipe) /\ DOMAIN pipe' = 1 .. Len(pipe')
  BY <1>1, <1>3, LenProperties
<1> HIDE DEF m
<1>5. r \in Requests /\ m.attempt \in Nat
  BY <1>3 DEF Message
<1>6. /\ got \in [uid : AnyUid, req : Requests, attempt : Nat]
      /\ got.uid = uid[r] /\ got.req = r
  BY <1>1, <1>5
<1> HIDE DEF r, got
<1>7. \A q \in Requests : /\ Cardinality(Places(pipe, q)) \in Nat
                          /\ Cardinality(Places(pipe', q)) =
                               Cardinality(Places(pipe, q)) - (IF r = q THEN 1 ELSE 0)
  <2> TAKE q \in Requests
  <2>1. Cardinality(Places(Tail(pipe), q)) =
          Cardinality(Places(pipe, q)) - (IF Head(pipe).req = q THEN 1 ELSE 0)
    BY <1>1, <1>2, PlacesTail
  <2> QED BY <1>1, <1>2, <2>1, PlacesFinite DEF m, r
<1>8. /\ \A q \in Requests :
           Held(client', pipe', q) = Held(client, pipe, q) - (IF q = r THEN 1 ELSE 0)
  BY <1>2, <1>7 DEF Held
<1>9. refcnt[r] >= 1
  <2>1. 1 \in Places(pipe, r)
    BY <1>3, <1>4 DEF Places, r
  <2>2. IsFiniteSet(Places(pipe, r))
    BY <1>1, PlacesFinite
  <2>3. Cardinality(Places(pipe, r)) # 0
    BY <2>1, <2>2, FS_EmptySet
  <2>4. refcnt[r] = Held(client, pipe, r)
    BY <1>1, <1>5, RefcntHeld
  <2> QED BY <1>5, <1>7, <2>3, <2>4 DEF Held
<1>10. client[r] # "idle"
  BY <1>1, <1>5, <1>9 DEF Waiting
<1>11. /\ Tracks(sieve', uid', in_sieve') /\ Waiting' /\ RefcntExact' /\ OneOwnResponse'
       /\ sieve'.index = sieve.index /\ sieve' \in SieveType
       /\ refcnt' \in [Requests -> Int] /\ in_sieve' \in [Requests -> BOOLEAN]
       /\ timeout' \in [Requests -> BOOLEAN]
       /\ \A q \in Requests : in_sieve'[q] => in_sieve[q]
  <2>1. /\ client' \in [Requests -> {"idle", "waiting", "answered", "closed"}]
        /\ client'[r] # "idle" /\ \A q \in Requests : q # r => client'[q] = client[q]
    BY <1>1, <1>2, <1>10
  <2> QED BY <1>2, <1>5, <1>8, <1>9, <1>10, <2>1, LetGo
<1>12. TypeOK'
  BY <1>1, <1>2, <1>3, <1>6, <1>11, Types
<1>13. IdsUnique'
  <2>1. uid[r].index >= 0 /\ uid[r].index < sieve.index
    BY <1>1, <1>3, <1>4, <1>5 DEF IdsUnique, r
  <2>2. \A q \in Requests : uid[r].index = uid[q].index => r = q
    BY <1>1, <1>5, <2>1 DEF IdsUnique
  <2>3. \A i \in DOMAIN pipe' : uid'[pipe'[i].req].index >= 0
    <3> TAKE i \in DOMAIN pipe'
    <3>1. i + 1 \in DOMAIN pipe /\ pipe'[i] = pipe[i + 1]
      BY <1>3, <1>4
    <3> QED BY <1>1, <1>2, <3>1 DEF IdsUnique
  <2>4. \A n \in inbox' : n.uid.index >= 0 /\ n.uid.index < sieve'.index
    BY <1>1, <1>2, <1>6, <1>11, <2>1 DEF IdsUnique
  <2>5. \A n \in inbox', q \in Requests : n.uid.index = uid'[q].index => n.req = q
    BY <1>1, <1>2, <1>6, <2>2 DEF IdsUnique
  <2> QED BY <1>1, <1>2, <1>11, <2>3, <2>4, <2>5 DEF IdsUnique
<1> QED BY <1>11, <1>12, <1>13, IndInvAfter

-----------------------------------------------------------------------------
(* Every step keeps the invariant. *)
LEMMA StepInv == IndInv /\ [Next]_vars => IndInv'
<1> SUFFICES ASSUME IndInv, [Next]_vars PROVE IndInv'
  OBVIOUS
<1>1. ASSUME NEW r \in Requests, mode' = mode, http_request(r) PROVE IndInv'
  BY <1>1, HttpRequestInv
<1>2. ASSUME NEW r \in Requests, mode' = mode, http_request_unavailable(r) PROVE IndInv'
  BY <1>2, UnavailableInv
<1>3. ASSUME NEW r \in Requests, mode' = mode, request_timeout(r) PROVE IndInv'
  BY <1>3, GivesUpInv, RetriesInv, RetryFailsInv DEF request_timeout
<1>4. ASSUME NEW r \in Requests, mode' = mode, http_request_finish(r) PROVE IndInv'
  BY <1>4, FinishInv
<1>5. ASSUME NEW m \in inbox, mode' = mode,
             http_process(m, Answer(m)) \/ http_process(m, Static("500"))
      PROVE  IndInv'
  BY <1>5, ProcessInv
<1>6. ASSUME mode' = mode, zmq_sends PROVE IndInv'
  BY <1>6, SendsInv
<1>7. CASE UNCHANGED vars
  <2>1. /\ sieve' = sieve /\ uid' = uid /\ in_sieve' = in_sieve /\ timeout' = timeout
        /\ refcnt' = refcnt /\ client' = client /\ written' = written /\ mode' = mode
        /\ retries' = retries /\ pipe' = pipe /\ inbox' = inbox
    BY <1>7 DEF vars, request_vars
  <2>2. TypeOK'
    BY <2>1, Types DEF IndInv
  <2>3. Tracks(sieve', uid', in_sieve')
    BY <2>1 DEF IndInv
  <2>4. Waiting'
    BY <2>1 DEF IndInv, Waiting
  <2>5. IdsUnique'
    BY <2>1 DEF IndInv, IdsUnique
  <2>6. RefcntExact'
    BY <2>1, RefcntHeld DEF IndInv
  <2>7. OneOwnResponse'
    BY <2>1 DEF IndInv, OneOwnResponse
  <2> QED BY <2>2, <2>3, <2>4, <2>5, <2>6, <2>7, IndInvAfter
<1> QED BY <1>1, <1>2, <1>3, <1>4, <1>5, <1>6, <1>7 DEF Next

(* The inductive invariant holds in every behaviour. *)
THEOREM Invariance == Spec => []IndInv
BY InitInv, StepInv, PTL DEF Spec

(* A request gets one response at most, and never that of another request, *)
(* though slots are reused (http_process's UID_EQ), answers come late or   *)
(* twice, and a message points to an id that may have changed.             *)
THEOREM OneOwnResponseHolds == Spec => []OneOwnResponse
<1>1. IndInv => OneOwnResponse
  BY DEF IndInv
<1> QED BY <1>1, Invariance, PTL

(* refcnt counts the connection and the messages inside zeromq, whatever   *)
(* the order in which they let go (REQ_INCREF in do_forward, REQ_DECREF in *)
(* http_request_finish and request_decref).                                *)
THEOREM RefcntHolds == Spec => []RefcntExact
<1>1. IndInv => RefcntExact
  BY DEF IndInv
<1> QED BY <1>1, Invariance, PTL

(* The sieve lists the requests that wait, each in the slot of its id, and *)
(* only these have a timer: request_timeout's assertion never fails, a     *)
(* slot is given back once, and no freed request is listed.                *)
THEOREM OnlyWaitingTrackedHolds == Spec => []OnlyWaitingTracked
<1>1. ASSUME IndInv PROVE OnlyWaitingTracked
  <2>1. /\ TypeOK /\ Tracks(sieve, uid, in_sieve) /\ Waiting
        /\ uid \in [Objects -> AnyUid]
    BY <1>1, Types DEF IndInv, Requests
  <2>2. sieve.filled = Cardinality({o \in Objects : in_sieve[o]})
    BY <2>1, UidSlots, TracksCount
  <2>3. SieveExact
    BY <2>1, <2>2 DEF SieveExact, Tracks, Waiting, Requests
  <2> QED BY <2>1, <2>3 DEF OnlyWaitingTracked, Waiting
<1> QED BY <1>1, Invariance, PTL
=============================================================================
