----------------------------- MODULE DiskProofs -----------------------------
(***************************************************************************)
(* For every number of requests, slots, threads and writes, and whatever   *)
(* clients, threads, other programs and SIGINT do in which order: the      *)
(* assertions of disk_process hold, a request that a thread works on is    *)
(* not freed, no answer is left without an event for the loop, and a       *)
(* client is told to keep only what the file has.                          *)
(***************************************************************************)
EXTENDS Disk, SieveProofs, SequenceTheorems

JobType == [of : Requests, gzipped : BOOLEAN, if_modified : Int, has : Nat]

MailType == {Shutdown} \cup JobType

WrittenType == Reply \cup [code : {"503", "403", "404"}, of : {NULL}]

(* The uid messages of r in the mail of threads: there is one, or there is *)
(* one at most.                                                            *)
In(mail, r) == \E t \in Threads : HasUid(mail[t], r)

Single(mail, r) ==
    \A t, u \in Threads : \A i \in DOMAIN mail[t], j \in DOMAIN mail[u] :
        mail[t][i].of = r /\ mail[u][j].of = r => t = u /\ i = j

Carried(to, from, r) == In(to, r) \/ In(from, r)

(* The inductive invariant.  While the loop runs a request has one uid     *)
(* message at most, with a thread or on its way back, ...                  *)
OneMessage(to, from) ==
    \A r \in Requests : Single(to, r) /\ Single(from, r) /\ ~ (In(to, r) /\ In(from, r))

NotStopped(to) == \A t \in Threads : \A i \in DOMAIN to[t] : to[t][i] # Shutdown

(* ... and such a request is in the sieve and not answered; ...            *)
Pending ==
    loop = "running" =>
        /\ OneMessage(inbox, replies)
        /\ NotStopped(inbox)
        /\ \A r \in Requests :
              /\ Carried(inbox, replies, r) =>
                    in_sieve[r] /\ written[r] = <<>> /\ client[r] # "idle"
              /\ refcnt[r] = ConnectionRefs(r) + (IF Carried(inbox, replies, r) THEN 1 ELSE 0)

(* ... a request that is in the sieve arrived and is not freed; ...        *)
Clean ==
    \A r \in Requests :
        /\ in_sieve[r] => client[r] # "idle" /\ refcnt[r] > 0
        /\ client[r] = "idle" => written[r] = <<>> /\ refcnt[r] = 0

(* ... a thread that has found or opened a file has a job; ...             *)
Busy ==
    \A t \in Threads :
        pc[t] \in {"resolved", "reading", "failing"} => inbox[t] # <<>> /\ Head(inbox[t]) # Shutdown

Drains == draining => loop = "running"

RequestsInv ==
    TypeOK /\ Tracks(sieve, uid, in_sieve) /\ Clean /\ Pending /\ OneOwnResponse
    /\ Busy /\ Drains /\ ~ dead /\ NoLostWakeup

(* ... and if no two writes share a second: two files never have the same  *)
(* version, and a label is that of the content, or one that no file has    *)
(* any more.                                                               *)
Fits(now, last, label, content) ==
    /\ label \in -1 .. last /\ label # 0
    /\ content = label \/ \A f \in Files : now[f] # label

FitsReply(now, last, m) ==
    /\ m.code = "200" => Fits(now, last, m.label, m.content)
    /\ m.code = "304" => m.content = m.current

FitsAll(now, last, mail) == \A i \in DOMAIN mail : FitsReply(now, last, mail[i])

FitsJobs(now, last, mail) ==
    \A i \in DOMAIN mail : mail[i] # Shutdown =>
        Fits(now, last, mail[i].if_modified, mail[i].has)

FitsOpen(now, last, o) ==
    o.version # 0 =>
        /\ o.version \in 1 .. last
        /\ \A f \in Files : f # o.file => now[f] # o.version

Versions(now) == now["plain"] = now["gz"] => now["plain"] = 0

Opened == {"reading", "failing"}

Fresh ==
    /\ Versions(version)
    /\ \A r \in Requests : FitsAll(version, writes, written[r])
    /\ \A t \in Threads : /\ FitsAll(version, writes, replies[t])
                          /\ FitsJobs(version, writes, inbox[t])
                          /\ FitsOpen(version, writes, open[t])
                          /\ pc[t] \in Opened => open[t].version # 0

-----------------------------------------------------------------------------
(* The mail of threads.                                                    *)

(* A sequence with one more element at its end. *)
LEMMA Appended ==
  ASSUME NEW S, NEW s \in Seq(S), NEW e \in S, NEW w, w = Append(s, e)
  PROVE  /\ w \in Seq(S) /\ w # << >> /\ Len(s) \in Nat
         /\ DOMAIN s = 1 .. Len(s) /\ DOMAIN w = 1 .. Len(s) + 1
         /\ w[Len(s) + 1] = e /\ \A i \in 1 .. Len(s) : w[i] = s[i]
         /\ s # << >> => Head(w) = Head(s)
<1>1. /\ w \in Seq(S) /\ w # << >> /\ Len(w) = Len(s) + 1
      /\ w[Len(s) + 1] = e /\ \A i \in 1 .. Len(s) : w[i] = s[i]
  BY AppendProperties
<1>2. Len(s) \in Nat /\ DOMAIN s = 1 .. Len(s) /\ DOMAIN w = 1 .. Len(w)
  BY <1>1, LenProperties
<1>3. s # << >> => Head(w) = Head(s)
  BY HeadTailAppend
<1> QED BY <1>1, <1>2, <1>3

(* A sequence without its first element. *)
LEMMA Beheaded ==
  ASSUME NEW S, NEW s \in Seq(S), s # << >>, NEW w, w = Tail(s)
  PROVE  /\ Head(s) \in S /\ w \in Seq(S) /\ Len(s) \in Nat \ {0} /\ Head(s) = s[1]
         /\ DOMAIN s = 1 .. Len(s) /\ DOMAIN w = 1 .. Len(s) - 1
         /\ \A i \in 1 .. Len(s) - 1 : w[i] = s[i + 1]
<1>1. /\ Head(s) \in S /\ Len(s) \in Nat \ {0} /\ w \in Seq(S) /\ Len(w) = Len(s) - 1
      /\ \A i \in 1 .. Len(w) : w[i] = s[i + 1]
  BY EmptySeq, HeadTailProperties
<1>2. DOMAIN s = 1 .. Len(s) /\ DOMAIN w = 1 .. Len(w)
  BY <1>1, LenProperties
<1>3. Head(s) = s[1]
  OBVIOUS
<1> QED BY <1>1, <1>2, <1>3

(* A message more for a thread. *)
Posted(mail, t, e, new) == new = [mail EXCEPT ![t] = Append(mail[t], e)]

(* The first message of a thread is taken. *)
Taken(mail, t, new) == mail[t] # <<>> /\ new = [mail EXCEPT ![t] = Tail(mail[t])]

(* A request has one message at most if its new one is the only one. *)
LEMMA PostedMail ==
  ASSUME NEW S, NEW mail \in [Threads -> Seq(S)], NEW t \in Threads, NEW e \in S,
         NEW new, Posted(mail, t, e, new)
  PROVE  /\ new \in [Threads -> Seq(S)]
         /\ \A q : In(new, q) <=> In(mail, q) \/ e.of = q
         /\ \A q : Single(mail, q) /\ (e.of = q => ~ In(mail, q)) => Single(new, q)
<1>1. new = [mail EXCEPT ![t] = Append(mail[t], e)]
  BY DEF Posted
<1> DEFINE s == mail[t]
           w == Append(s, e)
           n == Len(s) + 1
<1>2. /\ w \in Seq(S) /\ Len(s) \in Nat
      /\ DOMAIN s = 1 .. Len(s) /\ DOMAIN w = 1 .. Len(s) + 1
      /\ w[Len(s) + 1] = e /\ \A i \in 1 .. Len(s) : w[i] = s[i]
  BY Appended
<1>3. /\ new \in [Threads -> Seq(S)] /\ new[t] = w
      /\ \A u \in Threads : u # t => new[u] = mail[u]
  <2>1. w \in Seq(S)
    BY <1>2
  <2> HIDE DEF w
  <2> QED BY <1>1, <2>1 DEF w
<1> HIDE DEF w
(* A place of the new mail is an old one or the last of t. *)
<1>4. ASSUME NEW u \in Threads
      PROVE  \A i : i \in DOMAIN new[u] <=> i \in DOMAIN mail[u] \/ (u = t /\ i = n)
  BY <1>2, <1>3
<1>5. ASSUME NEW u \in Threads, NEW i \in DOMAIN mail[u]
      PROVE  i \in DOMAIN new[u] /\ new[u][i] = mail[u][i] /\ ~ (u = t /\ i = n)
  BY <1>2, <1>3
<1>6. n \in DOMAIN new[t] /\ new[t][n] = e
  BY <1>2, <1>3
<1> HIDE DEF n, s
<1>7. ASSUME NEW q PROVE In(new, q) <=> In(mail, q) \/ e.of = q
  <2>1. ASSUME In(new, q) PROVE In(mail, q) \/ e.of = q
    <3>1. PICK u \in Threads : HasUid(new[u], q)
      BY <2>1 DEF In
    <3>2. PICK i \in DOMAIN new[u] : new[u][i].of = q
      BY <3>1 DEF HasUid
    <3>3. CASE i \in DOMAIN mail[u]
      BY <1>5, <3>2, <3>3 DEF In, HasUid
    <3>4. CASE u = t /\ i = n
      BY <1>6, <3>2, <3>4
    <3> QED BY <1>4, <3>2, <3>3, <3>4
  <2>2. ASSUME In(mail, q) PROVE In(new, q)
    BY <1>5, <2>2 DEF In, HasUid
  <2>3. ASSUME e.of = q PROVE In(new, q)
    BY <1>6, <2>3 DEF In, HasUid
  <2> QED BY <2>1, <2>2, <2>3
<1>8. ASSUME NEW q, Single(mail, q), e.of = q => ~ In(mail, q)
      PROVE  Single(new, q)
  <2> SUFFICES ASSUME NEW a \in Threads, NEW b \in Threads,
                      NEW i \in DOMAIN new[a], NEW j \in DOMAIN new[b],
                      new[a][i].of = q, new[b][j].of = q
               PROVE  a = b /\ i = j
    BY DEF Single
  <2>1. CASE i \in DOMAIN mail[a] /\ j \in DOMAIN mail[b]
    BY <1>5, <1>8, <2>1 DEF Single
  <2>2. CASE (a = t /\ i = n) /\ (b = t /\ j = n)
    BY <2>2
  <2>3. CASE (a = t /\ i = n) /\ j \in DOMAIN mail[b]
    <3>1. e.of = q /\ mail[b][j].of = q
      BY <1>5, <1>6, <2>3
    <3> QED BY <1>8, <2>3, <3>1 DEF In, HasUid
  <2>4. CASE i \in DOMAIN mail[a] /\ (b = t /\ j = n)
    <3>1. e.of = q /\ mail[a][i].of = q
      BY <1>5, <1>6, <2>4
    <3> QED BY <1>8, <2>4, <3>1 DEF In, HasUid
  <2> QED BY <1>4, <2>1, <2>2, <2>3, <2>4
<1> QED BY <1>3, <1>7, <1>8

(* The request of the message that is taken has none left if it had one.   *)
LEMMA TakenMail ==
  ASSUME NEW S, NEW mail \in [Threads -> Seq(S)], NEW t \in Threads,
         NEW new, Taken(mail, t, new)
  PROVE  /\ new \in [Threads -> Seq(S)] /\ Head(mail[t]) \in S
         /\ In(mail, Head(mail[t]).of)
         /\ \A q : In(new, q) => In(mail, q)
         /\ \A q : In(mail, q) /\ Head(mail[t]).of # q => In(new, q)
         /\ \A q : Single(mail, q) => Single(new, q)
         /\ \A q : Single(mail, q) /\ Head(mail[t]).of = q => ~ In(new, q)
<1> DEFINE s == mail[t]
           w == Tail(s)
           d(u) == IF u = t THEN 1 ELSE 0
<1>0. s # << >> /\ new = [mail EXCEPT ![t] = w]
  BY DEF Taken
<1>1. /\ Head(s) \in S /\ w \in Seq(S) /\ Len(s) \in Nat \ {0} /\ Head(s) = s[1]
      /\ DOMAIN s = 1 .. Len(s) /\ DOMAIN w = 1 .. Len(s) - 1
      /\ \A i \in 1 .. Len(s) - 1 : w[i] = s[i + 1]
  BY <1>0, Beheaded
<1>2. /\ new \in [Threads -> Seq(S)] /\ new[t] = w
      /\ \A u \in Threads : u # t => new[u] = mail[u]
  <2> HIDE DEF w
  <2> QED BY <1>0, <1>1
<1> HIDE DEF w
(* A place of the new mail is an old one, shifted in t, except the first. *)
<1>3. ASSUME NEW u \in Threads, NEW i \in DOMAIN new[u]
      PROVE  /\ i \in Nat /\ i + d(u) \in DOMAIN mail[u] /\ new[u][i] = mail[u][i + d(u)]
             /\ ~ (u = t /\ i + d(u) = 1)
  <2>1. CASE u = t
    BY <1>1, <1>2, <2>1
  <2>2. CASE u # t
    <3>1. new[u] = mail[u] /\ DOMAIN mail[u] = 1 .. Len(mail[u]) /\ Len(mail[u]) \in Nat
      BY <1>2, <2>2, LenProperties
    <3> QED BY <2>2, <3>1
  <2> QED BY <2>1, <2>2
<1>4. ASSUME NEW u \in Threads, NEW j \in DOMAIN mail[u], ~ (u = t /\ j = 1)
      PROVE  \E i \in DOMAIN new[u] : new[u][i] = mail[u][j]
  <2>1. CASE u = t
    <3>1. j - 1 \in DOMAIN w /\ w[j - 1] = s[j]
      BY <1>1, <1>4, <2>1
    <3> QED BY <1>2, <2>1, <3>1
  <2>2. CASE u # t
    BY <1>2, <2>2
  <2> QED BY <2>1, <2>2
<1>5. 1 \in DOMAIN mail[t] /\ Head(mail[t]) = mail[t][1] /\ Head(mail[t]) \in S
  BY <1>1
<1> HIDE DEF s
<1>6. In(mail, Head(mail[t]).of)
  BY <1>5 DEF In, HasUid
<1>7. ASSUME NEW q, In(new, q) PROVE In(mail, q)
  <2>1. PICK u \in Threads : HasUid(new[u], q)
    BY <1>7 DEF In
  <2>2. PICK i \in DOMAIN new[u] : new[u][i].of = q
    BY <2>1 DEF HasUid
  <2>3. i + d(u) \in DOMAIN mail[u] /\ mail[u][i + d(u)].of = q
    BY <1>3, <2>2
  <2> QED BY <2>3 DEF In, HasUid
<1>8. ASSUME NEW q, In(mail, q), Head(mail[t]).of # q PROVE In(new, q)
  <2>1. PICK u \in Threads : HasUid(mail[u], q)
    BY <1>8 DEF In
  <2>2. PICK j \in DOMAIN mail[u] : mail[u][j].of = q
    BY <2>1 DEF HasUid
  <2>3. PICK i \in DOMAIN new[u] : new[u][i] = mail[u][j]
    BY <1>4, <1>5, <1>8, <2>2
  <2> QED BY <2>2, <2>3 DEF In, HasUid
<1>9. ASSUME NEW q, Single(mail, q) PROVE Single(new, q)
  <2> SUFFICES ASSUME NEW a \in Threads, NEW b \in Threads,
                      NEW i \in DOMAIN new[a], NEW j \in DOMAIN new[b],
                      new[a][i].of = q, new[b][j].of = q
               PROVE  a = b /\ i = j
    BY DEF Single
  <2>1. /\ i \in Nat /\ i + d(a) \in DOMAIN mail[a] /\ mail[a][i + d(a)].of = q
        /\ j \in Nat /\ j + d(b) \in DOMAIN mail[b] /\ mail[b][j + d(b)].of = q
    BY <1>3
  <2> HIDE DEF d
  <2>2. a = b /\ i + d(a) = j + d(b)
    BY <1>9, <2>1 DEF Single
  <2> QED BY <2>1, <2>2 DEF d
<1>10. ASSUME NEW q, Single(mail, q), Head(mail[t]).of = q, In(new, q) PROVE FALSE
  <2>1. PICK u \in Threads : HasUid(new[u], q)
    BY <1>10 DEF In
  <2>2. PICK i \in DOMAIN new[u] : new[u][i].of = q
    BY <2>1 DEF HasUid
  <2>3. /\ i + d(u) \in DOMAIN mail[u] /\ mail[u][i + d(u)].of = q
        /\ ~ (u = t /\ i + d(u) = 1)
    BY <1>3, <2>2
  <2> HIDE DEF d
  <2>4. u = t /\ i + d(u) = 1
    BY <1>5, <1>10, <2>3 DEF Single
  <2> QED BY <2>3, <2>4
<1> QED BY <1>2, <1>5, <1>6, <1>7, <1>8, <1>9, <1>10

(* The number of threads that have a message of a request. *)
LEMMA CountMail ==
  ASSUME NEW mail, NEW r, Single(mail, r)
  PROVE  Cardinality({t \in Threads : HasUid(mail[t], r)}) = IF In(mail, r) THEN 1 ELSE 0
<1> DEFINE T == {t \in Threads : HasUid(mail[t], r)}
<1>1. CASE In(mail, r)
  <2>1. PICK t \in Threads : HasUid(mail[t], r)
    BY <1>1 DEF In
  <2>2. T = {t}
    BY <2>1 DEF Single, HasUid
  <2>3. Cardinality({t}) = 1
    BY FS_Singleton
  <2> QED BY <1>1, <2>2, <2>3
<1>2. CASE ~ In(mail, r)
  <2>1. T = {}
    BY <1>2 DEF In
  <2> QED BY <1>2, <2>1, FS_EmptySet
<1> QED BY <1>1, <1>2

-----------------------------------------------------------------------------
(* A thread answers: the uid message goes from its inbox to its replies. *)
LEMMA AnswerMail ==
  ASSUME NEW to \in [Threads -> Seq(MailType)], NEW from \in [Threads -> Seq(Reply)],
         NEW t \in Threads, NEW m \in Reply, NEW to2, NEW from2,
         Taken(to, t, to2), Posted(from, t, m, from2), m.of = Head(to[t]).of,
         OneMessage(to, from)
  PROVE  /\ OneMessage(to2, from2)
         /\ \A r \in Requests : Carried(to2, from2, r) <=> Carried(to, from, r)
<1>1. /\ In(to, m.of)
      /\ \A q : In(to2, q) => In(to, q)
      /\ \A q : In(to, q) /\ m.of # q => In(to2, q)
      /\ \A q : Single(to, q) => Single(to2, q)
      /\ \A q : Single(to, q) /\ m.of = q => ~ In(to2, q)
  BY TakenMail
<1>2. /\ \A q : In(from2, q) <=> In(from, q) \/ m.of = q
      /\ \A q : Single(from, q) /\ (m.of = q => ~ In(from, q)) => Single(from2, q)
  BY PostedMail
<1>3. ASSUME NEW r \in Requests
      PROVE  /\ Single(to2, r) /\ Single(from2, r) /\ ~ (In(to2, r) /\ In(from2, r))
             /\ Carried(to2, from2, r) <=> Carried(to, from, r)
  <2>1. Single(to, r) /\ Single(from, r) /\ ~ (In(to, r) /\ In(from, r))
    BY DEF OneMessage
  <2> QED BY <1>1, <1>2, <2>1 DEF Carried
<1> QED BY <1>3 DEF OneMessage

(* A job is posted for a request that has no uid message. *)
LEMMA JobMail ==
  ASSUME NEW to \in [Threads -> Seq(MailType)], NEW from, NEW t \in Threads,
         NEW m \in JobType, NEW to2, Posted(to, t, m, to2), ~ Carried(to, from, m.of),
         OneMessage(to, from), NotStopped(to)
  PROVE  /\ OneMessage(to2, from) /\ NotStopped(to2)
         /\ \A r \in Requests : Carried(to2, from, r) <=> Carried(to, from, r) \/ r = m.of
<1>0. m \in MailType /\ m # Shutdown
  <2>1. Shutdown.of = NULL /\ m.of \in Requests
    BY DEF Shutdown, JobType
  <2> QED BY <2>1, NullAssumption DEF MailType, Requests
<1>1. /\ \A q : In(to2, q) <=> In(to, q) \/ m.of = q
      /\ \A q : Single(to, q) /\ (m.of = q => ~ In(to, q)) => Single(to2, q)
  BY <1>0, PostedMail
<1>2. OneMessage(to2, from)
  BY <1>1 DEF OneMessage, Carried
<1>3. NotStopped(to2)
  <2> SUFFICES ASSUME NEW u \in Threads, NEW i \in DOMAIN to2[u] PROVE to2[u][i] # Shutdown
    BY DEF NotStopped
  <2>1. CASE u = t
    <3>1. to2[t] = Append(to[t], m)
      BY DEF Posted
    <3>2. /\ DOMAIN to[t] = 1 .. Len(to[t]) /\ DOMAIN to2[t] = 1 .. Len(to[t]) + 1
          /\ to2[t][Len(to[t]) + 1] = m /\ \A j \in 1 .. Len(to[t]) : to2[t][j] = to[t][j]
          /\ Len(to[t]) \in Nat
      BY <1>0, <3>1, Appended
    <3> QED BY <1>0, <2>1, <3>2 DEF NotStopped
  <2>2. CASE u # t
    BY <2>2 DEF NotStopped, Posted
  <2> QED BY <2>1, <2>2
<1> QED BY <1>1, <1>2, <1>3 DEF Carried

(* An inbox whose first message is taken. *)
LEMMA TakenNotStopped ==
  ASSUME NEW to \in [Threads -> Seq(MailType)], NEW t \in Threads, NEW to2,
         Taken(to, t, to2), NotStopped(to)
  PROVE  NotStopped(to2)
<1> SUFFICES ASSUME NEW u \in Threads, NEW i \in DOMAIN to2[u] PROVE to2[u][i] # Shutdown
  BY DEF NotStopped
<1>1. CASE u = t
  <2>1. to[t] # << >> /\ to2[t] = Tail(to[t])
    BY DEF Taken
  <2>2. /\ DOMAIN to[t] = 1 .. Len(to[t]) /\ DOMAIN to2[t] = 1 .. Len(to[t]) - 1
        /\ \A j \in 1 .. Len(to[t]) - 1 : to2[t][j] = to[t][j + 1]
        /\ Len(to[t]) \in Nat
    BY <2>1, Beheaded
  <2> QED BY <1>1, <2>2 DEF NotStopped
<1>2. CASE u # t
  BY <1>2 DEF NotStopped, Taken
<1> QED BY <1>1, <1>2

(* disk_process takes a reply: its request has no uid message any more. *)
LEMMA ReplyMail ==
  ASSUME NEW to, NEW from \in [Threads -> Seq(Reply)], NEW t \in Threads,
         NEW from2, Taken(from, t, from2), OneMessage(to, from)
  PROVE  /\ Head(from[t]) \in Reply /\ Head(from[t]).of \in Requests
         /\ Carried(to, from, Head(from[t]).of)
         /\ OneMessage(to, from2)
         /\ \A r \in Requests :
              Carried(to, from2, r) <=> Carried(to, from, r) /\ r # Head(from[t]).of
<1> DEFINE m == Head(from[t])
<1>1. /\ m \in Reply /\ In(from, m.of)
      /\ \A q : In(from2, q) => In(from, q)
      /\ \A q : In(from, q) /\ m.of # q => In(from2, q)
      /\ \A q : Single(from, q) => Single(from2, q)
      /\ \A q : Single(from, q) /\ m.of = q => ~ In(from2, q)
  BY TakenMail
<1> HIDE DEF m
<1>2. m.of \in Requests
  BY <1>1 DEF Reply
<1>3. ASSUME NEW r \in Requests
      PROVE  /\ Single(to, r) /\ Single(from2, r) /\ ~ (In(to, r) /\ In(from2, r))
             /\ Carried(to, from2, r) <=> Carried(to, from, r) /\ r # m.of
  <2>1. Single(to, r) /\ Single(from, r) /\ ~ (In(to, r) /\ In(from, r))
    BY DEF OneMessage
  <2> QED BY <1>1, <2>1 DEF Carried
<1> QED BY <1>1, <1>2, <1>3 DEF OneMessage, Carried, m

-----------------------------------------------------------------------------
(* The invariant before and after a step, with the state spelled out.      *)
PcType == {"starting", "idle", "resolved", "reading", "failing", "done"}

OpenType == [file : Files, version : Nat, end : Nat]

ClientType == {"idle", "waiting", "answered", "closed"}

RequestTypes ==
    /\ sieve \in SieveType /\ uid \in [Requests -> AnyUid]
    /\ in_sieve \in [Requests -> BOOLEAN] /\ timeout \in [Requests -> BOOLEAN]
    /\ refcnt \in [Requests -> Int] /\ client \in [Requests -> ClientType]
    /\ written \in [Requests -> Seq(WrittenType)]

FileTypes == version \in [Files -> 0 .. writes] /\ writes \in 1 .. MaxWrites

ThreadTypes ==
    /\ pc \in [Threads -> PcType] /\ inbox \in [Threads -> Seq(MailType)]
    /\ open \in [Threads -> OpenType] /\ replies \in [Threads -> Seq(Reply)]

LoopTypes ==
    /\ wake \in BOOLEAN /\ draining \in BOOLEAN
    /\ loop \in {"running", "releasing", "joining", "ended"}
    /\ missed \subseteq Threads /\ dead \in BOOLEAN

(* The type invariant, part by part, before and after a step. *)
LEMMA Types ==
  /\ TypeOK <=> RequestTypes /\ FileTypes /\ ThreadTypes /\ LoopTypes
  /\ TypeOK' <=> RequestTypes' /\ FileTypes' /\ ThreadTypes' /\ LoopTypes'
BY DEF TypeOK, RequestTypeOK, RequestTypes, FileTypes, ThreadTypes, LoopTypes, PcType,
       OpenType, ClientType, MailType, JobType, WrittenType

(* What Pending says of a request. *)
Owed(r, carried, ins, wr, cl, rc) ==
    /\ carried => ins[r] /\ wr[r] = <<>> /\ cl[r] # "idle"
    /\ rc[r] = (IF cl[r] \in {"waiting", "answered"} THEN 1 ELSE 0) + (IF carried THEN 1 ELSE 0)

(* Pending in terms of the mailboxes, before and after a step. *)
LEMMA PendingIs ==
  /\ Pending <=>
       (loop = "running" =>
          /\ OneMessage(inbox, replies) /\ NotStopped(inbox)
          /\ \A r \in Requests :
               Owed(r, Carried(inbox, replies, r), in_sieve, written, client, refcnt))
  /\ Pending' <=>
       (loop' = "running" =>
          /\ OneMessage(inbox', replies') /\ NotStopped(inbox')
          /\ \A r \in Requests :
               Owed(r, Carried(inbox', replies', r), in_sieve', written', client', refcnt'))
BY DEF Pending, OneMessage, NotStopped, Owed, Carried, In, Single, HasUid, ConnectionRefs

(* The inductive invariant after a step, from its parts. *)
LEMMA InvAfter ==
  ASSUME TypeOK', Tracks(sieve', uid', in_sieve'), Clean', Pending', OneOwnResponse',
         Busy', Drains', ~ dead', NoLostWakeup'
  PROVE  RequestsInv'
BY DEF RequestsInv, Tracks

(* A step that leaves the requests alone. *)
LEMMA SameRequests ==
  ASSUME RequestsInv, UNCHANGED request_vars
  PROVE  /\ RequestTypes' /\ Tracks(sieve', uid', in_sieve') /\ Clean' /\ OneOwnResponse'
         /\ in_sieve' = in_sieve /\ written' = written /\ client' = client /\ refcnt' = refcnt
<1>1. /\ sieve' = sieve /\ uid' = uid /\ in_sieve' = in_sieve /\ timeout' = timeout
      /\ refcnt' = refcnt /\ client' = client /\ written' = written
  BY DEF request_vars
<1>2. RequestTypes /\ Tracks(sieve, uid, in_sieve) /\ Clean /\ OneOwnResponse
  BY Types DEF RequestsInv
<1>3. RequestTypes'
  BY <1>1, <1>2 DEF RequestTypes
<1>4. Tracks(sieve', uid', in_sieve')
  BY <1>1, <1>2
<1>5. Clean' /\ OneOwnResponse'
  BY <1>1, <1>2 DEF Clean, OneOwnResponse
<1> QED BY <1>1, <1>3, <1>4, <1>5

(* The version of a file is a natural. *)
LEMMA VersionNat ==
  ASSUME FileTypes, NEW f \in Files
  PROVE  version[f] \in Nat /\ version[f] <= writes /\ writes \in Nat
BY WritesAssumption DEF FileTypes

(* Seconds are naturals. *)
LEMMA SecondNat ==
  ASSUME NEW v \in Nat
  PROVE  LastModified(v) \in Nat
BY WritesAssumption DEF LastModified

-----------------------------------------------------------------------------
(* The steps of a thread.                                                  *)

HasJob(t) == inbox[t] # <<>> /\ Head(inbox[t]) # Shutdown

(* A thread with a job that can be answered. *)
LEMMA JobIs ==
  ASSUME ThreadTypes, NEW t \in Threads, HasJob(t)
  PROVE  Job(t) \in JobType /\ Job(t).of \in Requests /\ Job(t).has \in Nat
                            /\ Job(t).if_modified \in Int /\ Job(t).gzipped \in BOOLEAN
<1>1. inbox[t] \in Seq(MailType) /\ inbox[t] # << >> /\ Head(inbox[t]) # Shutdown
  BY DEF ThreadTypes, HasJob
<1>2. Head(inbox[t]) \in MailType
  BY <1>1, HeadTailProperties
<1>3. Job(t) \in JobType
  BY <1>1, <1>2 DEF Job, MailType
<1> QED BY <1>3 DEF JobType

(* The answers that a thread makes. *)
LEMMA Answers ==
  ASSUME ThreadTypes, FileTypes, NEW t \in Threads, HasJob(t)
  PROVE  /\ \A c \in {"402", "404", "500"} :
              Failure(t, c) \in Reply /\ Failure(t, c).of = Job(t).of
         /\ \A v \in Nat : NotModified(t, v) \in Reply /\ NotModified(t, v).of = Job(t).of
         /\ \A v \in Nat : Content(t, v) \in Reply /\ Content(t, v).of = Job(t).of
<1>1. Job(t).of \in Requests /\ Job(t).has \in Nat
  BY JobIs
<1>2. Label(t) \in Nat
  BY SecondNat DEF Label, ThreadTypes, OpenType
<1>3. \A c \in {"402", "404", "500"} :
        Failure(t, c) \in Reply /\ Failure(t, c).of = Job(t).of
  BY <1>1 DEF Failure, Reply
<1>4. \A v \in Nat : NotModified(t, v) \in Reply /\ NotModified(t, v).of = Job(t).of
  BY <1>1 DEF NotModified, Reply
<1>5. \A v \in Nat : Content(t, v) \in Reply /\ Content(t, v).of = Job(t).of
  BY <1>1, <1>2 DEF Content, Reply
<1> QED BY <1>3, <1>4, <1>5

(* What a thread may read is a version. *)
LEMMA ReadableNat ==
  ASSUME ThreadTypes, FileTypes, NEW t \in Threads, NEW v \in Readable(t)
  PROVE  v \in Nat
<1>1. open[t].file \in Files /\ open[t].version \in Nat /\ open[t].end \in Nat
  BY DEF ThreadTypes, OpenType
<1>2. version[open[t].file] \in Nat
  BY <1>1, VersionNat
<1>3. v = open[t].version \/ v = version[open[t].file]
  BY DEF Readable
<1> QED BY <1>1, <1>2, <1>3

(* A step of a thread answers the job, or keeps it, or stops the thread. *)
LEMMA ThreadCases ==
  ASSUME ThreadTypes, FileTypes, Busy, NEW t \in Threads, disk_loop(t) \/ disk_error(t)
  PROVE  /\ UNCHANGED <<request_vars, file_vars, loop_vars>>
         /\ \/ HasJob(t) /\ \E m \in Reply : m.of = Job(t).of /\ answer(t, m)
            \/ /\ UNCHANGED <<inbox, replies, wake>>
               /\ pc' \in [Threads -> PcType] /\ open' \in [Threads -> OpenType]
               /\ \A u \in Threads : pc'[u] \in {"resolved", "reading", "failing"} =>
                     (u = t /\ HasJob(t)) \/ pc'[u] = pc[u]
            \/ stop(t)
<1>1. UNCHANGED <<request_vars, file_vars, loop_vars>>
  BY DEF disk_loop, disk_error
<1>t. /\ pc \in [Threads -> PcType] /\ open \in [Threads -> OpenType]
      /\ open[t] \in OpenType
  BY DEF ThreadTypes
<1> DEFINE Answered == HasJob(t) /\ \E m \in Reply : m.of = Job(t).of /\ answer(t, m)
           Kept == /\ UNCHANGED <<inbox, replies, wake>>
                   /\ pc' \in [Threads -> PcType] /\ open' \in [Threads -> OpenType]
                   /\ \A u \in Threads : pc'[u] \in {"resolved", "reading", "failing"} =>
                         (u = t /\ HasJob(t)) \/ pc'[u] = pc[u]
<1>2. ASSUME connect(t) PROVE Kept
  <2>1. pc' = [pc EXCEPT ![t] = "idle"] /\ UNCHANGED <<inbox, open, replies, wake>>
    BY <1>2 DEF connect
  <2> QED BY <1>t, <2>1 DEF PcType
<1>3. ASSUME resolve(t) PROVE Answered \/ Kept
  <2>1. HasJob(t)
    BY <1>3 DEF resolve, HasJob, Job
  <2>2. CASE answer(t, Failure(t, "402")) \/ answer(t, Failure(t, "404"))
    BY <2>1, <2>2, Answers
  <2>3. CASE pc' = [pc EXCEPT ![t] = "resolved"] /\ UNCHANGED <<inbox, open, replies, wake>>
    BY <1>t, <2>1, <2>3 DEF PcType
  <2> QED BY <1>3, <2>2, <2>3 DEF resolve
<1>4. ASSUME open_file(t) PROVE Answered \/ Kept
  <2> DEFINE f == ToOpen(t)
  <2>1. HasJob(t)
    BY <1>4 DEF open_file, Busy, HasJob
  <2>2. f \in Files /\ version[f] \in Nat
    <3>1. f \in Files
      BY DEF ToOpen, Files
    <3> QED BY <3>1, VersionNat
  <2>3. CASE answer(t, Failure(t, "500"))
    BY <2>1, <2>3, Answers
  <2>4. CASE answer(t, NotModified(t, version[f]))
    BY <2>1, <2>2, <2>4, Answers
  <2>5. CASE /\ open' = [open EXCEPT ![t] = [file |-> f, version |-> version[f], end |-> 0]]
             /\ pc' = [pc EXCEPT ![t] = "reading"]
             /\ UNCHANGED <<inbox, replies, wake>>
    <3>1. [file |-> f, version |-> version[f], end |-> 0] \in OpenType
      BY <2>2 DEF OpenType
    <3>2. open' \in [Threads -> OpenType]
      BY <1>t, <2>5, <3>1
    <3> QED BY <1>t, <2>1, <2>5, <3>2 DEF PcType
  <2> QED BY <1>4, <2>3, <2>4, <2>5 DEF open_file
<1>5. ASSUME read_file(t) PROVE Answered
  <2>1. HasJob(t)
    BY <1>5 DEF read_file, Busy, HasJob
  <2>2. PICK v \in Readable(t) : answer(t, Content(t, v))
    BY <1>5 DEF read_file
  <2>3. v \in Nat
    BY ReadableNat
  <2> QED BY <2>1, <2>2, <2>3, Answers
<1>6. ASSUME read_interrupted(t) PROVE Answered
  <2>1. HasJob(t) /\ answer(t, Failure(t, "500"))
    BY <1>6 DEF read_interrupted, Busy, HasJob
  <2> QED BY <2>1, Answers
<1>g. ASSUME read_garbled(t) PROVE Answered
  <2>1. HasJob(t) /\ answer(t, Content(t, 0))
    BY <1>g DEF read_garbled, Garbled, Busy, HasJob
  <2> QED BY <2>1, Answers
<1>e. ASSUME read_fails(t) PROVE Kept
  <2>1. HasJob(t)
    BY <1>e DEF read_fails, Busy, HasJob
  <2>2. pc' = [pc EXCEPT ![t] = "failing"] /\ UNCHANGED <<inbox, open, replies, wake>>
    BY <1>e DEF read_fails
  <2> QED BY <1>t, <2>1, <2>2 DEF PcType
<1>7. ASSUME read_short(t) PROVE Kept
  <2> DEFINE now == version[open[t].file]
  <2>1. /\ open' = [open EXCEPT ![t].end = now] /\ pc' = pc
        /\ UNCHANGED <<inbox, replies, wake>>
    BY <1>7 DEF read_short
  <2>2. open[t].file \in Files
    BY <1>t DEF OpenType
  <2>3. now \in Nat
    BY <2>2, VersionNat
  <2> HIDE DEF now
  <2>4. open' \in [Threads -> OpenType]
    BY <1>t, <2>1, <2>3 DEF OpenType
  <2> QED BY <1>t, <2>1, <2>4
<1> HIDE DEF Answered, Kept
<1>8. Answered \/ Kept \/ stop(t)
  BY <1>2, <1>3, <1>4, <1>5, <1>6, <1>g, <1>e, <1>7 DEF disk_loop, disk_error
<1> QED BY <1>1, <1>8 DEF Answered, Kept

(* The thread answers. *)
LEMMA AnswerInv ==
  ASSUME RequestsInv, NEW t \in Threads, NEW m \in Reply, HasJob(t), m.of = Job(t).of,
         answer(t, m), UNCHANGED <<request_vars, file_vars, loop_vars>>
  PROVE  RequestsInv'
<1>1. /\ ThreadTypes /\ FileTypes /\ LoopTypes /\ Pending /\ Busy /\ Drains /\ ~ dead
      /\ NoLostWakeup
  BY Types DEF RequestsInv
<1>2. /\ version' = version /\ writes' = writes /\ draining' = draining /\ loop' = loop
      /\ missed' = missed /\ dead' = dead /\ UNCHANGED request_vars
  BY DEF file_vars, loop_vars
<1>3. /\ RequestTypes' /\ Tracks(sieve', uid', in_sieve') /\ Clean' /\ OneOwnResponse'
      /\ in_sieve' = in_sieve /\ written' = written /\ client' = client /\ refcnt' = refcnt
  BY <1>2, SameRequests
<1>t. /\ inbox \in [Threads -> Seq(MailType)] /\ replies \in [Threads -> Seq(Reply)]
      /\ pc \in [Threads -> PcType] /\ open \in [Threads -> OpenType]
  BY <1>1 DEF ThreadTypes
<1>4. /\ Posted(replies, t, m, replies') /\ Taken(inbox, t, inbox')
      /\ wake' = (wake \/ (replies[t] = << >> /\ ~ draining))
      /\ pc' = [pc EXCEPT ![t] = "idle"] /\ open' = [open EXCEPT ![t] = NoFile]
      /\ m.of = Head(inbox[t]).of
  BY DEF answer, Posted, Taken, HasJob, Job
<1>5. /\ replies' \in [Threads -> Seq(Reply)] /\ inbox' \in [Threads -> Seq(MailType)]
  BY <1>t, <1>4, PostedMail, TakenMail
<1>6. TypeOK'
  <2>1. NoFile \in OpenType
    BY DEF NoFile, OpenType, Files
  <2>2. pc' \in [Threads -> PcType] /\ open' \in [Threads -> OpenType]
    BY <1>t, <1>4, <2>1 DEF PcType
  <2>3. ThreadTypes' /\ FileTypes'
    BY <1>1, <1>2, <1>5, <2>2 DEF ThreadTypes, FileTypes
  <2>4. LoopTypes'
    BY <1>1, <1>2, <1>4 DEF LoopTypes
  <2> QED BY <1>3, <2>3, <2>4, Types
<1>7. Pending'
  <2> SUFFICES ASSUME loop = "running"
               PROVE  /\ OneMessage(inbox', replies') /\ NotStopped(inbox')
                      /\ \A r \in Requests :
                           Owed(r, Carried(inbox', replies', r), in_sieve', written', client', refcnt')
    BY <1>2, PendingIs
  <2>1. /\ OneMessage(inbox, replies) /\ NotStopped(inbox)
        /\ \A r \in Requests :
             Owed(r, Carried(inbox, replies, r), in_sieve, written, client, refcnt)
    BY <1>1, PendingIs
  <2>2. /\ OneMessage(inbox', replies')
        /\ \A r \in Requests : Carried(inbox', replies', r) <=> Carried(inbox, replies, r)
    BY <1>t, <1>4, <2>1, AnswerMail
  <2>3. NotStopped(inbox')
    BY <1>t, <1>4, <2>1, TakenNotStopped
  <2>4. \A r \in Requests :
          Owed(r, Carried(inbox', replies', r), in_sieve', written', client', refcnt')
    BY <1>3, <2>1, <2>2 DEF Owed
  <2> QED BY <2>2, <2>3, <2>4
<1>8. Busy'
  <2> SUFFICES ASSUME NEW u \in Threads, pc'[u] \in {"resolved", "reading", "failing"}
               PROVE  inbox'[u] # << >> /\ Head(inbox'[u]) # Shutdown
    BY DEF Busy
  <2>1. u # t
    BY <1>t, <1>4
  <2>2. pc'[u] = pc[u] /\ inbox'[u] = inbox[u]
    BY <1>t, <1>4, <2>1 DEF Taken
  <2> QED BY <1>1, <2>2 DEF Busy
<1>9. NoLostWakeup'
  <2> SUFFICES ASSUME loop = "running" PROVE wake' \/ draining'
    BY <1>2 DEF NoLostWakeup
  <2>1. CASE replies[t] = << >>
    BY <1>2, <1>4, <2>1
  <2>2. CASE replies[t] # << >>
    <3>1. wake \/ draining
      BY <1>1, <2>2 DEF NoLostWakeup
    <3> QED BY <1>2, <1>4, <3>1
  <2> QED BY <2>1, <2>2
<1>10. Drains' /\ ~ dead'
  BY <1>1, <1>2 DEF Drains
<1> QED BY <1>3, <1>6, <1>7, <1>8, <1>9, <1>10, InvAfter

(* The thread goes on with its job, or starts. *)
LEMMA KeptInv ==
  ASSUME RequestsInv, NEW t \in Threads, UNCHANGED <<request_vars, file_vars, loop_vars>>,
         UNCHANGED <<inbox, replies, wake>>,
         pc' \in [Threads -> PcType], open' \in [Threads -> OpenType],
         \A u \in Threads : pc'[u] \in {"resolved", "reading", "failing"} =>
            (u = t /\ HasJob(t)) \/ pc'[u] = pc[u]
  PROVE  RequestsInv'
<1>1. /\ ThreadTypes /\ FileTypes /\ LoopTypes /\ Pending /\ Busy /\ Drains /\ ~ dead
      /\ NoLostWakeup
  BY Types DEF RequestsInv
<1>2. /\ version' = version /\ writes' = writes /\ draining' = draining /\ loop' = loop
      /\ missed' = missed /\ dead' = dead /\ UNCHANGED request_vars
      /\ inbox' = inbox /\ replies' = replies /\ wake' = wake
  BY DEF file_vars, loop_vars
<1>3. /\ RequestTypes' /\ Tracks(sieve', uid', in_sieve') /\ Clean' /\ OneOwnResponse'
      /\ in_sieve' = in_sieve /\ written' = written /\ client' = client /\ refcnt' = refcnt
  BY <1>2, SameRequests
<1>4. TypeOK'
  <2>1. ThreadTypes' /\ FileTypes' /\ LoopTypes'
    BY <1>1, <1>2 DEF ThreadTypes, FileTypes, LoopTypes
  <2> QED BY <1>3, <2>1, Types
<1>5. Pending'
  BY <1>1, <1>2, <1>3, PendingIs
<1>6. Busy'
  BY <1>1, <1>2 DEF Busy, HasJob
<1>7. Drains' /\ ~ dead' /\ NoLostWakeup'
  BY <1>1, <1>2 DEF Drains, NoLostWakeup
<1> QED BY <1>3, <1>4, <1>5, <1>6, <1>7, InvAfter

(* The thread stops, which it is not told to while the loop runs. *)
LEMMA StopInv ==
  ASSUME RequestsInv, NEW t \in Threads, UNCHANGED <<request_vars, file_vars, loop_vars>>, stop(t)
  PROVE  RequestsInv'
<1>1. /\ ThreadTypes /\ FileTypes /\ LoopTypes /\ Pending /\ Busy /\ Drains /\ ~ dead
      /\ NoLostWakeup
  BY Types DEF RequestsInv
<1>2. /\ version' = version /\ writes' = writes /\ draining' = draining /\ loop' = loop
      /\ missed' = missed /\ dead' = dead /\ UNCHANGED request_vars
      /\ replies' = replies /\ wake' = wake /\ open' = open
      /\ pc' = [pc EXCEPT ![t] = "done"] /\ inbox' = [inbox EXCEPT ![t] = << >>]
  BY DEF file_vars, loop_vars, stop
<1>3. /\ RequestTypes' /\ Tracks(sieve', uid', in_sieve') /\ Clean' /\ OneOwnResponse'
  BY <1>2, SameRequests
<1>t. /\ inbox \in [Threads -> Seq(MailType)] /\ replies \in [Threads -> Seq(Reply)]
      /\ pc \in [Threads -> PcType] /\ open \in [Threads -> OpenType]
  BY <1>1 DEF ThreadTypes
<1>4. TypeOK'
  <2>1. inbox' \in [Threads -> Seq(MailType)] /\ pc' \in [Threads -> PcType]
    BY <1>t, <1>2, EmptySeq DEF PcType
  <2>2. ThreadTypes' /\ FileTypes' /\ LoopTypes'
    BY <1>1, <1>2, <2>1 DEF ThreadTypes, FileTypes, LoopTypes
  <2> QED BY <1>3, <2>2, Types
<1>5. loop # "running"
  <2>1. inbox[t] \in Seq(MailType) /\ inbox[t] # << >> /\ Head(inbox[t]) = Shutdown
    BY <1>t DEF stop, Job
  <2>2. 1 \in DOMAIN inbox[t] /\ inbox[t][1] = Shutdown
    BY <2>1, Beheaded
  <2>3. ~ NotStopped(inbox)
    BY <2>2 DEF NotStopped
  <2> QED BY <1>1, <2>3, PendingIs
<1>6. Pending' /\ NoLostWakeup'
  BY <1>2, <1>5, PendingIs DEF NoLostWakeup
<1>7. Busy'
  BY <1>1, <1>2, <1>t DEF Busy
<1>8. Drains' /\ ~ dead'
  BY <1>1, <1>2 DEF Drains
<1> QED BY <1>3, <1>4, <1>6, <1>7, <1>8, InvAfter

(* A step of a thread keeps the invariant. *)
LEMMA ThreadInv ==
  ASSUME RequestsInv, NEW t \in Threads, disk_loop(t) \/ disk_error(t)
  PROVE  RequestsInv'
<1>1. ThreadTypes /\ FileTypes /\ Busy
  BY Types DEF RequestsInv
<1>2. /\ UNCHANGED <<request_vars, file_vars, loop_vars>>
      /\ \/ HasJob(t) /\ \E m \in Reply : m.of = Job(t).of /\ answer(t, m)
         \/ /\ UNCHANGED <<inbox, replies, wake>>
            /\ pc' \in [Threads -> PcType] /\ open' \in [Threads -> OpenType]
            /\ \A u \in Threads : pc'[u] \in {"resolved", "reading", "failing"} =>
                  (u = t /\ HasJob(t)) \/ pc'[u] = pc[u]
         \/ stop(t)
  BY <1>1, ThreadCases
<1> QED BY <1>2, AnswerInv, KeptInv, StopInv

-----------------------------------------------------------------------------
(* The files change. *)
LEMMA ChangesInv ==
  ASSUME RequestsInv, disk_changes
  PROVE  RequestsInv'
<1>1. /\ ThreadTypes /\ FileTypes /\ LoopTypes /\ Pending /\ Busy /\ Drains /\ ~ dead
      /\ NoLostWakeup
  BY Types DEF RequestsInv
<1>2. /\ UNCHANGED request_vars /\ pc' = pc /\ inbox' = inbox /\ open' = open
      /\ replies' = replies /\ wake' = wake /\ draining' = draining /\ loop' = loop
      /\ missed' = missed /\ dead' = dead
  BY DEF disk_changes, thread_vars, loop_vars
<1>3. /\ RequestTypes' /\ Tracks(sieve', uid', in_sieve') /\ Clean' /\ OneOwnResponse'
      /\ in_sieve' = in_sieve /\ written' = written /\ client' = client /\ refcnt' = refcnt
  BY <1>2, SameRequests
<1>4. FileTypes'
  <2>1. PICK f \in Files : write(f) \/ remove(f)
    BY DEF disk_changes
  <2>2. version \in [Files -> 0 .. writes] /\ writes \in 1 .. MaxWrites
    BY <1>1 DEF FileTypes
  <2>3. CASE write(f)
    <3>1. writes' = writes + 1 /\ writes < MaxWrites /\ version' = [version EXCEPT ![f] = writes + 1]
      BY <2>3 DEF write
    <3>2. writes' \in 1 .. MaxWrites
      BY <2>2, <3>1, WritesAssumption
    <3>3. \A g \in Files : version[g] \in 0 .. writes'
      BY <2>2, <3>1
    <3>4. writes + 1 \in 0 .. writes'
      BY <2>2, <3>1
    <3>5. version' \in [Files -> 0 .. writes']
      BY <2>2, <3>1, <3>3, <3>4
    <3> QED BY <3>2, <3>5 DEF FileTypes
  <2>4. CASE remove(f)
    <3>1. writes' = writes /\ version' = [version EXCEPT ![f] = 0]
      BY <2>4 DEF remove
    <3>2. 0 \in 0 .. writes
      BY <2>2
    <3>3. version' \in [Files -> 0 .. writes']
      BY <2>2, <3>1, <3>2
    <3> QED BY <2>2, <3>1, <3>3 DEF FileTypes
  <2> QED BY <2>1, <2>3, <2>4
<1>5. TypeOK'
  <2>1. ThreadTypes' /\ LoopTypes'
    BY <1>1, <1>2 DEF ThreadTypes, LoopTypes
  <2> QED BY <1>3, <1>4, <2>1, Types
<1>6. Pending'
  BY <1>1, <1>2, <1>3, PendingIs
<1>7. Busy' /\ Drains' /\ ~ dead' /\ NoLostWakeup'
  BY <1>1, <1>2 DEF Busy, Drains, NoLostWakeup
<1> QED BY <1>3, <1>5, <1>6, <1>7, InvAfter

(* disk_process starts or ends. *)
LEMMA EdgesInv ==
  ASSUME RequestsInv, disk_process_starts \/ disk_process_ends
  PROVE  RequestsInv'
<1>1. /\ ThreadTypes /\ FileTypes /\ LoopTypes /\ Pending /\ Busy /\ Drains /\ ~ dead
      /\ NoLostWakeup
  BY Types DEF RequestsInv
<1>2. /\ UNCHANGED request_vars /\ version' = version /\ writes' = writes
      /\ pc' = pc /\ inbox' = inbox /\ open' = open
      /\ replies' = replies /\ loop' = loop /\ missed' = missed /\ dead' = dead
      /\ \/ loop = "running" /\ draining' /\ draining' \in BOOLEAN /\ wake' = FALSE
         \/ wake' = wake /\ draining' = FALSE /\ Drained
  BY DEF disk_process_starts, disk_process_ends, thread_vars, file_vars, Idle
<1>3. /\ RequestTypes' /\ Tracks(sieve', uid', in_sieve') /\ Clean' /\ OneOwnResponse'
      /\ in_sieve' = in_sieve /\ written' = written /\ client' = client /\ refcnt' = refcnt
  BY <1>2, SameRequests
<1>4. TypeOK'
  <2>1. ThreadTypes' /\ FileTypes'
    BY <1>1, <1>2 DEF ThreadTypes, FileTypes
  <2>2. LoopTypes'
    BY <1>1, <1>2 DEF LoopTypes
  <2> QED BY <1>3, <2>1, <2>2, Types
<1>5. Pending'
  BY <1>1, <1>2, <1>3, PendingIs
<1>6. Busy' /\ Drains' /\ ~ dead' /\ NoLostWakeup'
  BY <1>1, <1>2 DEF Busy, Drains, NoLostWakeup, Drained
<1> QED BY <1>3, <1>4, <1>5, <1>6, InvAfter

(* release_disk. *)
LEMMA ReleaseInv ==
  ASSUME RequestsInv, release_disk
  PROVE  RequestsInv'
<1>1. /\ ThreadTypes /\ FileTypes /\ LoopTypes /\ Pending /\ Busy /\ Drains /\ ~ dead
      /\ NoLostWakeup
  BY Types DEF RequestsInv
<1>2. /\ UNCHANGED request_vars /\ version' = version /\ writes' = writes
      /\ pc' = pc /\ open' = open /\ replies' = replies /\ wake' = wake
      /\ draining' = draining /\ dead' = dead
  BY DEF release_disk, file_vars
<1>3. /\ RequestTypes' /\ Tracks(sieve', uid', in_sieve') /\ Clean' /\ OneOwnResponse'
  BY <1>2, SameRequests
<1>4. /\ loop # "running" /\ loop' \in {"releasing", "joining", "ended"}
      /\ missed' \subseteq Threads
  <2>1. CASE \E t \in Threads : release_sends(t)
    BY <1>1, <2>1 DEF release_sends, LoopTypes
  <2>2. CASE release_joins
    BY <2>2 DEF release_joins
  <2>3. CASE release_ends
    BY <1>1, <2>3 DEF release_ends, LoopTypes
  <2> QED BY <2>1, <2>2, <2>3 DEF release_disk
<1>5. /\ inbox' \in [Threads -> Seq(MailType)]
      /\ \A u \in Threads : inbox[u] # << >> =>
            inbox'[u] # << >> /\ Head(inbox'[u]) = Head(inbox[u])
  <2>t. inbox \in [Threads -> Seq(MailType)]
    BY <1>1 DEF ThreadTypes
  <2>1. CASE inbox' = inbox
    BY <2>t, <2>1
  <2>2. ASSUME NEW t \in Threads, inbox' = [inbox EXCEPT ![t] = Append(@, Shutdown)]
        PROVE  /\ inbox' \in [Threads -> Seq(MailType)]
               /\ \A u \in Threads : inbox[u] # << >> =>
                     inbox'[u] # << >> /\ Head(inbox'[u]) = Head(inbox[u])
    <3> DEFINE w == Append(inbox[t], Shutdown)
    <3>1. Shutdown \in MailType
      BY DEF MailType
    <3>2. inbox' = [inbox EXCEPT ![t] = w] /\ w = Append(inbox[t], Shutdown)
      BY <2>2
    <3> HIDE DEF w
    <3>3. w \in Seq(MailType) /\ w # << >> /\ (inbox[t] # << >> => Head(w) = Head(inbox[t]))
      BY <2>t, <3>1, <3>2, Appended
    <3> QED BY <2>t, <3>2, <3>3
  <2> QED BY <2>1, <2>2 DEF release_disk, release_sends, release_joins, release_ends
<1>6. TypeOK'
  <2>1. ThreadTypes' /\ FileTypes' /\ LoopTypes'
    BY <1>1, <1>2, <1>4, <1>5 DEF ThreadTypes, FileTypes, LoopTypes
  <2> QED BY <1>3, <2>1, Types
<1>7. Pending' /\ NoLostWakeup' /\ Drains' /\ ~ dead'
  BY <1>1, <1>2, <1>4, PendingIs DEF NoLostWakeup, Drains
<1>8. Busy'
  BY <1>1, <1>2, <1>5 DEF Busy
<1> QED BY <1>3, <1>6, <1>7, <1>8, InvAfter

(* SIGINT: the requests and the sieve are gone. *)
LEMMA SigintInv ==
  ASSUME RequestsInv, sigint_cb
  PROVE  RequestsInv'
<1>1. /\ ThreadTypes /\ FileTypes /\ LoopTypes /\ Busy /\ ~ dead
  BY Types DEF RequestsInv
<1>2. /\ version' = version /\ writes' = writes /\ pc' = pc /\ open' = open
      /\ inbox' = inbox /\ replies' = replies /\ wake' = wake
      /\ draining' = draining /\ dead' = dead /\ missed' = missed
      /\ loop' = "releasing" /\ ~ draining
      /\ sieve' = sieve_prepare
      /\ uid' = [r \in Requests |-> NoUid]
      /\ in_sieve' = [r \in Requests |-> FALSE]
      /\ timeout' = [r \in Requests |-> FALSE]
      /\ refcnt' = [r \in Requests |-> 0]
      /\ client' = [r \in Requests |-> "closed"]
      /\ written' = [r \in Requests |-> << >>]
  BY DEF sigint_cb, sieve_free, file_vars, thread_vars, Idle
<1>3. Tracks(sieve', uid', in_sieve')
  <2>1. \A o \in Objects : ~ in_sieve'[o]
    BY <1>2 DEF Requests
  <2> QED BY <1>2, <2>1, TracksEmpty
<1>4. RequestTypes'
  <2>1. sieve' \in SieveType
    BY <1>3 DEF Tracks
  <2>2. NoUid \in AnyUid
    BY MaxAssumption DEF NoUid, AnyUid, Slots
  <2>3. uid' \in [Requests -> AnyUid]
    BY <1>2, <2>2
  <2>4. written' \in [Requests -> Seq(WrittenType)]
    BY <1>2, EmptySeq
  <2> QED BY <1>2, <2>1, <2>3, <2>4 DEF RequestTypes, ClientType
<1>5. TypeOK'
  <2>1. ThreadTypes' /\ FileTypes' /\ LoopTypes'
    BY <1>1, <1>2 DEF ThreadTypes, FileTypes, LoopTypes
  <2> QED BY <1>4, <2>1, Types
<1>6. Clean' /\ OneOwnResponse'
  BY <1>2 DEF Clean, OneOwnResponse
<1>7. Pending' /\ NoLostWakeup' /\ Drains' /\ ~ dead' /\ Busy'
  BY <1>1, <1>2, PendingIs DEF NoLostWakeup, Drains, Busy
<1> QED BY <1>3, <1>5, <1>6, <1>7, InvAfter

-----------------------------------------------------------------------------
(* The handlers of the event loop.                                         *)

(* An id names a slot. *)
LEMMA UidSlots == NameSlots(AnyUid)
BY DEF NameSlots, AnyUid

(* A request that arrives takes a slot. *)
LEMMA Enters ==
  ASSUME RequestsInv, NEW r \in Requests, client[r] = "idle", ~ sieve_full(sieve),
         sieve' = sieve_find_hole(sieve, r), uid' = [uid EXCEPT ![r] = UidOf(sieve)],
         in_sieve' = [in_sieve EXCEPT ![r] = TRUE]
  PROVE  /\ Tracks(sieve', uid', in_sieve') /\ sieve' \in SieveType
         /\ uid' \in [Requests -> AnyUid] /\ in_sieve' \in [Requests -> BOOLEAN]
         /\ in_sieve'[r] /\ \A q \in Requests : q # r => in_sieve'[q] = in_sieve[q]
<1>1. /\ Tracks(sieve, uid, in_sieve) /\ Clean /\ uid \in [Requests -> AnyUid]
      /\ in_sieve \in [Requests -> BOOLEAN] /\ sieve \in SieveType
  BY Types DEF RequestsInv, RequestTypes
<1>2. ~ in_sieve[r]
  BY <1>1 DEF Clean
<1>3. Holes(sieve) # {}
  BY <1>1, TracksNotFull
<1>4. UidOf(sieve) \in AnyUid /\ UidOf(sieve).hole = HoleAt(sieve)
  <2>1. HoleAt(sieve) \in Slots /\ sieve.index \in Int
    BY <1>1, <1>3, HoleAtIsHole DEF SieveType
  <2> QED BY <2>1 DEF UidOf, AnyUid
<1>5. PutIn(sieve, uid, in_sieve, r, UidOf(sieve), sieve', uid', in_sieve')
  BY <1>2, <1>3, <1>4 DEF PutIn
<1>6. Owned(AnyUid, uid, in_sieve) /\ r \in Objects
  BY <1>1, UidSlots DEF Owned, Requests
<1>7. Tracks(sieve', uid', in_sieve')
  BY <1>1, <1>4, <1>5, <1>6, TracksInsert
<1> QED BY <1>1, <1>4, <1>7 DEF Tracks

(* request_finish takes a request out of the table, if it is there. *)
LEMMA Leaves ==
  ASSUME RequestsInv, NEW r \in Requests, uid' = uid, request_finish(r, sieve)
  PROVE  /\ Tracks(sieve', uid', in_sieve') /\ sieve' \in SieveType
         /\ uid' \in [Requests -> AnyUid] /\ in_sieve' \in [Requests -> BOOLEAN]
         /\ timeout' \in [Requests -> BOOLEAN]
         /\ ~ in_sieve'[r] /\ \A q \in Requests : q # r => in_sieve'[q] = in_sieve[q]
<1>1. /\ Tracks(sieve, uid', in_sieve) /\ uid' \in [Requests -> AnyUid]
      /\ in_sieve \in [Requests -> BOOLEAN] /\ timeout \in [Requests -> BOOLEAN]
  BY Types DEF RequestsInv, RequestTypes
<1>2. Released(sieve, uid', in_sieve, r, sieve', in_sieve')
  BY DEF request_finish, Released
<1>3. Owned(AnyUid, uid', in_sieve) /\ r \in Objects
  BY <1>1, UidSlots DEF Requests, Owned
<1>4. /\ Tracks(sieve', uid', in_sieve')
      /\ in_sieve' \in [Requests -> BOOLEAN] /\ ~ in_sieve'[r]
      /\ \A q \in Requests : q # r => in_sieve'[q] = in_sieve[q]
  BY <1>1, <1>2, <1>3, TracksRelease DEF Requests
<1>5. timeout' \in [Requests -> BOOLEAN]
  BY <1>1 DEF request_finish
<1> QED BY <1>1, <1>4, <1>5 DEF Tracks

(* A response of a request that has none. *)
LEMMA Responds ==
  ASSUME RequestsInv, NEW r \in Requests, written[r] = << >>,
         NEW x \in WrittenType, x.of \in {r, NULL}, Respond(r, x)
  PROVE  /\ written' \in [Requests -> Seq(WrittenType)] /\ OneOwnResponse'
         /\ client' \in [Requests -> ClientType]
         /\ client'[r] = IF client[r] = "closed" THEN "closed" ELSE "answered"
         /\ written'[r] = <<x>>
         /\ \A q \in Requests : q # r => written'[q] = written[q] /\ client'[q] = client[q]
<1>1. /\ written \in [Requests -> Seq(WrittenType)] /\ client \in [Requests -> ClientType]
      /\ OneOwnResponse
  BY Types DEF RequestsInv, RequestTypes
<1> DEFINE one == <<x>>
<1>2. /\ written' = [written EXCEPT ![r] = one]
      /\ client' = [client EXCEPT ![r] = IF client[r] = "closed" THEN "closed" ELSE "answered"]
  <2>1. Append(<< >>, x) = <<x>>
    OBVIOUS
  <2> QED BY <1>1, <2>1 DEF Respond
<1>3. one \in Seq(WrittenType) /\ Len(one) = 1 /\ one[1] = x /\ DOMAIN one = {1}
  OBVIOUS
<1>o. one = <<x>>
  OBVIOUS
<1> HIDE DEF one
<1>4. written' \in [Requests -> Seq(WrittenType)]
  BY <1>1, <1>2, <1>3
<1>5. /\ client' \in [Requests -> ClientType]
      /\ client'[r] = IF client[r] = "closed" THEN "closed" ELSE "answered"
      /\ \A q \in Requests : q # r => client'[q] = client[q]
  BY <1>1, <1>2 DEF ClientType
<1>6. written'[r] = one /\ \A q \in Requests : q # r => written'[q] = written[q]
  BY <1>1, <1>2
<1>7. OneOwnResponse'
  <2> SUFFICES ASSUME NEW q \in Requests
               PROVE  /\ Len(written'[q]) <= 1
                      /\ \A i \in DOMAIN written'[q] : written'[q][i].of \in {q, NULL}
    BY DEF OneOwnResponse
  <2>1. CASE q = r
    <3>1. written'[q] = one
      BY <1>6, <2>1
    <3>2. \A i \in DOMAIN one : one[i].of \in {q, NULL}
      BY <1>3, <2>1
    <3>3. Len(written'[q]) = 1
      BY <1>3, <3>1, Zenon
    <3>4. \A i \in DOMAIN written'[q] : written'[q][i].of \in {q, NULL}
      BY <3>1, <3>2, Zenon
    <3> QED BY <3>3, <3>4
  <2>2. CASE q # r
    BY <1>1, <1>6, <2>2 DEF OneOwnResponse
  <2> QED BY <2>1, <2>2
<1> QED BY <1>4, <1>5, <1>6, <1>7, <1>o

(* A request of another route arrives. *)
LEMMA OtherInv ==
  ASSUME RequestsInv, NEW r \in Requests, other_request(r)
  PROVE  RequestsInv'
<1>1. /\ RequestTypes /\ ThreadTypes /\ FileTypes /\ LoopTypes /\ Pending /\ Clean
      /\ OneOwnResponse /\ Busy /\ Drains /\ ~ dead /\ NoLostWakeup
  BY Types DEF RequestsInv
<1>2. /\ client[r] = "idle" /\ ~ sieve_full(sieve) /\ loop = "running"
      /\ sieve' = sieve_find_hole(sieve, r) /\ uid' = [uid EXCEPT ![r] = UidOf(sieve)]
      /\ in_sieve' = [in_sieve EXCEPT ![r] = TRUE]
      /\ refcnt' = [refcnt EXCEPT ![r] = 1] /\ client' = [client EXCEPT ![r] = "waiting"]
      /\ timeout' = timeout /\ written' = written
      /\ version' = version /\ writes' = writes /\ pc' = pc /\ inbox' = inbox /\ open' = open
      /\ replies' = replies /\ wake' = wake
      /\ draining' = draining /\ loop' = loop /\ missed' = missed /\ dead' = dead
  BY DEF other_request, Idle, file_vars, thread_vars, loop_vars
<1>3. /\ Tracks(sieve', uid', in_sieve') /\ sieve' \in SieveType
      /\ uid' \in [Requests -> AnyUid] /\ in_sieve' \in [Requests -> BOOLEAN]
      /\ in_sieve'[r] /\ \A q \in Requests : q # r => in_sieve'[q] = in_sieve[q]
  BY <1>2, Enters
<1>4. /\ refcnt' \in [Requests -> Int] /\ client' \in [Requests -> ClientType]
      /\ refcnt'[r] = 1 /\ client'[r] = "waiting"
      /\ \A q \in Requests : q # r => refcnt'[q] = refcnt[q] /\ client'[q] = client[q]
  BY <1>1, <1>2 DEF RequestTypes, ClientType
<1>5. TypeOK'
  <2>1. RequestTypes'
    BY <1>1, <1>2, <1>3, <1>4 DEF RequestTypes
  <2>2. ThreadTypes' /\ FileTypes' /\ LoopTypes'
    BY <1>1, <1>2 DEF ThreadTypes, FileTypes, LoopTypes
  <2> QED BY <2>1, <2>2, Types
<1>6. Clean'
  BY <1>1, <1>2, <1>3, <1>4 DEF Clean
<1>7. Pending'
  <2>1. /\ OneMessage(inbox, replies) /\ NotStopped(inbox)
        /\ \A q \in Requests :
             Owed(q, Carried(inbox, replies, q), in_sieve, written, client, refcnt)
    BY <1>1, <1>2, PendingIs
  <2>2. ASSUME NEW q \in Requests
        PROVE  Owed(q, Carried(inbox, replies, q), in_sieve', written', client', refcnt')
    <3>1. Owed(q, Carried(inbox, replies, q), in_sieve, written, client, refcnt)
      BY <2>1
    <3>2. CASE q = r
      <4>1. ~ Carried(inbox, replies, q)
        BY <1>2, <3>1, <3>2 DEF Owed
      <4> QED BY <1>4, <3>2, <4>1 DEF Owed
    <3>3. CASE q # r
      BY <1>2, <1>3, <1>4, <3>1, <3>3 DEF Owed
    <3> QED BY <3>2, <3>3
  <2> QED BY <1>2, <2>1, <2>2, PendingIs
<1>8. OneOwnResponse' /\ Busy' /\ Drains' /\ ~ dead' /\ NoLostWakeup'
  BY <1>1, <1>2 DEF OneOwnResponse, Busy, Drains, NoLostWakeup
<1> QED BY <1>3, <1>5, <1>6, <1>7, <1>8, InvAfter

(* What a client has is a label and a content. *)
LEMMA CachedIs ==
  ASSUME RequestTypes, NEW c \in Cached \cup {NoCache}
  PROVE  /\ c.label \in Int /\ c.content \in Nat
         /\ c = NoCache \/ \E q \in Requests : /\ written[q] # << >> /\ 1 \in DOMAIN written[q]
                                               /\ written[q][1] = c /\ c.code = "200"
<1>1. CASE c = NoCache
  BY <1>1 DEF NoCache
<1>2. CASE c # NoCache
  <2>1. PICK q \in Requests : /\ written[q] # << >> /\ c = written[q][1] /\ c.code = "200"
    BY <1>2 DEF Cached
  <2>2. written[q] \in Seq(WrittenType)
    BY DEF RequestTypes
  <2>3. 1 \in DOMAIN written[q] /\ written[q][1] \in WrittenType
    BY <2>1, <2>2, EmptySeq, LenProperties, ElementOfSeq
  <2>4. c \in [code : {"200"}, of : Requests, content : Nat, label : Nat]
    BY <2>1, <2>3 DEF WrittenType, Reply
  <2>5. c.label \in Int /\ c.content \in Nat
    BY <2>4
  <2> QED BY <2>1, <2>3, <2>5
<1> QED BY <1>1, <1>2

(* A request for a file goes to a thread. *)
LEMMA DiskRequestInv ==
  ASSUME RequestsInv, NEW r \in Requests, NEW t \in Threads, NEW z \in BOOLEAN,
         NEW c \in Cached \cup {NoCache}, disk_request(r, t, z, c)
  PROVE  RequestsInv'
<1> DEFINE job == [of |-> r, gzipped |-> z, if_modified |-> c.label, has |-> c.content]
<1>1. /\ RequestTypes /\ ThreadTypes /\ FileTypes /\ LoopTypes /\ Pending /\ Clean
      /\ OneOwnResponse /\ Busy /\ Drains /\ ~ dead /\ NoLostWakeup
  BY Types DEF RequestsInv
<1>2. /\ client[r] = "idle" /\ ~ sieve_full(sieve) /\ loop = "running"
      /\ sieve' = sieve_find_hole(sieve, r) /\ uid' = [uid EXCEPT ![r] = UidOf(sieve)]
      /\ in_sieve' = [in_sieve EXCEPT ![r] = TRUE]
      /\ refcnt' = [refcnt EXCEPT ![r] = 2] /\ client' = [client EXCEPT ![r] = "waiting"]
      /\ timeout' = timeout /\ written' = written
      /\ version' = version /\ writes' = writes /\ pc' = pc /\ open' = open
      /\ replies' = replies /\ wake' = TRUE
      /\ draining' = draining /\ loop' = loop /\ missed' = missed /\ dead' = dead
  BY DEF disk_request, Arrives, Idle, file_vars, loop_vars, SentWithRef, ev_feed_event
<1>3. inbox' = [inbox EXCEPT ![t] = Append(inbox[t], job)]
  BY <1>1 DEF disk_request, ThreadTypes
<1>4. /\ Tracks(sieve', uid', in_sieve') /\ sieve' \in SieveType
      /\ uid' \in [Requests -> AnyUid] /\ in_sieve' \in [Requests -> BOOLEAN]
      /\ in_sieve'[r] /\ \A q \in Requests : q # r => in_sieve'[q] = in_sieve[q]
  BY <1>2, Enters
<1>5. /\ refcnt' \in [Requests -> Int] /\ client' \in [Requests -> ClientType]
      /\ refcnt'[r] = 2 /\ client'[r] = "waiting"
      /\ \A q \in Requests : q # r => refcnt'[q] = refcnt[q] /\ client'[q] = client[q]
  BY <1>1, <1>2 DEF RequestTypes, ClientType
<1>6. job \in JobType /\ job.of = r
  <2>1. c.label \in Int /\ c.content \in Nat
    BY <1>1, CachedIs
  <2> QED BY <2>1 DEF JobType
<1> HIDE DEF job
<1>t. inbox \in [Threads -> Seq(MailType)] /\ job \in MailType
  BY <1>1, <1>6 DEF ThreadTypes, MailType
<1>7. Posted(inbox, t, job, inbox')
  BY <1>3 DEF Posted
<1>8. inbox' \in [Threads -> Seq(MailType)]
  BY <1>t, <1>7, PostedMail
<1>9. TypeOK'
  <2>1. RequestTypes'
    BY <1>1, <1>2, <1>4, <1>5 DEF RequestTypes
  <2>2. ThreadTypes' /\ FileTypes' /\ LoopTypes'
    BY <1>1, <1>2, <1>8 DEF ThreadTypes, FileTypes, LoopTypes
  <2> QED BY <2>1, <2>2, Types
<1>10. Clean'
  BY <1>1, <1>2, <1>4, <1>5 DEF Clean
<1>11. Pending'
  <2>1. /\ OneMessage(inbox, replies) /\ NotStopped(inbox)
        /\ \A q \in Requests :
             Owed(q, Carried(inbox, replies, q), in_sieve, written, client, refcnt)
    BY <1>1, <1>2, PendingIs
  <2>2. ~ Carried(inbox, replies, r) /\ written[r] = << >>
    BY <1>1, <1>2, <2>1 DEF Owed, Clean
  <2>3. /\ OneMessage(inbox', replies) /\ NotStopped(inbox')
        /\ \A q \in Requests :
             Carried(inbox', replies, q) <=> Carried(inbox, replies, q) \/ q = r
    BY <1>6, <1>7, <1>t, <2>1, <2>2, JobMail
  <2>4. ASSUME NEW q \in Requests
        PROVE  Owed(q, Carried(inbox', replies', q), in_sieve', written', client', refcnt')
    <3>1. Owed(q, Carried(inbox, replies, q), in_sieve, written, client, refcnt)
      BY <2>1
    <3>2. CASE q = r
      <4>1. Carried(inbox', replies', q)
        BY <1>2, <2>3, <3>2
      <4> QED BY <1>2, <1>4, <1>5, <2>2, <3>2, <4>1 DEF Owed
    <3>3. CASE q # r
      <4>1. Carried(inbox', replies', q) <=> Carried(inbox, replies, q)
        BY <1>2, <2>3, <3>3
      <4> QED BY <1>2, <1>4, <1>5, <3>1, <3>3, <4>1 DEF Owed
    <3> QED BY <3>2, <3>3
  <2>5. OneMessage(inbox', replies')
    BY <1>2, <2>3
  <2> QED BY <2>3, <2>4, <2>5, PendingIs
<1>12. Busy'
  <2> SUFFICES ASSUME NEW u \in Threads, inbox[u] # << >>
               PROVE  inbox'[u] # << >> /\ Head(inbox'[u]) = Head(inbox[u])
    BY <1>1, <1>2 DEF Busy
  <2>1. CASE u = t
    <3>1. inbox'[t] = Append(inbox[t], job) /\ inbox[t] \in Seq(MailType)
      BY <1>3, <1>t
    <3> QED BY <1>t, <2>1, <3>1, Appended
  <2>2. CASE u # t
    BY <1>3, <1>t, <2>2
  <2> QED BY <2>1, <2>2
<1>13. OneOwnResponse' /\ Drains' /\ ~ dead' /\ NoLostWakeup'
  BY <1>1, <1>2 DEF OneOwnResponse, Drains, NoLostWakeup
<1> QED BY <1>4, <1>9, <1>10, <1>11, <1>12, <1>13, InvAfter

(* A request for a file gets 503. *)
LEMMA UnavailableInv ==
  ASSUME RequestsInv, NEW r \in Requests, disk_request_unavailable(r)
  PROVE  RequestsInv'
<1>1. /\ RequestTypes /\ ThreadTypes /\ FileTypes /\ LoopTypes /\ Pending /\ Clean
      /\ Tracks(sieve, uid, in_sieve) /\ OneOwnResponse /\ Busy /\ Drains /\ ~ dead /\ NoLostWakeup
  BY Types DEF RequestsInv
<1>2. /\ client[r] = "idle" /\ loop = "running"
      /\ refcnt' = [refcnt EXCEPT ![r] = 1] /\ Respond(r, Static("503"))
      /\ timeout' = timeout
      /\ version' = version /\ writes' = writes /\ pc' = pc /\ inbox' = inbox /\ open' = open
      /\ replies' = replies
      /\ draining' = draining /\ loop' = loop /\ missed' = missed /\ dead' = dead
  BY DEF disk_request_unavailable, Arrives, Idle, file_vars, thread_vars, loop_vars
<1>3. /\ Tracks(sieve', uid', in_sieve') /\ sieve' \in SieveType
      /\ uid' \in [Requests -> AnyUid] /\ in_sieve' \in [Requests -> BOOLEAN]
      /\ \A q \in Requests : q # r => in_sieve'[q] = in_sieve[q]
      /\ wake' = wake \/ wake' = TRUE
  <2>1. CASE UNCHANGED <<sieve, uid, in_sieve, wake>>
    BY <1>1, <2>1 DEF RequestTypes
  <2>2. CASE /\ ~ sieve_full(sieve)
             /\ sieve' = sieve_find_hole(sieve, r)
             /\ uid' = [uid EXCEPT ![r] = UidOf(sieve)]
             /\ in_sieve' = [in_sieve EXCEPT ![r] = TRUE]
             /\ ev_feed_event
    BY <1>2, <2>2, Enters DEF ev_feed_event
  <2> QED BY <2>1, <2>2 DEF disk_request_unavailable
<1>4. written[r] = << >> /\ refcnt[r] = 0
  BY <1>1, <1>2 DEF Clean
<1>5. Static("503") \in WrittenType /\ Static("503").of = NULL
  BY DEF Static, WrittenType
<1>6. /\ written' \in [Requests -> Seq(WrittenType)] /\ OneOwnResponse'
      /\ client' \in [Requests -> ClientType] /\ client'[r] = "answered"
      /\ \A q \in Requests : q # r => written'[q] = written[q] /\ client'[q] = client[q]
  BY <1>2, <1>4, <1>5, Responds
<1>7. /\ refcnt' \in [Requests -> Int] /\ refcnt'[r] = 1
      /\ \A q \in Requests : q # r => refcnt'[q] = refcnt[q]
  BY <1>1, <1>2 DEF RequestTypes
<1>8. TypeOK'
  <2>1. RequestTypes'
    BY <1>1, <1>2, <1>3, <1>6, <1>7 DEF RequestTypes
  <2>2. ThreadTypes' /\ FileTypes' /\ LoopTypes'
    BY <1>1, <1>2, <1>3 DEF ThreadTypes, FileTypes, LoopTypes
  <2> QED BY <2>1, <2>2, Types
<1>9. Clean'
  <2> SUFFICES ASSUME NEW q \in Requests
               PROVE  /\ in_sieve'[q] => client'[q] # "idle" /\ refcnt'[q] > 0
                      /\ client'[q] = "idle" => written'[q] = << >> /\ refcnt'[q] = 0
    BY DEF Clean
  <2>1. CASE q = r
    BY <1>6, <1>7, <2>1
  <2>2. CASE q # r
    BY <1>1, <1>3, <1>6, <1>7, <2>2 DEF Clean
  <2> QED BY <2>1, <2>2
<1>10. Pending'
  <2>1. /\ OneMessage(inbox, replies) /\ NotStopped(inbox)
        /\ \A q \in Requests :
             Owed(q, Carried(inbox, replies, q), in_sieve, written, client, refcnt)
    BY <1>1, <1>2, PendingIs
  <2>2. ASSUME NEW q \in Requests
        PROVE  Owed(q, Carried(inbox, replies, q), in_sieve', written', client', refcnt')
    <3>1. Owed(q, Carried(inbox, replies, q), in_sieve, written, client, refcnt)
      BY <2>1
    <3>2. CASE q = r
      <4>1. ~ Carried(inbox, replies, q)
        BY <1>2, <3>1, <3>2 DEF Owed
      <4> QED BY <1>6, <1>7, <3>2, <4>1 DEF Owed
    <3>3. CASE q # r
      BY <1>2, <1>3, <1>6, <1>7, <3>1, <3>3 DEF Owed
    <3> QED BY <3>2, <3>3
  <2> QED BY <1>2, <2>1, <2>2, PendingIs
<1>11. Busy' /\ Drains' /\ ~ dead' /\ NoLostWakeup'
  BY <1>1, <1>2, <1>3 DEF Busy, Drains, NoLostWakeup
<1> QED BY <1>3, <1>6, <1>8, <1>9, <1>10, <1>11, InvAfter

(* The connection lets go of a request; a uid message still holds it. *)
LEMMA FinishInv ==
  ASSUME RequestsInv, NEW r \in Requests, http_request_finish(r)
  PROVE  RequestsInv'
<1>1. /\ RequestTypes /\ ThreadTypes /\ FileTypes /\ LoopTypes /\ Pending /\ Clean
      /\ Tracks(sieve, uid, in_sieve) /\ OneOwnResponse /\ Busy /\ Drains /\ ~ dead /\ NoLostWakeup
  BY Types DEF RequestsInv
<1>2. /\ client[r] \in {"waiting", "answered"} /\ loop = "running"
      /\ client' = [client EXCEPT ![r] = "closed"] /\ uid' = uid /\ written' = written
      /\ version' = version /\ writes' = writes /\ pc' = pc /\ inbox' = inbox /\ open' = open
      /\ replies' = replies /\ wake' = wake
      /\ draining' = draining /\ loop' = loop /\ missed' = missed /\ dead' = dead
      /\ refcnt' = [refcnt EXCEPT ![r] = @ - 1]
      /\ IF refcnt[r] = 1 THEN request_finish(r, sieve)
                          ELSE UNCHANGED <<sieve, in_sieve, timeout>>
  BY DEF http_request_finish, Idle, file_vars, thread_vars, loop_vars, REQ_DECREF
<1>3. /\ OneMessage(inbox, replies) /\ NotStopped(inbox)
      /\ \A q \in Requests :
           Owed(q, Carried(inbox, replies, q), in_sieve, written, client, refcnt)
  BY <1>1, <1>2, PendingIs
<1>4. refcnt[r] = 1 + (IF Carried(inbox, replies, r) THEN 1 ELSE 0)
  BY <1>2, <1>3 DEF Owed
<1>5. /\ refcnt' \in [Requests -> Int] /\ client' \in [Requests -> ClientType]
      /\ refcnt'[r] = refcnt[r] - 1 /\ client'[r] = "closed"
      /\ \A q \in Requests : q # r => refcnt'[q] = refcnt[q] /\ client'[q] = client[q]
  BY <1>1, <1>2 DEF RequestTypes, ClientType
<1>6. /\ Tracks(sieve', uid', in_sieve') /\ sieve' \in SieveType
      /\ uid' \in [Requests -> AnyUid] /\ in_sieve' \in [Requests -> BOOLEAN]
      /\ timeout' \in [Requests -> BOOLEAN]
      /\ in_sieve'[r] => Carried(inbox, replies, r)
      /\ Carried(inbox, replies, r) => in_sieve'[r] = in_sieve[r]
      /\ \A q \in Requests : q # r => in_sieve'[q] = in_sieve[q]
  <2>1. CASE refcnt[r] = 1
    <3>1. ~ Carried(inbox, replies, r) /\ request_finish(r, sieve)
      BY <1>2, <1>4, <2>1
    <3> QED BY <1>2, <3>1, Leaves
  <2>2. CASE refcnt[r] # 1
    <3>1. /\ Carried(inbox, replies, r)
          /\ sieve' = sieve /\ in_sieve' = in_sieve /\ timeout' = timeout
      BY <1>2, <1>4, <2>2
    <3> QED BY <1>1, <1>2, <3>1 DEF RequestTypes
  <2> QED BY <2>1, <2>2
<1>7. TypeOK'
  <2>1. RequestTypes'
    BY <1>1, <1>2, <1>5, <1>6 DEF RequestTypes
  <2>2. ThreadTypes' /\ FileTypes' /\ LoopTypes'
    BY <1>1, <1>2 DEF ThreadTypes, FileTypes, LoopTypes
  <2> QED BY <2>1, <2>2, Types
<1>8. Clean'
  <2> SUFFICES ASSUME NEW q \in Requests
               PROVE  /\ in_sieve'[q] => client'[q] # "idle" /\ refcnt'[q] > 0
                      /\ client'[q] = "idle" => written'[q] = << >> /\ refcnt'[q] = 0
    BY DEF Clean
  <2>1. CASE q = r
    BY <1>4, <1>5, <1>6, <2>1
  <2>2. CASE q # r
    BY <1>1, <1>2, <1>5, <1>6, <2>2 DEF Clean
  <2> QED BY <2>1, <2>2
<1>9. Pending'
  <2>1. ASSUME NEW q \in Requests
        PROVE  Owed(q, Carried(inbox, replies, q), in_sieve', written', client', refcnt')
    <3>1. Owed(q, Carried(inbox, replies, q), in_sieve, written, client, refcnt)
      BY <1>3
    <3>2. CASE q = r
      BY <1>2, <1>4, <1>5, <1>6, <3>1, <3>2 DEF Owed
    <3>3. CASE q # r
      BY <1>2, <1>5, <1>6, <3>1, <3>3 DEF Owed
    <3> QED BY <3>2, <3>3
  <2> QED BY <1>2, <1>3, <2>1, PendingIs
<1>10. OneOwnResponse' /\ Busy' /\ Drains' /\ ~ dead' /\ NoLostWakeup'
  BY <1>1, <1>2 DEF OneOwnResponse, Busy, Drains, NoLostWakeup
<1> QED BY <1>6, <1>7, <1>8, <1>9, <1>10, InvAfter

(* disk_process finds the request of an answer where it asserts it is, and *)
(* without a response.                                                     *)
LEMMA ReplyExpected ==
  ASSUME RequestsInv, draining, NEW t \in Threads, replies[t] # << >>
  PROVE  /\ Head(replies[t]) \in Reply /\ Head(replies[t]).of \in Requests
         /\ Expected(Head(replies[t])) /\ written[Head(replies[t]).of] = << >>
         /\ Carried(inbox, replies, Head(replies[t]).of) /\ loop = "running"
<1> DEFINE m == Head(replies[t])
           rest == [replies EXCEPT ![t] = Tail(replies[t])]
<1>1. /\ ThreadTypes /\ Pending /\ Tracks(sieve, uid, in_sieve) /\ Drains
  BY Types DEF RequestsInv
<1>2. /\ loop = "running" /\ OneMessage(inbox, replies)
      /\ \A q \in Requests :
           Owed(q, Carried(inbox, replies, q), in_sieve, written, client, refcnt)
  BY <1>1, PendingIs DEF Drains
<1>3. Taken(replies, t, rest) /\ replies \in [Threads -> Seq(Reply)]
  BY <1>1 DEF Taken, ThreadTypes
<1>4. m \in Reply /\ m.of \in Requests /\ Carried(inbox, replies, m.of)
  BY <1>2, <1>3, ReplyMail
<1> HIDE DEF m, rest
<1>5. in_sieve[m.of] /\ written[m.of] = << >>
  BY <1>2, <1>4 DEF Owed
<1>6. sieve.items[uid[m.of].hole] = m.of
  BY <1>1, <1>4, <1>5 DEF Tracks, Requests
<1>7. \A i \in DOMAIN written[m.of] : written[m.of][i].of = NULL
  BY <1>5
<1>8. Expected(m)
  BY <1>6, <1>7 DEF Expected
<1> QED BY <1>2, <1>4, <1>5, <1>8 DEF m

(* disk_process makes a response of an answer. *)
LEMMA ProcessInv ==
  ASSUME RequestsInv, NEW t \in Threads, disk_process(t)
  PROVE  RequestsInv'
<1> DEFINE m == Head(replies[t])
           r == m.of
<1>1. /\ RequestTypes /\ ThreadTypes /\ FileTypes /\ LoopTypes /\ Pending /\ Clean
      /\ Tracks(sieve, uid, in_sieve) /\ OneOwnResponse /\ Busy /\ Drains /\ ~ dead /\ NoLostWakeup
  BY Types DEF RequestsInv
<1>2. draining /\ replies[t] # << >>
  BY DEF disk_process
<1>3. /\ m \in Reply /\ r \in Requests /\ Expected(m) /\ written[r] = << >>
      /\ Carried(inbox, replies, r) /\ loop = "running"
  BY <1>2, ReplyExpected
<1>4. /\ replies' = [replies EXCEPT ![t] = Tail(replies[t])]
      /\ Respond(r, Response(m)) /\ refcnt' = [refcnt EXCEPT ![r] = @ - 1]
      /\ uid' = uid /\ dead' = dead /\ request_finish(r, sieve)
      /\ version' = version /\ writes' = writes /\ pc' = pc /\ inbox' = inbox /\ open' = open
      /\ wake' = wake /\ draining' = draining /\ loop' = loop /\ missed' = missed
  BY <1>1, <1>3 DEF disk_process, DropUid, file_vars, thread_vars, ThreadTypes
<1>5. Response(m) \in WrittenType /\ Response(m).of \in {r, NULL}
  <2>1. CASE m.code = "402"
    BY <1>3, <2>1 DEF Response, Static, WrittenType
  <2>2. CASE m.code = "404"
    BY <1>3, <2>2 DEF Response, Static, WrittenType
  <2>3. CASE m.code # "402" /\ m.code # "404"
    BY <1>3, <2>3 DEF Response, WrittenType
  <2> QED BY <2>1, <2>2, <2>3
<1>6. Taken(replies, t, replies') /\ replies \in [Threads -> Seq(Reply)]
  BY <1>1, <1>2, <1>4 DEF Taken, ThreadTypes
<1>7. /\ OneMessage(inbox, replies) /\ NotStopped(inbox)
      /\ \A q \in Requests :
           Owed(q, Carried(inbox, replies, q), in_sieve, written, client, refcnt)
  BY <1>1, <1>3, PendingIs
<1>8. /\ OneMessage(inbox, replies')
      /\ \A q \in Requests : Carried(inbox, replies', q) <=> Carried(inbox, replies, q) /\ q # r
  BY <1>6, <1>7, ReplyMail
<1>9. replies' \in [Threads -> Seq(Reply)]
  BY <1>6, TakenMail
<1> HIDE DEF m, r
<1>10. /\ written' \in [Requests -> Seq(WrittenType)] /\ OneOwnResponse'
       /\ client' \in [Requests -> ClientType]
       /\ client'[r] = IF client[r] = "closed" THEN "closed" ELSE "answered"
       /\ \A q \in Requests : q # r => written'[q] = written[q] /\ client'[q] = client[q]
  BY <1>3, <1>4, <1>5, Responds
<1>11. /\ Tracks(sieve', uid', in_sieve') /\ sieve' \in SieveType
       /\ uid' \in [Requests -> AnyUid] /\ in_sieve' \in [Requests -> BOOLEAN]
       /\ timeout' \in [Requests -> BOOLEAN]
       /\ ~ in_sieve'[r] /\ \A q \in Requests : q # r => in_sieve'[q] = in_sieve[q]
  BY <1>3, <1>4, Leaves
<1>12. /\ refcnt' \in [Requests -> Int] /\ refcnt'[r] = refcnt[r] - 1
       /\ \A q \in Requests : q # r => refcnt'[q] = refcnt[q]
  BY <1>1, <1>3, <1>4 DEF RequestTypes
<1>13. client[r] # "idle" /\ client[r] \in ClientType
  BY <1>1, <1>3, <1>7 DEF Owed, RequestTypes
<1>14. TypeOK'
  <2>1. RequestTypes'
    BY <1>10, <1>11, <1>12 DEF RequestTypes
  <2>2. ThreadTypes' /\ FileTypes' /\ LoopTypes'
    BY <1>1, <1>4, <1>9 DEF ThreadTypes, FileTypes, LoopTypes
  <2> QED BY <2>1, <2>2, Types
<1>15. Clean'
  <2> SUFFICES ASSUME NEW q \in Requests
               PROVE  /\ in_sieve'[q] => client'[q] # "idle" /\ refcnt'[q] > 0
                      /\ client'[q] = "idle" => written'[q] = << >> /\ refcnt'[q] = 0
    BY DEF Clean
  <2>1. CASE q = r
    BY <1>10, <1>11, <2>1
  <2>2. CASE q # r
    BY <1>1, <1>10, <1>11, <1>12, <2>2 DEF Clean
  <2> QED BY <2>1, <2>2
<1>16. Pending'
  <2>1. ASSUME NEW q \in Requests
        PROVE  Owed(q, Carried(inbox, replies', q), in_sieve', written', client', refcnt')
    <3>1. Owed(q, Carried(inbox, replies, q), in_sieve, written, client, refcnt)
      BY <1>7
    <3>2. CASE q = r
      <4>1. ~ Carried(inbox, replies', q) /\ Carried(inbox, replies, q)
        BY <1>3, <1>8, <3>2
      <4>2. client'[q] \in {"waiting", "answered"} <=> client[q] \in {"waiting", "answered"}
        BY <1>10, <1>13, <3>2 DEF ClientType
      <4> QED BY <1>12, <3>1, <3>2, <4>1, <4>2 DEF Owed
    <3>3. CASE q # r
      <4>1. Carried(inbox, replies', q) <=> Carried(inbox, replies, q)
        BY <1>8, <3>3
      <4> QED BY <1>10, <1>11, <1>12, <3>1, <3>3, <4>1 DEF Owed
    <3> QED BY <3>2, <3>3
  <2> QED BY <1>4, <1>7, <1>8, <2>1, PendingIs
<1>17. Busy' /\ Drains' /\ ~ dead' /\ NoLostWakeup'
  BY <1>1, <1>2, <1>4 DEF Busy, Drains, NoLostWakeup
<1> QED BY <1>10, <1>11, <1>14, <1>15, <1>16, <1>17, InvAfter
-----------------------------------------------------------------------------
(* The invariant holds at the start. *)
LEMMA InitInv == Init => RequestsInv
<1> SUFFICES ASSUME Init PROVE RequestsInv
  OBVIOUS
<1> USE DEF Init, request_init
<1>1. Tracks(sieve, uid, in_sieve)
  <2>1. \A o \in Objects : ~ in_sieve[o]
    BY DEF Requests
  <2> QED BY <2>1, TracksEmpty
<1>2. RequestTypes
  <2>1. sieve \in SieveType
    BY <1>1 DEF Tracks
  <2>2. NoUid \in AnyUid
    BY MaxAssumption DEF NoUid, AnyUid, Slots
  <2>3. uid \in [Requests -> AnyUid]
    BY <2>2
  <2>4. written \in [Requests -> Seq(WrittenType)]
    BY EmptySeq
  <2> QED BY <2>1, <2>3, <2>4 DEF RequestTypes, ClientType
<1>3. ThreadTypes
  <2>1. NoFile \in OpenType
    BY DEF NoFile, OpenType, Files
  <2>2. open \in [Threads -> OpenType]
    BY <2>1
  <2>3. inbox \in [Threads -> Seq(MailType)] /\ replies \in [Threads -> Seq(Reply)]
    BY EmptySeq
  <2> QED BY <2>2, <2>3 DEF ThreadTypes, PcType
<1>4. FileTypes /\ LoopTypes
  <2>1. writes = 1 /\ \A f \in Files : (IF f = "plain" THEN 1 ELSE 0) \in 0 .. 1
    BY DEF Files
  <2>2. version \in [Files -> 0 .. writes]
    BY <2>1
  <2>3. writes \in 1 .. MaxWrites
    BY <2>1, WritesAssumption
  <2>4. LoopTypes
    BY DEF LoopTypes
  <2> QED BY <2>2, <2>3, <2>4 DEF FileTypes
<1>5. TypeOK
  BY <1>2, <1>3, <1>4, Types
<1>6. \A t \in Threads : inbox[t] = << >> /\ replies[t] = << >> /\ pc[t] = "starting"
  OBVIOUS
<1>7. \A r \in Requests : client[r] = "idle" /\ written[r] = << >> /\ refcnt[r] = 0 /\ ~ in_sieve[r]
  OBVIOUS
<1>8. loop = "running" /\ ~ draining /\ ~ dead
  OBVIOUS
<1> HIDE DEF Init
<1>9. Pending
  <2>1. \A r : ~ In(inbox, r) /\ ~ In(replies, r) /\ Single(inbox, r) /\ Single(replies, r)
    BY <1>6 DEF In, Single, HasUid
  <2>2. OneMessage(inbox, replies) /\ NotStopped(inbox)
    BY <1>6, <2>1 DEF OneMessage, NotStopped
  <2>3. \A r \in Requests :
          Owed(r, Carried(inbox, replies, r), in_sieve, written, client, refcnt)
    BY <1>7, <2>1 DEF Owed, Carried
  <2> QED BY <2>2, <2>3, PendingIs
<1>10. Clean /\ OneOwnResponse
  BY <1>7 DEF Clean, OneOwnResponse
<1>11. Busy /\ Drains /\ NoLostWakeup
  BY <1>6, <1>8 DEF Busy, Drains, NoLostWakeup
<1> QED BY <1>1, <1>5, <1>8, <1>9, <1>10, <1>11 DEF RequestsInv

(* Every step keeps the invariant. *)
LEMMA StepInv == RequestsInv /\ [Next]_vars => RequestsInv'
<1> SUFFICES ASSUME RequestsInv, [Next]_vars PROVE RequestsInv'
  OBVIOUS
<1>1. ASSUME NEW r \in Requests, NEW t \in Threads, NEW z \in BOOLEAN,
             NEW c \in Cached \cup {NoCache}, disk_request(r, t, z, c)
      PROVE  RequestsInv'
  BY <1>1, DiskRequestInv
<1>2. ASSUME NEW r \in Requests,
             disk_request_unavailable(r) \/ other_request(r) \/ http_request_finish(r)
      PROVE  RequestsInv'
  BY <1>2, UnavailableInv, OtherInv, FinishInv
<1>3. ASSUME Process PROVE RequestsInv'
  BY <1>3, EdgesInv, ProcessInv DEF Process
<1>4. ASSUME NEW t \in Threads, disk_loop(t) \/ disk_error(t) PROVE RequestsInv'
  BY <1>4, ThreadInv
<1>5. ASSUME disk_changes PROVE RequestsInv'
  BY <1>5, ChangesInv
<1>6. ASSUME sigint_cb \/ release_disk PROVE RequestsInv'
  BY <1>6, SigintInv, ReleaseInv
<1>7. CASE UNCHANGED vars
  <2>1. /\ UNCHANGED <<request_vars, file_vars, loop_vars>>
        /\ UNCHANGED <<inbox, replies, wake>> /\ pc' = pc /\ open' = open
    BY <1>7 DEF vars, thread_vars
  <2>2. PICK t \in Threads : TRUE
    BY ThreadsAssumption
  <2>3. pc' \in [Threads -> PcType] /\ open' \in [Threads -> OpenType]
    BY <2>1, Types DEF RequestsInv, ThreadTypes
  <2> QED BY <2>1, <2>2, <2>3, KeptInv
<1> QED BY <1>1, <1>2, <1>3, <1>4, <1>5, <1>6, <1>7 DEF Next

(* The inductive invariant holds in every behaviour. *)
THEOREM Invariance == Spec => []RequestsInv
BY InitInv, StepInv, PTL DEF Spec

(* Every variable has its type: in particular a thread only ever answers a *)
(* job, never the shutdown message.                                        *)
THEOREM TypeCorrect == Spec => []TypeOK
<1>1. RequestsInv => TypeOK
  BY DEF RequestsInv
<1> QED BY <1>1, Invariance, PTL

(* The sieve lists the requests that are flagged, each in the slot of its  *)
(* uid, and none that is freed, though requests of other routes share it,  *)
(* 503s keep their slot until the connection ends, and SIGINT frees it.    *)
THEOREM SieveExactHolds == Spec => []SieveExact
<1>1. ASSUME RequestsInv PROVE SieveExact
  <2>1. /\ Tracks(sieve, uid, in_sieve) /\ Clean /\ uid \in [Objects -> AnyUid]
    BY <1>1, Types DEF RequestsInv, RequestTypes, Requests
  <2>2. sieve.filled = Cardinality({o \in Objects : in_sieve[o]})
    BY <2>1, UidSlots, TracksCount
  <2> QED BY <2>1, <2>2 DEF SieveExact, Tracks, Clean, Requests
<1> QED BY <1>1, Invariance, PTL

(* refcnt counts the connection and the uid message, so that the path that *)
(* a disk thread reads is not freed under it, whatever the client does     *)
(* (disk_request's comment on the path, REQ_INCREF with the uid message).  *)
THEOREM RefcntHolds == Spec => []RefcntExact
<1>1. ASSUME RequestsInv PROVE RefcntExact
  <2> SUFFICES ASSUME loop = "running", NEW r \in Requests
               PROVE  refcnt[r] = ConnectionRefs(r) + UidMessages(r)
    BY DEF RefcntExact
  <2>1. /\ OneMessage(inbox, replies)
        /\ Owed(r, Carried(inbox, replies, r), in_sieve, written, client, refcnt)
    BY <1>1, PendingIs DEF RequestsInv
  <2>2. Single(inbox, r) /\ Single(replies, r) /\ ~ (In(inbox, r) /\ In(replies, r))
    BY <2>1 DEF OneMessage
  <2>3. /\ Cardinality({t \in Threads : HasUid(inbox[t], r)}) = IF In(inbox, r) THEN 1 ELSE 0
        /\ Cardinality({t \in Threads : HasUid(replies[t], r)}) = IF In(replies, r) THEN 1 ELSE 0
    BY <2>2, CountMail
  <2>4. UidMessages(r) = IF Carried(inbox, replies, r) THEN 1 ELSE 0
    BY <2>2, <2>3 DEF UidMessages, Carried
  <2> QED BY <2>1, <2>4 DEF Owed, ConnectionRefs
<1> QED BY <1>1, Invariance, PTL

(* The assertions of disk_process hold: the request of an answer is in the *)
(* sieve under its uid and has no body, though clients hang up and slots   *)
(* are reused while a thread works.                                        *)
THEOREM NoAssertionFailsHolds == Spec => []NoAssertionFails
<1>1. RequestsInv => NoAssertionFails
  BY DEF RequestsInv, NoAssertionFails
<1> QED BY <1>1, Invariance, PTL

(* No answer waits without an event for disk_process: what zmq_send takes  *)
(* away ev_feed_event gives back, and a drain looks at every thread.       *)
THEOREM NoLostWakeupHolds == Spec => []NoLostWakeup
<1>1. RequestsInv => NoLostWakeup
  BY DEF RequestsInv
<1> QED BY <1>1, Invariance, PTL

(* A request for a file gets one response at most, and it is its own.      *)
THEOREM OneOwnResponseHolds == Spec => []OneOwnResponse
<1>1. RequestsInv => OneOwnResponse
  BY DEF RequestsInv
<1> QED BY <1>1, Invariance, PTL

-----------------------------------------------------------------------------
(* Labels and contents, when no two writes share a second.                 *)

(* Fresh in terms of the state, before and after a step. *)
LEMMA FreshIs ==
  /\ Fresh <=>
       /\ Versions(version)
       /\ \A r \in Requests : FitsAll(version, writes, written[r])
       /\ \A t \in Threads : /\ FitsAll(version, writes, replies[t])
                             /\ FitsJobs(version, writes, inbox[t])
                             /\ FitsOpen(version, writes, open[t])
                             /\ pc[t] \in Opened => open[t].version # 0
  /\ Fresh' <=>
       /\ Versions(version')
       /\ \A r \in Requests : FitsAll(version', writes', written'[r])
       /\ \A t \in Threads : /\ FitsAll(version', writes', replies'[t])
                             /\ FitsJobs(version', writes', inbox'[t])
                             /\ FitsOpen(version', writes', open'[t])
                             /\ pc'[t] \in Opened => open'[t].version # 0
BY DEF Fresh, Versions, FitsAll, FitsJobs, FitsOpen, FitsReply, Fits

(* A write or a removal leaves labels as good as they were. *)
Changed(now, last, now2, last2) ==
    \E f \in Files : \/ last2 = last + 1 /\ now2 = [now EXCEPT ![f] = last + 1]
                     \/ last2 = last /\ now2 = [now EXCEPT ![f] = 0]

(* What fits the files still fits after such a change. *)
LEMMA FitsChanged ==
  ASSUME NEW last \in Nat, NEW now \in [Files -> 0 .. last], NEW now2, NEW last2,
         Changed(now, last, now2, last2)
  PROVE  /\ \A l, c : Fits(now, last, l, c) => Fits(now2, last2, l, c)
         /\ \A o : FitsOpen(now, last, o) => FitsOpen(now2, last2, o)
         /\ Versions(now) => Versions(now2)
<1>1. PICK f \in Files : \/ last2 = last + 1 /\ now2 = [now EXCEPT ![f] = last + 1]
                         \/ last2 = last /\ now2 = [now EXCEPT ![f] = 0]
  BY DEF Changed
<1>2. /\ last2 \in Nat /\ last <= last2
      /\ \A g \in Files : now2[g] = now[g] \/ now2[g] = last + 1 \/ now2[g] = 0
  BY <1>1
<1>3. ASSUME NEW l, NEW c, Fits(now, last, l, c) PROVE Fits(now2, last2, l, c)
  <2>1. l \in -1 .. last /\ l # 0 /\ (c = l \/ \A g \in Files : now[g] # l)
    BY <1>3 DEF Fits
  <2>2. l \in -1 .. last2
    BY <1>2, <2>1
  <2>3. (\A g \in Files : now[g] # l) => \A g \in Files : now2[g] # l
    BY <1>2, <2>1
  <2> QED BY <2>1, <2>2, <2>3 DEF Fits
<1>4. ASSUME NEW o, FitsOpen(now, last, o) PROVE FitsOpen(now2, last2, o)
  <2> SUFFICES ASSUME o.version # 0
               PROVE  /\ o.version \in 1 .. last2
                      /\ \A g \in Files : g # o.file => now2[g] # o.version
    BY DEF FitsOpen
  <2>1. /\ o.version \in 1 .. last
        /\ \A g \in Files : g # o.file => now[g] # o.version
    BY <1>4 DEF FitsOpen
  <2> QED BY <1>2, <2>1
<1>5. ASSUME Versions(now) PROVE Versions(now2)
  <2>1. /\ now["plain"] \in 0 .. last /\ now["gz"] \in 0 .. last
        /\ now["plain"] = now["gz"] => now["plain"] = 0
    BY <1>5 DEF Versions, Files
  <2>2. f = "plain" \/ f = "gz"
    BY DEF Files
  <2>3. CASE f = "plain"
    <3>1. now2["gz"] = now["gz"] /\ now2["plain"] \in {last + 1, 0}
      BY <1>1, <2>3 DEF Files
    <3> QED BY <2>1, <3>1 DEF Versions
  <2>4. CASE f = "gz"
    <3>1. now2["plain"] = now["plain"] /\ now2["gz"] \in {last + 1, 0}
      BY <1>1, <2>4 DEF Files
    <3> QED BY <2>1, <3>1 DEF Versions
  <2> QED BY <2>2, <2>3, <2>4
<1> QED BY <1>3, <1>4, <1>5

(* Mail that grows at its end, or loses its first message. *)
LEMMA FitsMail ==
  ASSUME NEW S, NEW s \in Seq(S), NEW now, NEW last
  PROVE  /\ \A e \in S : FitsAll(now, last, s) /\ FitsReply(now, last, e)
                            => FitsAll(now, last, Append(s, e))
         /\ \A e \in S : FitsJobs(now, last, s)
                         /\ (e # Shutdown => Fits(now, last, e.if_modified, e.has))
                            => FitsJobs(now, last, Append(s, e))
         /\ s # << >> /\ FitsAll(now, last, s) => FitsAll(now, last, Tail(s))
         /\ s # << >> /\ FitsJobs(now, last, s) => FitsJobs(now, last, Tail(s))
<1>1. ASSUME NEW e \in S
      PROVE  /\ FitsAll(now, last, s) /\ FitsReply(now, last, e) => FitsAll(now, last, Append(s, e))
             /\ FitsJobs(now, last, s) /\ (e # Shutdown => Fits(now, last, e.if_modified, e.has))
                  => FitsJobs(now, last, Append(s, e))
  <2> DEFINE w == Append(s, e)
  <2>1. /\ Len(s) \in Nat /\ DOMAIN s = 1 .. Len(s) /\ DOMAIN w = 1 .. Len(s) + 1
        /\ w[Len(s) + 1] = e /\ \A i \in 1 .. Len(s) : w[i] = s[i]
    BY Appended
  <2> HIDE DEF w
  <2>2. \A i \in DOMAIN w : w[i] = e \/ (i \in DOMAIN s /\ w[i] = s[i])
    BY <2>1
  <2>3. FitsAll(now, last, s) /\ FitsReply(now, last, e) => FitsAll(now, last, w)
    BY <2>2 DEF FitsAll
  <2>4. FitsJobs(now, last, s) /\ (e # Shutdown => Fits(now, last, e.if_modified, e.has))
          => FitsJobs(now, last, w)
    BY <2>2 DEF FitsJobs
  <2> QED BY <2>3, <2>4 DEF w
<1>2. ASSUME s # << >>
      PROVE  /\ FitsAll(now, last, s) => FitsAll(now, last, Tail(s))
             /\ FitsJobs(now, last, s) => FitsJobs(now, last, Tail(s))
  <2> DEFINE w == Tail(s)
  <2>1. /\ Len(s) \in Nat /\ DOMAIN s = 1 .. Len(s) /\ DOMAIN w = 1 .. Len(s) - 1
        /\ \A i \in 1 .. Len(s) - 1 : w[i] = s[i + 1]
    BY <1>2, Beheaded
  <2> HIDE DEF w
  <2>2. \A i \in DOMAIN w : i + 1 \in DOMAIN s /\ w[i] = s[i + 1]
    BY <2>1
  <2>3. FitsAll(now, last, s) => FitsAll(now, last, w)
    BY <2>2 DEF FitsAll
  <2>4. FitsJobs(now, last, s) => FitsJobs(now, last, w)
    BY <2>2 DEF FitsJobs
  <2> QED BY <2>3, <2>4 DEF w
<1> QED BY <1>1, <1>2

(* Nothing is wrong with no mail. *)
LEMMA FitsEmpty == \A now, last : FitsAll(now, last, << >>) /\ FitsJobs(now, last, << >>)
BY DEF FitsAll, FitsJobs

(* The Last-Modified line tells the versions apart. *)
LEMMA LabelIsVersion ==
  ASSUME WritesPerSecond = 1, NEW v \in Nat
  PROVE  LastModified(v) = v
BY DEF LastModified

(* The thread answers with what fits. *)
LEMMA AnswerFresh ==
  ASSUME ThreadTypes, Fresh, NEW t \in Threads, HasJob(t), NEW m \in Reply, answer(t, m),
         FitsReply(version, writes, m), UNCHANGED <<written, version, writes>>
  PROVE  Fresh'
<1>1. /\ replies' = [replies EXCEPT ![t] = Append(replies[t], m)]
      /\ inbox' = [inbox EXCEPT ![t] = Tail(inbox[t])]
      /\ pc' = [pc EXCEPT ![t] = "idle"] /\ open' = [open EXCEPT ![t] = NoFile]
      /\ inbox[t] # << >>
  BY DEF answer, HasJob
<1>2. /\ pc \in [Threads -> PcType] /\ inbox \in [Threads -> Seq(MailType)]
      /\ open \in [Threads -> OpenType] /\ replies \in [Threads -> Seq(Reply)]
  BY DEF ThreadTypes
<1>3. /\ Versions(version) /\ \A r \in Requests : FitsAll(version, writes, written[r])
      /\ \A u \in Threads : /\ FitsAll(version, writes, replies[u])
                            /\ FitsJobs(version, writes, inbox[u])
                            /\ FitsOpen(version, writes, open[u])
                            /\ pc[u] \in Opened => open[u].version # 0
  BY FreshIs
<1> DEFINE more == Append(replies[t], m)
           rest == Tail(inbox[t])
<1>4. FitsAll(version, writes, more) /\ FitsJobs(version, writes, rest)
  BY <1>1, <1>2, <1>3, FitsMail
<1>5. FitsOpen(version, writes, NoFile)
  BY DEF FitsOpen, NoFile
<1>6. /\ replies' = [replies EXCEPT ![t] = more] /\ inbox' = [inbox EXCEPT ![t] = rest]
  BY <1>1
<1> HIDE DEF more, rest
<1>7. ASSUME NEW u \in Threads
      PROVE  /\ FitsAll(version, writes, replies'[u]) /\ FitsJobs(version, writes, inbox'[u])
             /\ FitsOpen(version, writes, open'[u])
             /\ pc'[u] \in Opened => open'[u].version # 0
  <2>1. CASE u = t
    <3>1. /\ replies'[u] = more /\ inbox'[u] = rest /\ open'[u] = NoFile /\ pc'[u] = "idle"
      BY <1>1, <1>2, <1>6, <2>1
    <3> QED BY <1>4, <1>5, <3>1 DEF Opened
  <2>2. CASE u # t
    <3>1. /\ replies'[u] = replies[u] /\ inbox'[u] = inbox[u] /\ open'[u] = open[u]
          /\ pc'[u] = pc[u]
      BY <1>1, <1>2, <1>6, <2>2
    <3> QED BY <1>3, <3>1
  <2> QED BY <2>1, <2>2
<1>8. version' = version /\ writes' = writes /\ written' = written
  OBVIOUS
<1>9. /\ Versions(version') /\ \A r \in Requests : FitsAll(version', writes', written'[r])
      /\ \A u \in Threads : /\ FitsAll(version', writes', replies'[u])
                            /\ FitsJobs(version', writes', inbox'[u])
                            /\ FitsOpen(version', writes', open'[u])
                            /\ pc'[u] \in Opened => open'[u].version # 0
  BY <1>3, <1>7, <1>8
<1> QED BY <1>9, FreshIs

(* The thread goes on with its job. *)
LEMMA KeptFresh ==
  ASSUME ThreadTypes, Fresh, NEW t \in Threads,
         UNCHANGED <<written, version, writes, inbox, replies>>,
         \A u \in Threads : u # t => pc'[u] = pc[u] /\ open'[u] = open[u],
         FitsOpen(version, writes, open'[t]), pc'[t] \in Opened => open'[t].version # 0
  PROVE  Fresh'
BY FreshIs

(* What a job says that the client has. *)
LEMMA JobFits ==
  ASSUME ThreadTypes, Fresh, NEW t \in Threads, HasJob(t)
  PROVE  Fits(version, writes, Job(t).if_modified, Job(t).has)
<1>1. inbox[t] \in Seq(MailType) /\ inbox[t] # << >> /\ FitsJobs(version, writes, inbox[t])
  BY FreshIs DEF ThreadTypes, HasJob
<1>2. 1 \in DOMAIN inbox[t] /\ Job(t) = inbox[t][1]
  BY <1>1, EmptySeq, LenProperties DEF Job
<1>3. Job(t) # Shutdown
  BY DEF HasJob, Job
<1> QED BY <1>1, <1>2, <1>3 DEF FitsJobs

(* The steps of a thread. *)
LEMMA ThreadFresh ==
  ASSUME WritesPerSecond = 1, RequestsInv, Fresh, NEW t \in Threads, disk_loop(t) \/ disk_error(t)
  PROVE  Fresh'
<1>1. ThreadTypes /\ FileTypes /\ Busy
  BY Types DEF RequestsInv
<1>2. UNCHANGED <<written, version, writes>>
  BY DEF disk_loop, disk_error, request_vars, file_vars
<1>t. /\ pc \in [Threads -> PcType] /\ open \in [Threads -> OpenType] /\ open[t] \in OpenType
  BY <1>1 DEF ThreadTypes
<1>f. /\ Versions(version) /\ FitsOpen(version, writes, open[t])
      /\ pc[t] \in Opened => open[t].version # 0
  BY FreshIs
<1>3. ASSUME HasJob(t), NEW code \in {"402", "404", "500"}, answer(t, Failure(t, code))
      PROVE  Fresh'
  <2>1. Failure(t, code) \in Reply
    BY <1>1, <1>3, Answers
  <2>2. FitsReply(version, writes, Failure(t, code))
    BY <1>3 DEF FitsReply, Failure
  <2> QED BY <1>1, <1>2, <1>3, <2>1, <2>2, AnswerFresh
<1>4. ASSUME connect(t) PROVE Fresh'
  <2>1. pc' = [pc EXCEPT ![t] = "idle"] /\ UNCHANGED <<inbox, open, replies>>
    BY <1>4 DEF connect
  <2>2. pc'[t] = "idle" /\ \A u \in Threads : u # t => pc'[u] = pc[u] /\ open'[u] = open[u]
    BY <1>t, <2>1
  <2> QED BY <1>1, <1>2, <1>f, <2>1, <2>2, KeptFresh DEF Opened
<1>5. ASSUME resolve(t) PROVE Fresh'
  <2>1. HasJob(t)
    BY <1>5 DEF resolve, HasJob, Job
  <2>2. CASE answer(t, Failure(t, "402")) \/ answer(t, Failure(t, "404"))
    BY <1>3, <2>1, <2>2
  <2>3. CASE pc' = [pc EXCEPT ![t] = "resolved"] /\ UNCHANGED <<inbox, open, replies>>
    <3>1. pc'[t] = "resolved" /\ \A u \in Threads : u # t => pc'[u] = pc[u] /\ open'[u] = open[u]
      BY <1>t, <2>3
    <3> QED BY <1>1, <1>2, <1>f, <2>3, <3>1, KeptFresh DEF Opened
  <2> QED BY <1>5, <2>2, <2>3 DEF resolve
<1>6. ASSUME open_file(t) PROVE Fresh'
  <2> DEFINE f == ToOpen(t)
  <2>1. HasJob(t)
    BY <1>1, <1>6 DEF open_file, Busy, HasJob
  <2>2. f \in Files /\ version[f] \in 0 .. writes /\ version[f] \in Nat
    <3>1. f \in Files
      BY DEF ToOpen, Files
    <3> QED BY <1>1, <3>1, VersionNat DEF FileTypes
  <2>3. CASE answer(t, Failure(t, "500"))
    BY <1>3, <2>1, <2>3
  <2>4. ASSUME answer(t, NotModified(t, version[f])), LastModified(version[f]) = Job(t).if_modified
        PROVE  Fresh'
    <3>1. version[f] = Job(t).if_modified
      BY <2>2, <2>4, LabelIsVersion
    <3>2. Fits(version, writes, Job(t).if_modified, Job(t).has)
      BY <1>1, <2>1, JobFits
    <3>3. Job(t).has = version[f]
      BY <2>2, <3>1, <3>2 DEF Fits
    <3>4. NotModified(t, version[f]) \in Reply
      BY <1>1, <2>1, <2>2, Answers
    <3>5. FitsReply(version, writes, NotModified(t, version[f]))
      BY <3>3 DEF FitsReply, NotModified
    <3> QED BY <1>1, <1>2, <2>1, <2>4, <3>4, <3>5, AnswerFresh
  <2>5. ASSUME /\ open' = [open EXCEPT ![t] = [file |-> f, version |-> version[f], end |-> 0]]
               /\ pc' = [pc EXCEPT ![t] = "reading"]
               /\ UNCHANGED <<inbox, replies>> /\ version[f] # 0
        PROVE  Fresh'
    <3> DEFINE o == [file |-> f, version |-> version[f], end |-> 0]
    <3>1. o.file = f /\ o.version = version[f]
      OBVIOUS
    <3>2. open' = [open EXCEPT ![t] = o]
      BY <2>5
    <3> HIDE DEF o, f
    <3>3. open'[t] = o /\ \A u \in Threads : u # t => pc'[u] = pc[u] /\ open'[u] = open[u]
      BY <1>t, <2>5, <3>2
    <3>4. \A g \in Files : g # f => version[g] # version[f]
      BY <1>f, <2>2, <2>5 DEF Versions, Files
    <3>5. FitsOpen(version, writes, o) /\ o.version # 0
      BY <2>2, <2>5, <3>1, <3>4 DEF FitsOpen
    <3>6. FitsOpen(version, writes, open'[t]) /\ open'[t].version # 0
      BY <3>3, <3>5
    <3> QED BY <1>1, <1>2, <2>5, <3>3, <3>6, KeptFresh
  <2> QED BY <1>6, <2>3, <2>4, <2>5 DEF open_file
<1>7. ASSUME read_file(t) PROVE Fresh'
  <2>1. HasJob(t) /\ open[t].version # 0
    BY <1>1, <1>7, <1>f DEF read_file, Busy, HasJob, Opened
  <2>2. PICK v \in Readable(t) : answer(t, Content(t, v))
    BY <1>7 DEF read_file
  <2>3. v \in Nat
    BY <1>1, ReadableNat
  <2>4. v = open[t].version \/ v = version[open[t].file]
    BY DEF Readable
  <2>5. Label(t) = open[t].version
    BY <1>t, LabelIsVersion DEF Label, OpenType
  <2>6. /\ open[t].version \in 1 .. writes
        /\ \A g \in Files : g # open[t].file => version[g] # open[t].version
    BY <1>f, <2>1 DEF FitsOpen
  <2>7. v = Label(t) \/ \A g \in Files : version[g] # Label(t)
    BY <2>4, <2>5, <2>6
  <2>8. Fits(version, writes, Label(t), v)
    <3>1. writes \in Nat
      BY <1>1, WritesAssumption DEF FileTypes
    <3>2. Label(t) \in -1 .. writes /\ Label(t) # 0
      BY <2>5, <2>6, <3>1
    <3> QED BY <2>7, <3>2 DEF Fits
  <2>9. FitsReply(version, writes, Content(t, v))
    BY <2>8 DEF FitsReply, Content
  <2>10. Content(t, v) \in Reply
    BY <1>1, <2>1, <2>3, Answers
  <2> QED BY <1>1, <1>2, <2>1, <2>2, <2>9, <2>10, AnswerFresh
<1>8. ASSUME read_interrupted(t) PROVE Fresh'
  <2>1. HasJob(t) /\ answer(t, Failure(t, "500"))
    BY <1>1, <1>8 DEF read_interrupted, Busy, HasJob
  <2> QED BY <1>3, <2>1
<1>g. ASSUME read_garbled(t) PROVE Fresh'
  <2>1. /\ HasJob(t) /\ open[t].version # 0 /\ answer(t, Content(t, 0))
        /\ version[open[t].file] > open[t].version
    BY <1>1, <1>g, <1>f DEF read_garbled, Garbled, Rewritten, Busy, HasJob, Opened
  <2>2. /\ open[t].version \in 1 .. writes
        /\ \A g \in Files : g # open[t].file => version[g] # open[t].version
    BY <1>f, <2>1 DEF FitsOpen
  <2>3. Label(t) = open[t].version
    BY <1>t, LabelIsVersion DEF Label, OpenType
  <2>4. open[t].file \in Files /\ version[open[t].file] \in Nat /\ writes \in Nat
    BY <1>t, <1>1, VersionNat, WritesAssumption DEF OpenType, FileTypes
  <2>5. \A g \in Files : version[g] # Label(t)
    BY <2>1, <2>2, <2>3, <2>4
  <2>6. Fits(version, writes, Label(t), 0)
    BY <2>2, <2>3, <2>4, <2>5 DEF Fits
  <2>7. FitsReply(version, writes, Content(t, 0))
    BY <2>6 DEF FitsReply, Content
  <2>8. Content(t, 0) \in Reply
    BY <1>1, <2>1, Answers
  <2> QED BY <1>1, <1>2, <2>1, <2>7, <2>8, AnswerFresh
<1>e. ASSUME read_fails(t) PROVE Fresh'
  <2>1. pc' = [pc EXCEPT ![t] = "failing"] /\ UNCHANGED <<inbox, open, replies>>
        /\ open[t].version # 0
    BY <1>e, <1>f DEF read_fails, Opened
  <2>2. \A u \in Threads : u # t => pc'[u] = pc[u] /\ open'[u] = open[u]
    BY <1>t, <2>1
  <2> QED BY <1>1, <1>2, <1>f, <2>1, <2>2, KeptFresh
<1>9. ASSUME read_short(t) PROVE Fresh'
  <2> DEFINE now == version[open[t].file]
  <2>1. /\ open' = [open EXCEPT ![t].end = now] /\ pc' = pc /\ pc[t] = "reading"
        /\ UNCHANGED <<inbox, replies>>
    BY <1>9 DEF read_short
  <2> HIDE DEF now
  <2>2. /\ open'[t].file = open[t].file /\ open'[t].version = open[t].version
        /\ \A u \in Threads : u # t => pc'[u] = pc[u] /\ open'[u] = open[u]
    BY <1>t, <2>1 DEF OpenType
  <2>3. FitsOpen(version, writes, open'[t]) /\ open'[t].version # 0
    BY <1>f, <2>1, <2>2 DEF FitsOpen, Opened
  <2> QED BY <1>1, <1>2, <2>1, <2>2, <2>3, KeptFresh
<1>10. ASSUME stop(t) PROVE Fresh'
  <2> DEFINE none == << >>
  <2>1. /\ pc' = [pc EXCEPT ![t] = "done"] /\ inbox' = [inbox EXCEPT ![t] = none]
        /\ open' = open /\ replies' = replies
    BY <1>10 DEF stop
  <2>2. FitsJobs(version, writes, none)
    BY FitsEmpty
  <2> HIDE DEF none
  <2>3. /\ inbox'[t] = none /\ pc'[t] = "done"
        /\ \A u \in Threads : u # t => pc'[u] = pc[u] /\ inbox'[u] = inbox[u]
    BY <1>1, <1>t, <2>1 DEF ThreadTypes
  <2>4. \A u \in Threads : FitsJobs(version, writes, inbox'[u])
    BY <2>2, <2>3, FreshIs
  <2> QED BY <1>2, <2>1, <2>3, <2>4, FreshIs DEF Opened
<1> QED BY <1>4, <1>5, <1>6, <1>7, <1>8, <1>g, <1>e, <1>9, <1>10 DEF disk_loop, disk_error

(* The files change. *)
LEMMA ChangesFresh ==
  ASSUME RequestsInv, Fresh, disk_changes
  PROVE  Fresh'
<1>1. FileTypes
  BY Types DEF RequestsInv
<1>2. /\ written' = written /\ pc' = pc /\ inbox' = inbox /\ open' = open /\ replies' = replies
  BY DEF disk_changes, request_vars, thread_vars
<1>3. Changed(version, writes, version', writes')
  <2>1. PICK f \in Files : write(f) \/ remove(f)
    BY DEF disk_changes
  <2> QED BY <2>1 DEF write, remove, Changed
<1>4. writes \in Nat /\ version \in [Files -> 0 .. writes]
  BY <1>1, WritesAssumption DEF FileTypes
<1>5. /\ \A l, c : Fits(version, writes, l, c) => Fits(version', writes', l, c)
      /\ \A o : FitsOpen(version, writes, o) => FitsOpen(version', writes', o)
      /\ Versions(version) => Versions(version')
  BY <1>3, <1>4, FitsChanged
<1>6. \A m : FitsReply(version, writes, m) => FitsReply(version', writes', m)
  BY <1>5 DEF FitsReply
<1>7. \A w : FitsAll(version, writes, w) => FitsAll(version', writes', w)
  BY <1>6 DEF FitsAll
<1>8. \A w : FitsJobs(version, writes, w) => FitsJobs(version', writes', w)
  BY <1>5 DEF FitsJobs
<1> QED BY <1>2, <1>5, <1>7, <1>8, FreshIs

(* A step that writes no response and moves no mail. *)
LEMMA SameFresh ==
  ASSUME Fresh, UNCHANGED <<written, version, writes, pc, inbox, open, replies>>
  PROVE  Fresh'
BY FreshIs

(* A response that fits. *)
LEMMA WrittenFresh ==
  ASSUME Fresh, UNCHANGED <<version, writes, pc, inbox, open>>, NEW r \in Requests, NEW x,
         FitsReply(version, writes, x), written'[r] = <<x>>,
         \A q \in Requests : q # r => written'[q] = written[q],
         \A t \in Threads : FitsAll(version, writes, replies'[t])
  PROVE  Fresh'
<1> DEFINE one == <<x>>
<1>1. DOMAIN one = {1} /\ one[1] = x /\ written'[r] = one
  OBVIOUS
<1> HIDE DEF one
<1>2. FitsAll(version, writes, one)
  BY <1>1 DEF FitsAll
<1>3. \A q \in Requests : FitsAll(version, writes, written'[q])
  BY <1>1, <1>2, FreshIs
<1> QED BY <1>3, FreshIs

(* The mail of one thread grows by a message that fits. *)
LEMMA PostedFresh ==
  ASSUME ThreadTypes, Fresh, UNCHANGED <<written, version, writes, pc, open, replies>>,
         NEW t \in Threads, NEW e \in MailType,
         e # Shutdown => Fits(version, writes, e.if_modified, e.has),
         inbox' = [inbox EXCEPT ![t] = Append(inbox[t], e)]
  PROVE  Fresh'
<1> DEFINE more == Append(inbox[t], e)
<1>1. inbox \in [Threads -> Seq(MailType)] /\ FitsJobs(version, writes, inbox[t])
  BY FreshIs DEF ThreadTypes
<1>2. FitsJobs(version, writes, more) /\ inbox' = [inbox EXCEPT ![t] = more]
  BY <1>1, FitsMail
<1> HIDE DEF more
<1>3. \A u \in Threads : inbox'[u] = IF u = t THEN more ELSE inbox[u]
  BY <1>1, <1>2
<1>4. \A u \in Threads : FitsJobs(version, writes, inbox'[u])
  BY <1>2, <1>3, FreshIs
<1> QED BY <1>4, FreshIs

(* A request for a file says what the client has. *)
LEMMA DiskRequestFresh ==
  ASSUME RequestsInv, Fresh, NEW r \in Requests, NEW t \in Threads, NEW z \in BOOLEAN,
         NEW c \in Cached \cup {NoCache}, disk_request(r, t, z, c)
  PROVE  Fresh'
<1> DEFINE job == [of |-> r, gzipped |-> z, if_modified |-> c.label, has |-> c.content]
<1>1. RequestTypes /\ ThreadTypes /\ FileTypes
  BY Types DEF RequestsInv
<1>2. /\ written' = written /\ version' = version /\ writes' = writes /\ pc' = pc
      /\ open' = open /\ replies' = replies
      /\ inbox' = [inbox EXCEPT ![t] = Append(@, job)]
  BY DEF disk_request, file_vars
<1>3. inbox' = [inbox EXCEPT ![t] = Append(inbox[t], job)]
  BY <1>1, <1>2 DEF ThreadTypes
<1>4. /\ c.label \in Int /\ c.content \in Nat
      /\ c = NoCache \/ \E q \in Requests : /\ written[q] # << >> /\ 1 \in DOMAIN written[q]
                                            /\ written[q][1] = c /\ c.code = "200"
  BY <1>1, CachedIs
<1>5. Fits(version, writes, c.label, c.content)
  <2>w. writes \in Nat /\ \A f \in Files : version[f] \in Nat
    BY <1>1, WritesAssumption DEF FileTypes
  <2>1. CASE c = NoCache
    <3>1. c.label = -1 /\ -1 \in -1 .. writes
      BY <2>w, <2>1 DEF NoCache
    <3> QED BY <2>w, <3>1 DEF Fits
  <2>2. CASE c # NoCache
    <3>1. PICK q \in Requests : 1 \in DOMAIN written[q] /\ written[q][1] = c /\ c.code = "200"
      BY <1>4, <2>2
    <3>2. FitsReply(version, writes, c)
      BY <3>1, FreshIs DEF FitsAll
    <3> QED BY <3>1, <3>2 DEF FitsReply
  <2> QED BY <2>1, <2>2
<1>6. job \in MailType /\ Fits(version, writes, job.if_modified, job.has)
  BY <1>4, <1>5 DEF MailType, JobType
<1> HIDE DEF job
<1> QED BY <1>1, <1>2, <1>3, <1>6, PostedFresh

(* Responses of zerogw itself claim nothing about a file. *)
LEMMA UnavailableFresh ==
  ASSUME RequestsInv, Fresh, NEW r \in Requests, disk_request_unavailable(r)
  PROVE  Fresh'
<1> DEFINE x == Static("503")
<1>1. /\ client[r] = "idle" /\ Respond(r, x)
      /\ version' = version /\ writes' = writes /\ pc' = pc /\ inbox' = inbox
      /\ open' = open /\ replies' = replies
  BY DEF disk_request_unavailable, Arrives, file_vars, thread_vars
<1>2. written[r] = << >>
  BY <1>1 DEF RequestsInv, Clean
<1>3. x \in WrittenType /\ x.of \in {r, NULL} /\ FitsReply(version, writes, x)
  BY DEF Static, WrittenType, FitsReply
<1> HIDE DEF x
<1>4. written'[r] = <<x>> /\ \A q \in Requests : q # r => written'[q] = written[q]
  BY <1>1, <1>2, <1>3, Responds
<1>5. \A t \in Threads : FitsAll(version, writes, replies'[t])
  BY <1>1, FreshIs
<1> QED BY <1>1, <1>3, <1>4, <1>5, WrittenFresh

(* disk_process makes a response of an answer that fits. *)
LEMMA ProcessFresh ==
  ASSUME RequestsInv, Fresh, NEW t \in Threads, disk_process(t)
  PROVE  Fresh'
<1> DEFINE m == Head(replies[t])
           r == m.of
           rest == Tail(replies[t])
<1>1. ThreadTypes /\ replies[t] \in Seq(Reply) /\ replies \in [Threads -> Seq(Reply)]
  BY Types DEF RequestsInv, ThreadTypes
<1>2. draining /\ replies[t] # << >>
  BY DEF disk_process
<1>3. /\ m \in Reply /\ r \in Requests /\ Expected(m) /\ written[r] = << >>
  BY <1>2, ReplyExpected
<1>4. /\ replies' = [replies EXCEPT ![t] = rest] /\ Respond(r, Response(m))
      /\ version' = version /\ writes' = writes /\ pc' = pc /\ inbox' = inbox /\ open' = open
  BY <1>1, <1>3 DEF disk_process, file_vars, thread_vars
<1>5. Response(m) \in WrittenType /\ Response(m).of \in {r, NULL}
  <2>1. CASE m.code = "402"
    BY <1>3, <2>1 DEF Response, Static, WrittenType
  <2>2. CASE m.code = "404"
    BY <1>3, <2>2 DEF Response, Static, WrittenType
  <2>3. CASE m.code # "402" /\ m.code # "404"
    BY <1>3, <2>3 DEF Response, WrittenType
  <2> QED BY <2>1, <2>2, <2>3
<1>6. FitsAll(version, writes, replies[t]) /\ FitsAll(version, writes, rest)
  BY <1>1, <1>2, FitsMail, FreshIs
<1>7. FitsReply(version, writes, m)
  <2>1. 1 \in DOMAIN replies[t] /\ m = replies[t][1]
    BY <1>1, <1>2, EmptySeq, LenProperties
  <2> QED BY <1>6, <2>1 DEF FitsAll
<1> HIDE DEF m, r, rest
<1>8. FitsReply(version, writes, Response(m))
  BY <1>7 DEF FitsReply, Response, Static
<1>9. written'[r] = <<Response(m)>> /\ \A q \in Requests : q # r => written'[q] = written[q]
  BY <1>3, <1>4, <1>5, Responds
<1>10. ASSUME NEW u \in Threads PROVE FitsAll(version, writes, replies'[u])
  <2>1. replies'[u] = IF u = t THEN rest ELSE replies[u]
    BY <1>1, <1>4
  <2> QED BY <1>6, <2>1, FreshIs
<1> QED BY <1>3, <1>4, <1>8, <1>9, <1>10, WrittenFresh

(* SIGINT and release_disk. *)
LEMMA StopFresh ==
  ASSUME RequestsInv, Fresh, sigint_cb \/ release_disk
  PROVE  Fresh'
<1>1. CASE sigint_cb
  <2>1. /\ version' = version /\ writes' = writes /\ pc' = pc /\ inbox' = inbox
        /\ open' = open /\ replies' = replies /\ \A q \in Requests : written'[q] = << >>
    BY <1>1 DEF sigint_cb, sieve_free, file_vars, thread_vars
  <2>2. \A q \in Requests : FitsAll(version, writes, written'[q])
    BY <2>1, FitsEmpty
  <2> QED BY <2>1, <2>2, FreshIs
<1>2. CASE release_disk
  <2>1. /\ written' = written /\ version' = version /\ writes' = writes /\ pc' = pc
        /\ open' = open /\ replies' = replies
    BY <1>2 DEF release_disk, file_vars, request_vars
  <2>2. ASSUME NEW t \in Threads, release_sends(t) PROVE Fresh'
    <3>1. ThreadTypes
      BY Types DEF RequestsInv
    <3>2. inbox' = [inbox EXCEPT ![t] = Append(inbox[t], Shutdown)]
      BY <2>2, <3>1 DEF release_sends, ThreadTypes
    <3>3. Shutdown \in MailType
      BY DEF MailType
    <3> QED BY <2>1, <3>1, <3>2, <3>3, PostedFresh
  <2>3. CASE release_joins \/ release_ends
    <3>1. inbox' = inbox
      BY <2>3 DEF release_joins, release_ends
    <3> QED BY <2>1, <3>1, SameFresh
  <2> QED BY <1>2, <2>2, <2>3 DEF release_disk
<1> QED BY <1>1, <1>2

(* Every step leaves labels and contents in order. *)
LEMMA StepFresh ==
  ASSUME WritesPerSecond = 1, RequestsInv, Fresh, [Next]_vars
  PROVE  Fresh'
<1>1. ASSUME NEW r \in Requests, NEW t \in Threads, NEW z \in BOOLEAN,
             NEW c \in Cached \cup {NoCache}, disk_request(r, t, z, c)
      PROVE  Fresh'
  BY <1>1, DiskRequestFresh
<1>2. ASSUME NEW r \in Requests, other_request(r) \/ http_request_finish(r) PROVE Fresh'
  <2>1. UNCHANGED <<written, version, writes, pc, inbox, open, replies>>
    BY <1>2 DEF other_request, http_request_finish, file_vars, thread_vars
  <2> QED BY <2>1, SameFresh
<1>3. ASSUME Process PROVE Fresh'
  <2>1. CASE disk_process_starts \/ disk_process_ends
    <3>1. UNCHANGED <<written, version, writes, pc, inbox, open, replies>>
      BY <2>1 DEF disk_process_starts, disk_process_ends, request_vars, file_vars, thread_vars
    <3> QED BY <3>1, SameFresh
  <2>2. CASE \E t \in Threads : disk_process(t)
    BY <2>2, ProcessFresh
  <2> QED BY <1>3, <2>1, <2>2 DEF Process
<1>4. ASSUME NEW t \in Threads, disk_loop(t) \/ disk_error(t) PROVE Fresh'
  BY <1>4, ThreadFresh
<1>5. CASE UNCHANGED vars
  <2>1. UNCHANGED <<written, version, writes, pc, inbox, open, replies>>
    BY <1>5 DEF vars, request_vars, file_vars, thread_vars
  <2> QED BY <2>1, SameFresh
<1> QED BY <1>1, <1>2, <1>3, <1>4, <1>5, UnavailableFresh, ChangesFresh, StopFresh DEF Next

(* At the start there is one version, of one file, and no mail. *)
LEMMA InitFresh == Init => Fresh
<1> SUFFICES ASSUME Init PROVE Fresh
  OBVIOUS
<1>1. /\ version = [f \in Files |-> IF f = "plain" THEN 1 ELSE 0] /\ writes = 1
      /\ pc = [t \in Threads |-> "starting"] /\ inbox = [t \in Threads |-> << >>]
      /\ open = [t \in Threads |-> NoFile] /\ replies = [t \in Threads |-> << >>]
      /\ written = [r \in Requests |-> << >>]
  BY DEF Init, request_init
<1>2. Versions(version)
  BY <1>1 DEF Versions, Files
<1>3. FitsOpen(version, writes, NoFile)
  BY DEF FitsOpen, NoFile
<1>4. \A r \in Requests : FitsAll(version, writes, written[r])
  BY <1>1, FitsEmpty
<1>5. \A t \in Threads : /\ FitsAll(version, writes, replies[t])
                         /\ FitsJobs(version, writes, inbox[t])
                         /\ FitsOpen(version, writes, open[t]) /\ pc[t] \notin Opened
  BY <1>1, <1>3, FitsEmpty DEF Opened
<1> QED BY <1>2, <1>4, <1>5, FreshIs

(* If no two writes share a Last-Modified second, a client is told to keep *)
(* what it has only when that is what the file has: get_file takes the     *)
(* label before it reads, so a file that changes meanwhile is at worst     *)
(* sent with an older label, which no file bears any more.                 *)
THEOREM Fresh304Holds ==
  ASSUME WritesPerSecond = 1
  PROVE  Spec => []Fresh304
<1>1. Init => Fresh
  BY InitFresh
<1>2. RequestsInv /\ Fresh /\ [Next]_vars => Fresh'
  BY StepFresh
<1>3. Fresh => Fresh304
  BY FreshIs DEF Fresh304, FitsAll, FitsReply
<1> QED BY <1>1, <1>2, <1>3, Invariance, PTL DEF Spec
=============================================================================
