-------------------------- MODULE TokenCache_proofs --------------------------
(***************************************************************************)
(* Theorems about TokenCache, for any callers and any lifetime, skew,      *)
(* latency and retries within CacheAssumption.                             *)
(*                                                                         *)
(* LockIsItsQueue is inductive by itself. With it a store finds no other   *)
(* refresh under way, which RefreshesSpaced needs: whoever talks to Google *)
(* found the token due (Due), so the cached lifetimes do not overlap and   *)
(* add up to the expiry (Spent). Fresh is what an expiry says of the token *)
(* at Google, whose clock started a LATENCY earlier at worst. Wait ranks   *)
(* the queue: the steps under the lock that are left, at most, until one's *)
(* turn is over.                                                           *)
(***************************************************************************)
EXTENDS TokenCache, SequenceTheorems, TLAPS

USE DEF cache

Lifetime == LIFE - SKEW

\* The margin between the cache's idea of a token and Google's.
Fresh ==
  /\ stored = 0 => expiry = 0
  /\ stored > 0 => expiry <= now + Lifetime /\ until + LATENCY >= expiry + SKEW

\* A token on its way is not older than a request may be.
Underway ==
  \A c \in Callers :
    at[c] = "answer" => issued[c] <= now /\ now <= issued[c] + LATENCY

Refreshing(c) == at[c] \in {"post", "answer"}

\* Whoever refreshes found the token due, and it still is.
Due == \A c \in Callers : Refreshing(c) => expiry <= now

\* The lifetimes of the tokens cached so far have passed before the expiry.
Spent == stored * Lifetime <= expiry

IInv == TypeOK /\ LockIsItsQueue /\ Fresh /\ Underway /\ Due /\ Spent

LEMMA LifetimePositive == Lifetime \in Nat /\ Lifetime > 0
  BY CacheAssumption DEF Lifetime

-----------------------------------------------------------------------------
(* The queue *)

LEMMA RemoveAtIs ==
  ASSUME NEW S, NEW q \in Seq(S), NEW i \in 1 .. Len(q)
  PROVE  /\ RemoveAt(q, i) \in Seq(S)
         /\ Len(RemoveAt(q, i)) = Len(q) - 1
         /\ \A j \in 1 .. Len(q) - 1 :
              RemoveAt(q, i)[j] = IF j < i THEN q[j] ELSE q[j + 1]
<1> DEFINE a == SubSeq(q, 1, i - 1)
           b == SubSeq(q, i + 1, Len(q))
<1>0. Len(q) \in Nat /\ i \in Nat
  OBVIOUS
<1>1. /\ a \in Seq(S) /\ Len(a) = i - 1
      /\ \A j \in 1 .. i - 1 : a[j] = q[j]
  BY <1>0, SubSeqProperties
<1>2. /\ b \in Seq(S) /\ Len(b) = Len(q) - i
      /\ \A j \in 1 .. Len(q) - i : b[j] = q[i + j]
  BY <1>0, SubSeqProperties
<1> HIDE DEF a, b
<1>3. /\ a \o b \in Seq(S) /\ Len(a \o b) = Len(q) - 1
      /\ \A j \in 1 .. Len(q) - 1 :
           (a \o b)[j] = IF j <= i - 1 THEN a[j] ELSE b[j - (i - 1)]
  <2>1. /\ a \o b \in Seq(S) /\ Len(a \o b) = Len(a) + Len(b)
        /\ \A j \in 1 .. Len(a) + Len(b) :
             (a \o b)[j] = IF j <= Len(a) THEN a[j] ELSE b[j - Len(a)]
    BY <1>1, <1>2, ConcatProperties
  <2>2. Len(a) + Len(b) = Len(q) - 1
    BY <1>0, <1>1, <1>2
  <2> QED
    BY <1>1, <2>1, <2>2
<1>4. ASSUME NEW j \in 1 .. Len(q) - 1
      PROVE  (a \o b)[j] = IF j < i THEN q[j] ELSE q[j + 1]
  <2>1. CASE j < i
    BY <1>0, <1>1, <1>3, <2>1
  <2>2. CASE ~(j < i)
    <3>1. j - (i - 1) \in 1 .. Len(q) - i /\ i + (j - (i - 1)) = j + 1
      BY <1>0, <2>2
    <3> QED
      BY <1>0, <1>2, <1>3, <2>2, <3>1
  <2> QED
    BY <2>1, <2>2
<1>5. RemoveAt(q, i) = a \o b
  BY DEF RemoveAt, a, b
<1> QED
  BY <1>3, <1>4, <1>5

\* The queue without its i-th member: nobody else is lost or gains a place.
LEMMA Departs ==
  ASSUME TypeOK, LockIsItsQueue, NEW c \in Callers, NEW i \in DOMAIN queue,
         queue[i] = c, NEW q, q \in Seq(Callers), Len(q) = Len(queue) - 1,
         \A j \in 1 .. Len(queue) - 1 :
           q[j] = IF j < i THEN queue[j] ELSE queue[j + 1]
  PROVE  /\ \A j, k \in DOMAIN q : q[j] = q[k] => j = k
         /\ \A j \in DOMAIN q : q[j] # c
         /\ \A d \in Callers \ {c} :
              (\E j \in DOMAIN queue : queue[j] = d) <=> (\E j \in DOMAIN q : q[j] = d)
         /\ \A d \in Callers \ {c} : Holds(d) => q # <<>> /\ Head(q) = d
<1>0. /\ queue \in Seq(Callers) /\ Len(queue) \in Nat /\ i \in 1 .. Len(queue)
      /\ DOMAIN queue = 1 .. Len(queue) /\ DOMAIN q = 1 .. Len(queue) - 1
      /\ \A j, k \in 1 .. Len(queue) : queue[j] = queue[k] => j = k
  <2>1. queue \in Seq(Callers) /\ Len(queue) \in Nat /\ DOMAIN queue = 1 .. Len(queue)
    BY DEF TypeOK
  <2>2. DOMAIN q = 1 .. Len(queue) - 1
    BY <2>1
  <2>3. \A j, k \in DOMAIN queue : queue[j] = queue[k] => j = k
    BY DEF LockIsItsQueue
  <2> QED
    BY <2>1, <2>2, <2>3
<1>1. \A j, k \in DOMAIN q : q[j] = q[k] => j = k
  <2> SUFFICES ASSUME NEW j \in 1 .. Len(queue) - 1, NEW k \in 1 .. Len(queue) - 1, q[j] = q[k]
               PROVE  j = k
    BY <1>0
  <2> DEFINE from(n) == IF n < i THEN n ELSE n + 1
  <2>1. from(j) \in 1 .. Len(queue) /\ from(k) \in 1 .. Len(queue)
    BY <1>0
  <2>2. queue[from(j)] = queue[from(k)]
    OBVIOUS
  <2>3. from(j) = from(k)
    BY <1>0, <2>1, <2>2
  <2> QED
    BY <1>0, <2>3
<1>2. \A j \in DOMAIN q : q[j] # c
  <2> SUFFICES ASSUME NEW j \in 1 .. Len(queue) - 1
               PROVE  q[j] # queue[i]
    BY <1>0
  <2>1. j \in 1 .. Len(queue) /\ j + 1 \in 1 .. Len(queue)
    BY <1>0
  <2> QED
    BY <1>0, <2>1
<1>3. ASSUME NEW d \in Callers \ {c}
      PROVE  (\E j \in DOMAIN queue : queue[j] = d) <=> (\E j \in DOMAIN q : q[j] = d)
  <2>1. ASSUME NEW j \in 1 .. Len(queue), queue[j] = d
        PROVE  \E k \in 1 .. Len(queue) - 1 : q[k] = d
    <3>1. CASE j < i
      BY <1>0, <2>1, <3>1, j \in 1 .. Len(queue) - 1
    <3>2. CASE j > i
      BY <1>0, <2>1, <3>2, j - 1 \in 1 .. Len(queue) - 1, (j - 1) + 1 = j, ~(j - 1 < i)
    <3> QED
      BY <1>0, <2>1, <3>1, <3>2
  <2>2. ASSUME NEW j \in 1 .. Len(queue) - 1, q[j] = d
        PROVE  \E k \in 1 .. Len(queue) : queue[k] = d
    BY <1>0, <2>2, j \in 1 .. Len(queue), j + 1 \in 1 .. Len(queue)
  <2> QED
    BY <1>0, <2>1, <2>2
<1>4. ASSUME NEW d \in Callers \ {c}, Holds(d)
      PROVE  q # <<>> /\ Head(q) = d
  <2>1. Head(queue) = queue[1] /\ 1 \in 1 .. Len(queue) /\ queue[1] = d
    BY <1>0, <1>4 DEF Holds
  <2>2. i # 1 /\ 1 \in 1 .. Len(queue) - 1 /\ q[1] = d
    BY <1>0, <2>1
  <2> QED
    BY <1>0, <2>2
<1> QED
  BY <1>1, <1>2, <1>3, <1>4

\* The holder leaves: the queue's tail has the shape Departs wants.
LEMMA ReleaseDeparts ==
  ASSUME TypeOK, NEW c \in Callers, Holds(c)
  PROVE  /\ 1 \in DOMAIN queue /\ queue[1] = c
         /\ Tail(queue) \in Seq(Callers) /\ Len(Tail(queue)) = Len(queue) - 1
         /\ \A j \in 1 .. Len(queue) - 1 :
              Tail(queue)[j] = IF j < 1 THEN queue[j] ELSE queue[j + 1]
  BY HeadTailProperties DEF TypeOK, Holds

\* A caller comes to rest, and its place in the queue goes with it.
LEMMA DepartureKeepsQueue ==
  ASSUME TypeOK, LockIsItsQueue, NEW c \in Callers, NEW i \in DOMAIN queue,
         queue[i] = c, queue' \in Seq(Callers), Len(queue') = Len(queue) - 1,
         \A j \in 1 .. Len(queue) - 1 :
           queue'[j] = IF j < i THEN queue[j] ELSE queue[j + 1],
         NEW place \in {"idle", "has"}, Put(c, place)
  PROVE  LockIsItsQueue'
<1> DEFINE q == queue'
<1> HIDE DEF q
<1>0. q \in Seq(Callers) /\ Len(q) = Len(queue) - 1
      /\ \A j \in 1 .. Len(queue) - 1 : q[j] = IF j < i THEN queue[j] ELSE queue[j + 1]
  BY DEF q
<1>1. /\ \A j, k \in DOMAIN q : q[j] = q[k] => j = k
      /\ \A j \in DOMAIN q : q[j] # c
      /\ \A d \in Callers \ {c} :
           (\E j \in DOMAIN queue : queue[j] = d) <=> (\E j \in DOMAIN q : q[j] = d)
      /\ \A d \in Callers \ {c} : Holds(d) => q # <<>> /\ Head(q) = d
  BY <1>0, Departs
<1>2. at'[c] \in {"idle", "has"} /\ \A d \in Callers \ {c} : at'[d] = at[d]
  BY DEF Put, TypeOK
<1>3. \A d \in Callers : at'[d] \in {"post", "answer"} => q # <<>> /\ Head(q) = d
  BY <1>1, <1>2 DEF LockIsItsQueue
<1>4. \A d \in Callers :
        at'[d] \in {"lock", "post", "answer"} <=> \E j \in DOMAIN q : q[j] = d
  BY <1>1, <1>2 DEF LockIsItsQueue
<1> QED
  BY <1>1, <1>3, <1>4 DEF q, LockIsItsQueue, Holds

LEMMA ReleaseKeepsQueue ==
  ASSUME TypeOK, LockIsItsQueue, NEW c \in Callers, Holds(c), Release,
         NEW place \in {"idle", "has"}, Put(c, place)
  PROVE  LockIsItsQueue' /\ queue' \in Seq(Callers)
  BY ReleaseDeparts, DepartureKeepsQueue DEF Release

LEMMA QueueStep == TypeOK /\ LockIsItsQueue /\ [Next]_vars => LockIsItsQueue'
<1> SUFFICES ASSUME TypeOK, LockIsItsQueue, [Next]_vars
             PROVE  LockIsItsQueue'
  OBVIOUS
<1>1. ASSUME NEW c \in Callers, Ask(c) PROVE LockIsItsQueue'
  <2>1. CASE Valid
    <3>1. queue' = queue /\ at' = [at EXCEPT ![c] = "has"] /\ at[c] = "idle"
      BY <1>1, <2>1 DEF Ask, Put
    <3> QED
      BY <3>1 DEF LockIsItsQueue, TypeOK, Holds
  <2>2. CASE ~Valid
    <3>1. /\ queue' = Append(queue, c) /\ at' = [at EXCEPT ![c] = "lock"]
          /\ at[c] = "idle"
      BY <1>1, <2>2 DEF Ask, Put
    <3>2. /\ DOMAIN queue = 1 .. Len(queue) /\ DOMAIN queue' = 1 .. Len(queue) + 1
          /\ \A j \in 1 .. Len(queue) : queue'[j] = queue[j]
          /\ queue'[Len(queue) + 1] = c /\ Len(queue) \in Nat
          /\ queue # <<>> => queue' # <<>> /\ Head(queue') = Head(queue)
      BY <3>1, AppendProperties DEF TypeOK
    <3>3. \A j \in DOMAIN queue : queue[j] # c
      BY <3>1 DEF LockIsItsQueue
    <3>4. \A j, k \in DOMAIN queue' : queue'[j] = queue'[k] => j = k
      BY <3>2, <3>3 DEF LockIsItsQueue
    <3>5. at'[c] = "lock" /\ \A d \in Callers \ {c} : at'[d] = at[d]
      BY <3>1 DEF TypeOK
    <3>6. \A d \in Callers :
            at'[d] \in {"lock", "post", "answer"} <=> \E j \in DOMAIN queue' : queue'[j] = d
      <4> TAKE d \in Callers
      <4>1. CASE d = c
        BY <3>2, <3>5, <4>1, Len(queue) + 1 \in DOMAIN queue'
      <4>2. CASE d # c
        <5>1. (\E j \in DOMAIN queue' : queue'[j] = d) <=> \E j \in DOMAIN queue : queue[j] = d
          BY <3>2, <4>2
        <5> QED
          BY <3>5, <4>2, <5>1 DEF LockIsItsQueue
      <4> QED
        BY <4>1, <4>2
    <3>7. \A d \in Callers : at'[d] \in {"post", "answer"} => queue' # <<>> /\ Head(queue') = d
      BY <3>2, <3>5 DEF LockIsItsQueue, Holds
    <3> QED
      BY <3>4, <3>6, <3>7 DEF LockIsItsQueue, Holds
  <2> QED
    BY <2>1, <2>2
<1>2. ASSUME NEW c \in Callers, Enter(c) PROVE LockIsItsQueue'
  <2>1. CASE Recheck
    BY <1>2, <2>1, ReleaseKeepsQueue DEF Enter
  <2>2. CASE ~Recheck
    <3>1. /\ queue' = queue /\ at' = [at EXCEPT ![c] = "post"] /\ at[c] = "lock"
          /\ Holds(c)
      BY <1>2, <2>2 DEF Enter, Put
    <3> QED
      BY <3>1 DEF LockIsItsQueue, TypeOK, Holds
  <2> QED
    BY <2>1, <2>2
<1>3. ASSUME NEW c \in Callers, Issue(c) \/ Retry(c) PROVE LockIsItsQueue'
  <2>1. /\ queue' = queue /\ at[c] \in {"post", "answer"}
        /\ at' = [at EXCEPT ![c] = "post"] \/ at' = [at EXCEPT ![c] = "answer"]
    BY <1>3 DEF Issue, Retry, Put
  <2>2. at'[c] \in {"post", "answer"} /\ \A d \in Callers \ {c} : at'[d] = at[d]
    BY <2>1 DEF TypeOK
  <2> QED
    BY <2>1, <2>2 DEF LockIsItsQueue, Holds
<1>4. ASSUME NEW c \in Callers, Store(c) \/ Refused(c) PROVE LockIsItsQueue'
  <2>1. Holds(c)
    BY <1>4 DEF Store, Refused, LockIsItsQueue
  <2> QED
    BY <1>4, <2>1, ReleaseKeepsQueue DEF Store, Refused, Leave
<1>5. ASSUME NEW c \in Callers, Cancel(c) PROVE LockIsItsQueue'
  <2>1. PICK i \in DOMAIN queue : queue[i] = c /\ queue' = RemoveAt(queue, i)
    BY <1>5 DEF Cancel
  <2>2. /\ queue' \in Seq(Callers) /\ Len(queue') = Len(queue) - 1
        /\ \A j \in 1 .. Len(queue) - 1 :
             queue'[j] = IF j < i THEN queue[j] ELSE queue[j + 1]
    <3>1. queue \in Seq(Callers) /\ i \in 1 .. Len(queue)
      BY DEF TypeOK
    <3> QED
      BY <2>1, <3>1, RemoveAtIs
  <2> QED
    BY <1>5, <2>1, <2>2, DepartureKeepsQueue DEF Cancel, Leave
<1>6. ASSUME NEW c \in Callers, Use(c) PROVE LockIsItsQueue'
  BY <1>6 DEF Use, Put, LockIsItsQueue, TypeOK, Holds
<1>7. CASE UNCHANGED <<queue, at>>
  BY <1>7 DEF LockIsItsQueue, Holds
<1> QED
  BY <1>1, <1>2, <1>3, <1>4, <1>5, <1>6, <1>7 DEF Next, Serve, vars, TimePasses

-----------------------------------------------------------------------------
(* The whole invariant *)

LEMMA TypeStep == TypeOK /\ LockIsItsQueue /\ [Next]_vars => TypeOK'
<1> SUFFICES ASSUME TypeOK, LockIsItsQueue, [Next]_vars
             PROVE  TypeOK'
  OBVIOUS
<1> USE CacheAssumption
<1>1. ASSUME NEW c \in Callers, Ask(c) PROVE TypeOK'
  <2>1. queue' = queue \/ queue' = Append(queue, c)
    BY <1>1 DEF Ask
  <2>2. at' \in [Callers -> Places]
    BY <1>1 DEF Ask, Put, TypeOK, Places
  <2>3. queue' \in Seq(Callers)
    <3>1. queue \in Seq(Callers)
      BY DEF TypeOK
    <3>2. Append(queue, c) \in Seq(Callers)
      BY <3>1
    <3> QED
      BY <2>1, <3>1, <3>2
  <2>4. UNCHANGED <<now, expiry, until, stored, tries, issued>>
    BY <1>1 DEF Ask
  <2> QED
    BY <2>2, <2>3, <2>4 DEF TypeOK
<1>2. ASSUME NEW c \in Callers, Enter(c) PROVE TypeOK'
  <2>1. queue' \in Seq(Callers)
    BY <1>2, ReleaseDeparts DEF Enter, Release, TypeOK
  <2> QED
    BY <1>2, <2>1 DEF Enter, Put, TypeOK, Places
<1>3. ASSUME NEW c \in Callers, Issue(c) PROVE TypeOK'
  BY <1>3 DEF Issue, Put, TypeOK, Places
<1>4. ASSUME NEW c \in Callers, Retry(c) PROVE TypeOK'
  BY <1>4 DEF Retry, RetriesLeft, Put, TypeOK, Places
<1>5. ASSUME NEW c \in Callers, Store(c) PROVE TypeOK'
  <2>1. queue' \in Seq(Callers)
    BY <1>5, ReleaseDeparts DEF Store, Release, LockIsItsQueue
  <2>2. Expiry \in Nat
    BY DEF Expiry, TypeOK
  <2> QED
    BY <1>5, <2>1, <2>2 DEF Store, Leave, Put, TypeOK, Places
<1>6. ASSUME NEW c \in Callers, Refused(c) PROVE TypeOK'
  <2>1. queue' \in Seq(Callers)
    BY <1>6, ReleaseDeparts DEF Refused, Release, LockIsItsQueue
  <2> QED
    BY <1>6, <2>1 DEF Refused, Leave, Put, TypeOK, Places
<1>7. ASSUME NEW c \in Callers, Cancel(c) PROVE TypeOK'
  <2>1. queue' \in Seq(Callers)
    BY <1>7, RemoveAtIs DEF Cancel, TypeOK
  <2> QED
    BY <1>7, <2>1 DEF Cancel, Leave, Put, TypeOK, Places
<1>8. ASSUME NEW c \in Callers, Use(c) PROVE TypeOK'
  BY <1>8 DEF Use, Put, TypeOK, Places
<1>9. CASE TimePasses
  BY <1>9 DEF TimePasses, TypeOK
<1>10. CASE UNCHANGED vars
  BY <1>10 DEF vars, TypeOK
<1> QED
  BY <1>1, <1>2, <1>3, <1>4, <1>5, <1>6, <1>7, <1>8, <1>9, <1>10 DEF Next, Serve

LEMMA InitIInv == Init => IInv
  BY CacheAssumption
  DEF Init, IInv, TypeOK, Places, LockIsItsQueue, Holds, Fresh, Underway, Due,
      Refreshing, Spent, Lifetime

\* What a store knows of its token, and of everybody else.
LEMMA StoreKnows ==
  ASSUME IInv, NEW c \in Callers, Store(c)
  PROVE  /\ expiry <= now
         /\ expiry' = now + Lifetime /\ until' = issued[c] + LIFE
         /\ now <= issued[c] + LATENCY
         /\ stored' = stored + 1 /\ now' = now
         /\ \A d \in Callers : ~Refreshing(d)'
<1>1. ASSUME NEW d \in Callers PROVE ~Refreshing(d)'
  <2>1. CASE d = c
    BY <2>1 DEF Store, Leave, Put, IInv, TypeOK, Refreshing
  <2>2. CASE d # c
    <3>1. ~Refreshing(d)
      BY <2>2 DEF Store, IInv, LockIsItsQueue, Holds, Refreshing
    <3> QED
      BY <2>2, <3>1 DEF Store, Leave, Put, IInv, TypeOK, Refreshing
  <2> QED
    BY <2>1, <2>2
<1> QED
  BY <1>1, CacheAssumption
  DEF Store, Expiry, Lifetime, IInv, TypeOK, Due, Underway, Refreshing

LEMMA StepIInv == IInv /\ [Next]_vars => IInv'
<1> SUFFICES ASSUME IInv, [Next]_vars
             PROVE  IInv'
  OBVIOUS
<1>1. TypeOK' /\ LockIsItsQueue'
  BY TypeStep, QueueStep DEF IInv
<1> SUFFICES Fresh' /\ Underway' /\ Due' /\ Spent'
  BY <1>1 DEF IInv
<1>2. /\ now \in Nat /\ expiry \in Nat /\ until \in Nat /\ stored \in Nat
      /\ Lifetime \in Nat /\ Lifetime > 0
      /\ \A c \in Callers : issued[c] \in Nat
  BY LifetimePositive DEF IInv, TypeOK
<1>3. ASSUME NEW c \in Callers, Store(c)
      PROVE  Fresh' /\ Underway' /\ Due' /\ Spent'
  <2>1. Fresh'
    <3>1. stored' # 0 /\ expiry' <= now' + Lifetime
      BY <1>2, <1>3, StoreKnows
    <3>2. until' + LATENCY >= expiry' + SKEW
      BY <1>2, <1>3, StoreKnows, CacheAssumption DEF Lifetime
    <3> QED
      BY <3>1, <3>2 DEF Fresh, Lifetime
  <2>2. Underway' /\ Due'
    BY <1>3, StoreKnows DEF Underway, Due, Refreshing
  <2>3. Spent'
    <3>1. (stored + 1) * Lifetime = stored * Lifetime + Lifetime
      BY <1>2
    <3>2. stored * Lifetime \in Nat /\ stored * Lifetime <= expiry
      BY <1>2 DEF IInv, Spent
    <3>3. stored' * Lifetime <= expiry'
      BY <1>2, <1>3, <3>1, <3>2, StoreKnows
    <3> QED
      BY <3>3 DEF Spent, Lifetime
  <2> QED
    BY <2>1, <2>2, <2>3
<1>4. ASSUME UNCHANGED <<expiry, until, stored>>, now' \in Nat, now' >= now
      PROVE  Fresh' /\ Spent'
  BY <1>2, <1>4 DEF IInv, Fresh, Spent, Lifetime
<1>5. ASSUME UNCHANGED <<expiry, now>>,
             \A c \in Callers : Refreshing(c)' => Refreshing(c)
      PROVE  Due'
  BY <1>5 DEF IInv, Due, Refreshing
<1>6. ASSUME UNCHANGED now,
             \A c \in Callers :
               at'[c] = "answer" => at[c] = "answer" /\ issued'[c] = issued[c]
      PROVE  Underway'
  BY <1>6 DEF IInv, Underway
<1>7. ASSUME NEW c \in Callers, Ask(c) \/ Use(c) \/ Refused(c) \/ Cancel(c)
      PROVE  Fresh' /\ Underway' /\ Due' /\ Spent'
  <2>1. /\ UNCHANGED <<now, expiry, until, stored>>
        /\ \A d \in Callers \ {c} : at'[d] = at[d] /\ issued'[d] = issued[d]
        /\ at'[c] \in {"idle", "lock", "has"}
    BY <1>7 DEF Ask, Use, Refused, Cancel, Leave, Put, IInv, TypeOK
  <2> QED
    BY <1>2, <1>4, <1>5, <1>6, <2>1 DEF Refreshing
<1>8. ASSUME NEW c \in Callers, Enter(c)
      PROVE  Fresh' /\ Underway' /\ Due' /\ Spent'
  <2>1. /\ UNCHANGED <<now, expiry, until, stored, issued>>
        /\ \A d \in Callers \ {c} : at'[d] = at[d]
        /\ at'[c] \in {"has", "post"}
        /\ at'[c] = "post" => ~Valid
    BY <1>8 DEF Enter, Put, Recheck, IInv, TypeOK
  <2>2. ~Valid => expiry <= now
    BY <1>2 DEF Valid, IInv, Fresh
  <2>3. Due'
    BY <2>1, <2>2 DEF Due, Refreshing, IInv
  <2> QED
    BY <1>2, <1>4, <1>6, <2>1, <2>3
<1>9. ASSUME NEW c \in Callers, Issue(c)
      PROVE  Fresh' /\ Underway' /\ Due' /\ Spent'
  <2>1. /\ UNCHANGED <<now, expiry, until, stored>>
        /\ \A d \in Callers \ {c} : at'[d] = at[d] /\ issued'[d] = issued[d]
        /\ at[c] = "post" /\ at'[c] = "answer" /\ issued'[c] = now
    BY <1>9 DEF Issue, Put, IInv, TypeOK
  <2>2. Underway'
    BY <1>2, <2>1, CacheAssumption DEF Underway, IInv
  <2> QED
    BY <1>2, <1>4, <1>5, <2>1, <2>2 DEF Refreshing
<1>10. ASSUME NEW c \in Callers, Retry(c)
       PROVE  Fresh' /\ Underway' /\ Due' /\ Spent'
  <2>1. /\ UNCHANGED <<now, expiry, until, stored>>
        /\ \A d \in Callers \ {c} : at'[d] = at[d] /\ issued'[d] = issued[d]
        /\ Refreshing(c) /\ at'[c] = "post"
    BY <1>10 DEF Retry, Put, IInv, TypeOK, Refreshing
  <2> QED
    BY <1>2, <1>4, <1>5, <1>6, <2>1 DEF Refreshing
<1>11. CASE TimePasses
  <2>1. /\ UNCHANGED <<expiry, until, stored, at, issued>> /\ now' = now + 1
        /\ \A c \in Callers : at[c] = "answer" => now < issued[c] + LATENCY
    BY <1>11 DEF TimePasses
  <2>2. Underway' /\ Due'
    BY <1>2, <2>1, CacheAssumption DEF Underway, Due, Refreshing, IInv
  <2> QED
    BY <1>2, <1>4, <2>1, <2>2
<1>12. CASE UNCHANGED vars
  BY <1>2, <1>4, <1>5, <1>6, <1>12 DEF vars, Refreshing
<1> QED
  BY <1>3, <1>7, <1>8, <1>9, <1>10, <1>11, <1>12 DEF Next, Serve

LEMMA Invariance == Spec => []IInv
  BY InitIInv, StepIInv, PTL DEF Spec

(* Types, for every value of the constants. *)
THEOREM TypeCorrect == Spec => []TypeOK
  BY Invariance, PTL DEF IInv

(* One refresh at a time, by the holder of the lock, and every way out of  *)
(* it releases the lock (async with _lock, token.py:41-70).                *)
THEOREM LockCorrect == Spec => []LockIsItsQueue
  BY Invariance, PTL DEF IInv

(* Refreshes are a cached lifetime apart, however many callers ask at once *)
(* (the second look under the lock, token.py:42-44).                       *)
THEOREM SpacingCorrect == Spec => []RefreshesSpaced
<1>1. IInv => RefreshesSpaced
  <2> SUFFICES ASSUME IInv PROVE stored * Lifetime <= now + Lifetime
    BY DEF RefreshesSpaced, Lifetime
  <2>1. /\ now \in Nat /\ expiry \in Nat /\ stored \in Nat
        /\ Lifetime \in Nat /\ stored * Lifetime <= expiry
        /\ stored * Lifetime \in Nat
    BY LifetimePositive DEF IInv, TypeOK, Spent
  <2>2. expiry <= now + Lifetime
    BY <2>1 DEF IInv, Fresh
  <2> QED
    BY <2>1, <2>2
<1> QED
  BY <1>1, Invariance, PTL

(* Whatever way a token is returned, it lives longer than SKEW - LATENCY   *)
(* (_EXPIRY_SKEW_SECONDS, token.py:22, 68).                                *)
THEOREM FreshnessCorrect == Spec => ReturnedIsFresh
<1> DEFINE Returned == \A c \in Callers :
             at[c] # "has" /\ at'[c] = "has" => until' - now > SKEW - LATENCY
<1>1. ASSUME IInv, [Next]_vars PROVE [Returned]_vars
  <2> SUFFICES ASSUME Next, NEW c \in Callers, at[c] # "has", at'[c] = "has"
               PROVE  until' - now > SKEW - LATENCY
    BY <1>1
  <2>0. /\ now \in Nat /\ expiry \in Nat /\ until \in Nat /\ stored \in Nat
        /\ LIFE \in Nat /\ SKEW \in Nat /\ LATENCY \in Nat /\ SKEW < LIFE
        /\ \A d \in Callers : issued[d] \in Nat
    BY <1>1, CacheAssumption DEF IInv, TypeOK
  <2>1. CASE \E d \in Callers : Store(d)
    <3>1. PICK d \in Callers : Store(d)
      BY <2>1
    <3>2. until' = issued[d] + LIFE /\ now <= issued[d] + LATENCY
      BY <1>1, <3>1, StoreKnows
    <3> QED
      BY <2>0, <3>2
  <2>2. CASE ~ \E d \in Callers : Store(d)
    <3>1. until' = until /\ Valid
      BY <1>1, <2>2
      DEF Next, Serve, Ask, Enter, Recheck, Issue, Retry, Refused, Cancel, Use,
          TimePasses, Leave, Put, IInv, TypeOK
    <3> QED
      BY <1>1, <2>0, <3>1 DEF Valid, IInv, Fresh
  <2> QED
    BY <2>1, <2>2
<1> QED
  BY <1>1, Invariance, PTL DEF Spec, ReturnedIsFresh
-----------------------------------------------------------------------------
(* Why nobody waits for ever *)

\* More than a holder can have left to do.
Full == 2 * RETRIES + 3

\* The holder's steps that are left: two for each try, one to enter.
Work(c) ==
  IF at[c] = "lock" THEN Full
  ELSE IF at[c] = "post" THEN 2 * (RETRIES - tries[c]) + 2
  ELSE 2 * (RETRIES - tries[c]) + 1

Times(n) == n * Full

\* What the i-th of the queue has to wait for: everybody ahead of it in full,
\* but the holder for what it has left.
Wait(i) == Times(i - 1) + Work(queue[1])

LEMMA TimesGrows ==
  /\ Full \in Nat
  /\ \A n \in Nat : Times(n) \in Nat /\ Times(n + 1) = Times(n) + Full
  BY CacheAssumption DEF Full, Times

LEMMA FullPositive == Full > 0
  BY CacheAssumption DEF Full

LEMMA WorkIs ==
  ASSUME TypeOK, LockIsItsQueue, queue # <<>>
  PROVE  /\ queue[1] \in Callers
         /\ at[queue[1]] \in {"lock", "post", "answer"}
         /\ Work(queue[1]) \in Nat /\ Work(queue[1]) > 0
         /\ \A i \in DOMAIN queue : i # 1 => at[queue[i]] = "lock"
<1>1. queue \in Seq(Callers) /\ 1 \in DOMAIN queue /\ queue[1] \in Callers
  BY DEF TypeOK
<1>2. at[queue[1]] \in {"lock", "post", "answer"}
  BY <1>1 DEF LockIsItsQueue
<1>3. tries[queue[1]] \in 0 .. RETRIES
  BY <1>1 DEF TypeOK
<1>4. Work(queue[1]) \in Nat /\ Work(queue[1]) > 0
  BY <1>2, <1>3, CacheAssumption DEF Work, Full
<1>5. ASSUME NEW i \in DOMAIN queue, i # 1 PROVE at[queue[i]] = "lock"
  <2>1. queue[i] \in Callers /\ queue[i] # queue[1] /\ Head(queue) = queue[1]
    BY <1>1, <1>5 DEF LockIsItsQueue, TypeOK
  <2> QED
    BY <2>1 DEF LockIsItsQueue, Holds
<1> QED
  BY <1>1, <1>2, <1>4, <1>5

\* For whoever waits at i: gone, or not further from its turn.
Nearer(i) ==
  \/ at'[queue[i]] \in {"idle", "has"}
  \/ \E j \in DOMAIN queue' :
       queue'[j] = queue[i] /\ (Wait(j)' = Wait(i) \/ Wait(j)' < Wait(i))

\* The same, and a step closer to it.
Closer(i) ==
  \/ at'[queue[i]] \in {"idle", "has"}
  \/ \E j \in DOMAIN queue' : queue'[j] = queue[i] /\ Wait(j)' < Wait(i)

\* The i-th leaves: for those behind it a turn less to wait for, and if it was
\* the holder, what it had left besides.
LEMMA DepartureBrings ==
  ASSUME TypeOK, LockIsItsQueue, NEW c \in Callers, NEW i \in DOMAIN queue,
         queue[i] = c, queue' \in Seq(Callers), Len(queue') = Len(queue) - 1,
         \A j \in 1 .. Len(queue) - 1 :
           queue'[j] = IF j < i THEN queue[j] ELSE queue[j + 1],
         NEW place \in {"idle", "has"}, Put(c, place),
         \A d \in Callers \ {c} : tries'[d] = tries[d]
  PROVE  /\ \A k \in DOMAIN queue : Nearer(k)
         /\ i = 1 => \A k \in DOMAIN queue : Closer(k)
<1>0. /\ queue \in Seq(Callers) /\ Len(queue) \in Nat /\ i \in 1 .. Len(queue)
      /\ DOMAIN queue = 1 .. Len(queue) /\ DOMAIN queue' = 1 .. Len(queue) - 1
      /\ \A j, k \in 1 .. Len(queue) : queue[j] = queue[k] => j = k
      /\ queue # <<>>
  <2>1. queue \in Seq(Callers) /\ Len(queue) \in Nat /\ DOMAIN queue = 1 .. Len(queue)
    BY DEF TypeOK
  <2>2. DOMAIN queue' = 1 .. Len(queue) - 1
    BY <2>1
  <2>3. \A j, k \in DOMAIN queue : queue[j] = queue[k] => j = k
    BY DEF LockIsItsQueue
  <2> QED
    BY <2>1, <2>2, <2>3
<1>1. /\ at'[c] \in {"idle", "has"}
      /\ \A d \in Callers \ {c} : at'[d] = at[d]
  BY DEF Put, TypeOK
<1> SUFFICES ASSUME NEW k \in 1 .. Len(queue), k # i
             PROVE  Nearer(k) /\ (i = 1 => Closer(k))
  <2>1. Nearer(i) /\ Closer(i)
    BY <1>1 DEF Nearer, Closer
  <2> QED
    BY <1>0, <2>1
<1>w. Work(queue[1]) \in Nat /\ Work(queue[1]) > 0
  BY <1>0, WorkIs
<1>2. CASE i = 1
  <2>1. /\ k - 1 \in 1 .. Len(queue) - 1 /\ k - 1 \in DOMAIN queue'
        /\ queue'[k - 1] = queue[k]
        /\ k - 2 \in Nat /\ (k - 2) + 1 = k - 1 /\ (k - 1) - 1 = k - 2
        /\ 1 \in 1 .. Len(queue) - 1 /\ 2 \in 1 .. Len(queue)
    BY <1>0, <1>2
  <2>2. queue'[1] = queue[2] /\ queue[2] \in Callers /\ queue[2] # c
    BY <1>0, <1>2, <2>1
  <2>3. at'[queue[2]] = "lock"
    BY <1>0, <1>1, <2>1, <2>2, WorkIs
  <2>4. Work(queue[1])' = Full
    BY <2>2, <2>3 DEF Work
  <2>5. Wait(k - 1)' = Times(k - 2) + Full
    BY <2>1, <2>4 DEF Wait, Times, Full
  <2>6. Wait(k) = Times(k - 1) + Work(queue[1])
    BY DEF Wait
  <2>7. Times(k - 1) = Times(k - 2) + Full /\ Times(k - 1) \in Nat
    <3>1. k - 1 \in Nat /\ Times((k - 2) + 1) = Times(k - 2) + Full
      BY <2>1, TimesGrows
    <3> QED
      BY <2>1, <3>1, TimesGrows
  <2>8. Wait(k - 1)' < Wait(k)
    BY <1>w, <2>5, <2>6, <2>7
  <2> QED
    BY <2>1, <2>8 DEF Nearer, Closer
<1>3. CASE i # 1
  <2>1. queue'[1] = queue[1] /\ queue[1] \in Callers /\ queue[1] # c
    BY <1>0, <1>3, 1 \in 1 .. Len(queue) - 1, 1 < i
  <2>2. Work(queue[1])' = Work(queue[1])
    BY <1>1, <2>1 DEF Work, Full
  <2>3. CASE k < i
    <3>1. k \in DOMAIN queue' /\ queue'[k] = queue[k]
      BY <1>0, <2>3
    <3>2. Wait(k)' = Wait(k)
      BY <2>2 DEF Wait, Times, Full
    <3> QED
      BY <1>3, <3>1, <3>2 DEF Nearer
  <2>4. CASE k > i
    <3>1. /\ k - 1 \in DOMAIN queue' /\ queue'[k - 1] = queue[k]
          /\ k - 2 \in Nat /\ (k - 2) + 1 = k - 1 /\ (k - 1) - 1 = k - 2
      BY <1>0, <2>4
    <3>2. Wait(k - 1)' = Times(k - 2) + Work(queue[1])
      BY <2>2, <3>1 DEF Wait, Times, Full
    <3>3. /\ Times(k - 2) \in Nat /\ Full \in Nat
          /\ Times((k - 2) + 1) = Times(k - 2) + Full
      BY <3>1, TimesGrows
    <3>4. Times(k - 1) = Times(k - 2) + Full
      BY <3>1, <3>3
    <3>5. Wait(k) = Times(k - 1) + Work(queue[1])
      BY DEF Wait
    <3>6. Wait(k - 1)' < Wait(k)
      BY <1>w, FullPositive, <3>2, <3>3, <3>4, <3>5
    <3> QED
      BY <1>3, <3>1, <3>6 DEF Nearer
  <2> QED
    BY <1>0, <2>3, <2>4
<1> QED
  BY <1>2, <1>3

\* The holder goes on, and has less left to do.
LEMMA HolderGoesOn ==
  ASSUME TypeOK, LockIsItsQueue, NEW c \in Callers, Holds(c), queue' = queue,
         Work(c)' \in Int, Work(c)' < Work(c)
  PROVE  \A k \in DOMAIN queue : Closer(k)
<1>1. queue[1] = c /\ queue # <<>>
  BY DEF Holds, TypeOK
<1>2. Work(queue[1])' < Work(queue[1]) /\ Work(queue[1])' \in Int /\ Work(queue[1]) \in Nat
  BY <1>1, WorkIs
<1> SUFFICES ASSUME NEW k \in DOMAIN queue PROVE Closer(k)
  OBVIOUS
<1>3. k - 1 \in Nat /\ Times(k - 1) \in Nat
  <2>1. queue \in Seq(Callers) /\ DOMAIN queue = 1 .. Len(queue)
    BY DEF TypeOK
  <2>2. k - 1 \in Nat
    BY <2>1
  <2> QED
    BY <2>2, TimesGrows
<1>4. Wait(k)' = Times(k - 1) + Work(queue[1])'
  BY DEF Wait, Times, Full
<1>5. Wait(k)' < Wait(k)
  BY <1>2, <1>3, <1>4 DEF Wait
<1> QED
  BY <1>5 DEF Closer

LEMMA ServedCloser ==
  ASSUME TypeOK, LockIsItsQueue, NEW c \in Callers, Serve(c)
  PROVE  \A k \in DOMAIN queue : Closer(k)
<1>0. Holds(c) /\ tries[c] \in 0 .. RETRIES /\ RETRIES \in Nat
  BY CacheAssumption
  DEF Serve, Enter, Issue, Store, Retry, Refused, LockIsItsQueue, TypeOK
<1>1. ASSUME NEW place \in {"idle", "has"}, Put(c, place), Release,
             \A d \in Callers \ {c} : tries'[d] = tries[d]
      PROVE  \A k \in DOMAIN queue : Closer(k)
  BY <1>0, <1>1, ReleaseDeparts, DepartureBrings DEF Release
<1>2. CASE Store(c) \/ Refused(c)
  <2>1. /\ Release /\ tries' = [tries EXCEPT ![c] = 0]
        /\ \E place \in {"idle", "has"} : Put(c, place)
    BY <1>2 DEF Store, Refused, Leave
  <2> QED
    BY <1>1, <2>1 DEF TypeOK
<1>3. CASE Enter(c)
  <2>1. CASE Recheck
    BY <1>1, <1>3, <2>1 DEF Enter
  <2>2. CASE ~Recheck
    <3>1. at[c] = "lock" /\ at'[c] = "post" /\ tries' = tries /\ queue' = queue
      BY <1>3, <2>2 DEF Enter, Put, TypeOK
    <3>2. Work(c)' = 2 * (RETRIES - tries[c]) + 2 /\ Work(c) = 2 * RETRIES + 3
      BY <3>1 DEF Work, Full
    <3> QED
      BY <1>0, <3>1, <3>2, HolderGoesOn
  <2> QED
    BY <2>1, <2>2
<1>4. CASE Issue(c)
  <2>1. at[c] = "post" /\ at'[c] = "answer" /\ tries' = tries /\ queue' = queue
    BY <1>4 DEF Issue, Put, TypeOK
  <2>2. /\ Work(c)' = 2 * (RETRIES - tries[c]) + 1
        /\ Work(c) = 2 * (RETRIES - tries[c]) + 2
    BY <2>1 DEF Work
  <2> QED
    BY <1>0, <2>1, <2>2, HolderGoesOn
<1>5. CASE Retry(c)
  <2>1. /\ at[c] \in {"post", "answer"} /\ at'[c] = "post"
        /\ tries'[c] = tries[c] + 1 /\ queue' = queue
    BY <1>5 DEF Retry, Put, TypeOK
  <2>2. /\ Work(c)' = 2 * (RETRIES - (tries[c] + 1)) + 2
        /\ Work(c) >= 2 * (RETRIES - tries[c]) + 1
    BY <1>0, <2>1 DEF Work
  <2>3. Work(c) \in Int
    BY <1>0, <2>1 DEF Work
  <2> QED
    BY <1>0, <2>1, <2>2, <2>3, HolderGoesOn
<1> QED
  BY <1>2, <1>3, <1>4, <1>5 DEF Serve

\* No step of anybody else takes a waiter further from its turn.
LEMMA OthersNearer ==
  ASSUME TypeOK, LockIsItsQueue, [Next]_vars, \A c \in Callers : ~Serve(c)
  PROVE  \A k \in DOMAIN queue : Nearer(k)
<1>1. ASSUME \A k \in DOMAIN queue :
               k \in DOMAIN queue' /\ queue'[k] = queue[k] /\ at'[queue[k]] = at[queue[k]],
             tries' = tries
      PROVE  \A k \in DOMAIN queue : Nearer(k)
  <2> SUFFICES ASSUME NEW k \in DOMAIN queue PROVE Nearer(k)
    OBVIOUS
  <2>1. queue # <<>> /\ 1 \in DOMAIN queue
    BY DEF TypeOK
  <2>2. Work(queue[1])' = Work(queue[1])
    BY <1>1, <2>1 DEF Work, Full
  <2>3. Wait(k)' = Wait(k)
    BY <2>2 DEF Wait, Times, Full
  <2> QED
    BY <1>1, <2>3 DEF Nearer
<1>2. CASE TimePasses \/ UNCHANGED vars
  BY <1>1, <1>2 DEF TimePasses, vars
<1>3. ASSUME NEW c \in Callers, Ask(c) \/ Use(c) PROVE \A k \in DOMAIN queue : Nearer(k)
  <2>1. at[c] \notin {"lock", "post", "answer"} /\ tries' = tries
        /\ \A d \in Callers \ {c} : at'[d] = at[d]
    BY <1>3 DEF Ask, Use, Put, TypeOK
  <2>2. \A k \in DOMAIN queue : queue[k] \in Callers \ {c}
    BY <2>1 DEF LockIsItsQueue, TypeOK
  <2>3. queue' = queue \/ queue' = Append(queue, c)
    BY <1>3 DEF Ask, Use
  <2>4. \A k \in DOMAIN queue : k \in DOMAIN queue' /\ queue'[k] = queue[k]
    <3>1. /\ queue \in Seq(Callers) /\ DOMAIN queue = 1 .. Len(queue)
          /\ Len(queue) \in Nat
      BY DEF TypeOK
    <3>2. CASE queue' = queue
      BY <3>2
    <3>3. CASE queue' = Append(queue, c)
      <4>1. /\ DOMAIN queue' = 1 .. Len(queue) + 1
            /\ \A k \in 1 .. Len(queue) : queue'[k] = queue[k]
        BY <3>1, <3>3, AppendProperties, <1>3
      <4> QED
        BY <3>1, <4>1
    <3> QED
      BY <2>3, <3>2, <3>3
  <2> QED
    BY <1>1, <2>1, <2>2, <2>4
<1>4. ASSUME NEW c \in Callers, Cancel(c) PROVE \A k \in DOMAIN queue : Nearer(k)
  <2>1. PICK i \in DOMAIN queue : queue[i] = c /\ queue' = RemoveAt(queue, i)
    BY <1>4 DEF Cancel
  <2>2. /\ queue' \in Seq(Callers) /\ Len(queue') = Len(queue) - 1
        /\ \A j \in 1 .. Len(queue) - 1 :
             queue'[j] = IF j < i THEN queue[j] ELSE queue[j + 1]
    <3>1. queue \in Seq(Callers) /\ i \in 1 .. Len(queue)
      BY DEF TypeOK
    <3> QED
      BY <2>1, <3>1, RemoveAtIs
  <2>3. Put(c, "idle") /\ \A d \in Callers \ {c} : tries'[d] = tries[d]
    BY <1>4 DEF Cancel, Leave, TypeOK
  <2> QED
    BY <2>1, <2>2, <2>3, DepartureBrings
<1> QED
  BY <1>2, <1>3, <1>4 DEF Next

(* Every step under the lock brings everybody in its queue closer to its     *)
(* turn, by a natural number that has Full for each caller ahead, and no     *)
(* step of any other, cancellations and failures included, takes anybody     *)
(* further from it: what is left of NobodyStarves is that a holder can       *)
(* always take one (token.py, the lock around the refresh).                  *)
THEOREM EveryTurnComes ==
  Spec => /\ [](\A k \in DOMAIN queue : Wait(k) \in Nat)
          /\ [][\A k \in DOMAIN queue :
                  Nearer(k) /\ ((\E c \in Callers : Serve(c)) => Closer(k))]_vars
<1> DEFINE Counted == \A k \in DOMAIN queue : Wait(k) \in Nat
           Turn == \A k \in DOMAIN queue :
                     Nearer(k) /\ ((\E c \in Callers : Serve(c)) => Closer(k))
<1>0. ASSUME TypeOK, LockIsItsQueue PROVE Counted
  <2> SUFFICES ASSUME NEW k \in DOMAIN queue PROVE Wait(k) \in Nat
    OBVIOUS
  <2>1. queue # <<>> /\ k - 1 \in Nat
    BY <1>0 DEF TypeOK
  <2>2. Work(queue[1]) \in Nat /\ Times(k - 1) \in Nat
    BY <1>0, <2>1, WorkIs, TimesGrows
  <2> QED
    BY <2>2 DEF Wait
<1>1. ASSUME TypeOK, TypeOK', LockIsItsQueue, LockIsItsQueue', [Next]_vars PROVE Turn
  <2>1. CASE \A c \in Callers : ~Serve(c)
    BY <1>1, <2>1, OthersNearer
  <2>2. ASSUME NEW c \in Callers, Serve(c) PROVE Turn
    <3>1. \A k \in DOMAIN queue : Closer(k)
      BY <1>1, <2>2, ServedCloser
    <3>2. \A k \in DOMAIN queue : Closer(k) => Nearer(k)
      BY DEF Closer, Nearer
    <3> QED
      BY <3>1, <3>2
  <2> QED
    BY <2>1, <2>2
<1>2. TypeOK /\ TypeOK' /\ LockIsItsQueue /\ LockIsItsQueue' /\ [Next]_vars => [Turn]_vars
  BY <1>1
<1>3. IInv => TypeOK /\ LockIsItsQueue
  BY DEF IInv
<1>4. IInv => Counted
  BY <1>0, <1>3
<1> QED
  BY <1>2, <1>3, <1>4, Invariance, PTL DEF Spec
=============================================================================
