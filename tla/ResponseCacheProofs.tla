-------------------------- MODULE ResponseCacheProofs --------------------------
(***************************************************************************)
(* What the cache and the gateway guarantee for any number of tasks and    *)
(* keys, any limit, window, number of attempts and lifetimes: the limit of *)
(* the provider holds, no failure is cached, and whoever waits for the     *)
(* limiter is in line.                                                     *)
(***************************************************************************)
EXTENDS ResponseCache, SequenceTheorems, WellFoundedInduction, TLAPS

-----------------------------------------------------------------------------
(* The inductive invariants *)

\* Oldest first.
Falling(ages) == \A i, j \in DOMAIN ages : i <= j => ages[j] <= ages[i]

\* The limiter remembers every request of the last window, in order, and no
\* more stamps than the limit.
WindowInv ==
  /\ stamps \in Seq(0..Window) /\ Falling(stamps) /\ Len(stamps) <= Limit
  /\ sent = Recent(stamps)

\* Whoever waits for the limiter holds its lock or stands in line once, and
\* nobody else does.
Once(q) == \A i, j \in DOMAIN q : q[i] = q[j] => i = j
Waits(q, t) == \E i \in DOMAIN q : q[i] = t

InLine ==
  /\ Once(queue) /\ ~ Waits(queue, holder)
  /\ \A t \in Tasks : call[t].pc = "limiter" <=> t = holder \/ Waits(queue, t)
  /\ \A t \in Tasks : call[t].pc = "idle" <=> look[t].pc # "asking"
  /\ holder = NoTask => sleep = 0

LineInv ==
  /\ holder \in Tasks \cup {NoTask} /\ queue \in Seq(Tasks) /\ sleep \in 0..Window
  /\ call \in [Tasks -> CallRecord]
  /\ InLine

\* What a row and a store in progress may say.
Genuine(status) == status \in {"ok", "empty"}

RowGenuine(row) ==
  row # NoRow =>
    /\ Genuine(row.status)
    /\ row.left > 0 => row.left + row.age <= Ttl(row.status)

LookGenuine(l) ==
  /\ l.pc \in {"asking", "answered", "storing"} => l.key \in Keys
  /\ l.pc \in {"asking", "answered"} => l.age = 0
  /\ l.pc = "answered" => l.status \in Statuses
  /\ l.pc = "storing" => Genuine(l.status)

StoreInv ==
  /\ rows \in [Keys -> CacheRow] /\ look \in [Tasks -> LookRecord] /\ doomed \subseteq Keys
  /\ \A k \in Keys : RowGenuine(rows[k])
  /\ \A t \in Tasks : LookGenuine(look[t])

-----------------------------------------------------------------------------
(* Lists of ages *)

LEMMA GateConstants ==
  /\ Limit \in Nat /\ 0 < Limit /\ Window \in Nat /\ 0 < Window
  /\ MaxAttempts \in Nat /\ 0 < MaxAttempts /\ NoTask \notin Tasks
BY GatewayAssumption

LEMMA FunctionIsSeq ==
  ASSUME NEW S, NEW n \in Nat, NEW f \in [1..n -> S]
  PROVE  f \in Seq(S) /\ Len(f) = n /\ DOMAIN f = 1..n
<1>1. f \in Seq(S)
  BY SeqDef
<1> QED BY <1>1, LenProperties

LEMMA LeastOf ==
  ASSUME NEW T \in SUBSET Nat, T # {}
  PROVE  \E x \in T : \A y \in T : x <= y
<1> DEFINE R == OpToRel(<, Nat)
<1>1. \A x, y \in Nat : y < x => <<y, x>> \in R
  BY DEF OpToRel
<1>2. IsWellFoundedOn(R, Nat)
  BY NatLessThanWellFounded
<1> HIDE DEF R
<1>3. PICK x \in T : \A y \in T : ~(<<y, x>> \in R)
  BY <1>2, WFMin
<1>4. \A y \in T : ~(y < x)
  BY <1>1, <1>3, Zenon
<1> QED BY <1>4, SMT

\* The first n ages are out of the window, and the others are not.
Parts(ages, n) == \A i \in DOMAIN ages : ages[i] < Window <=> i > n

LEMMA PartsOnce ==
  ASSUME NEW q \in Seq(Nat), NEW m \in 0..Len(q), NEW n \in 0..Len(q), Parts(q, m), Parts(q, n)
  PROVE  m = n
<1>1. DOMAIN q = 1..Len(q) /\ Len(q) \in Nat
  BY LenProperties
<1>2. ASSUME NEW a \in 0..Len(q), NEW b \in 0..Len(q), Parts(q, a), Parts(q, b), a < b PROVE FALSE
  <2>1. b \in DOMAIN q
    BY <1>1, <1>2
  <2>2. b > a /\ ~(b > b)
    BY <1>1, <1>2
  <2> QED BY <1>2, <2>1, <2>2 DEF Parts
<1> QED BY <1>1, <1>2

\* A list in order has such an n, so the comprehension of the limiter keeps
\* exactly the ages inside the window.
LEMMA ExpiredParts ==
  ASSUME NEW q \in Seq(Nat), Falling(q)
  PROVE  Expired(q) \in 0..Len(q) /\ Parts(q, Expired(q))
<1> DEFINE T == {i \in DOMAIN q : q[i] < Window}
<1>1. DOMAIN q = 1..Len(q) /\ Len(q) \in Nat /\ \A i \in 1..Len(q) : q[i] \in Nat
  BY LenProperties, ElementOfSeq
<1>2. CASE T = {}
  <2>1. Len(q) \in 0..Len(q) /\ Parts(q, Len(q))
    BY <1>1, <1>2 DEF Parts
  <2> QED BY <2>1 DEF Expired, Parts
<1>3. CASE T # {}
  <2>1. T \in SUBSET Nat
    BY <1>1
  <2>2. PICK x \in T : \A y \in T : x <= y
    BY <1>3, <2>1, LeastOf
  <2>3. x - 1 \in 0..Len(q)
    BY <1>1, <2>2
  <2>4. ASSUME NEW i \in DOMAIN q PROVE q[i] < Window <=> i > x - 1
    <3>1. x \in 1..Len(q) /\ i \in 1..Len(q) /\ q[x] < Window /\ q[x] \in Nat /\ q[i] \in Nat
      BY <1>1
    <3>2. i >= x => q[i] <= q[x]
      BY <1>1, <3>1 DEF Falling
    <3>3. q[i] < Window => x <= i
      BY <2>2
    <3> QED BY <3>1, <3>2, <3>3, GateConstants
  <2>5. Parts(q, x - 1)
    BY <2>4 DEF Parts
  <2> QED BY <2>3, <2>5 DEF Expired, Parts
<1> QED BY <1>2, <1>3

LEMMA RecentParts ==
  ASSUME NEW q \in Seq(Nat), NEW n \in 0..Len(q), Falling(q), Parts(q, n)
  PROVE  /\ Recent(q) = SubSeq(q, n + 1, Len(q)) /\ Recent(q) \in Seq(Nat)
         /\ Len(Recent(q)) = Len(q) - n
         /\ \A i \in 1..(Len(q) - n) : Recent(q)[i] = q[n + i] /\ q[n + i] < Window
<1>1. DOMAIN q = 1..Len(q) /\ Len(q) \in Nat /\ \A i \in 1..Len(q) : q[i] \in Nat
  BY LenProperties, ElementOfSeq
<1>2. Expired(q) = n
  BY ExpiredParts, PartsOnce
<1>3. Recent(q) = SubSeq(q, n + 1, Len(q))
  BY <1>2 DEF Recent
<1>4. /\ SubSeq(q, n + 1, Len(q)) \in Seq(Nat)
      /\ Len(SubSeq(q, n + 1, Len(q))) = IF n + 1 <= Len(q) THEN Len(q) - (n + 1) + 1 ELSE 0
      /\ \A i \in 1..(Len(q) - (n + 1) + 1) : SubSeq(q, n + 1, Len(q))[i] = q[(n + 1) + i - 1]
  <2>1. n + 1 \in Int /\ Len(q) \in Int /\ \A i \in (n + 1)..Len(q) : q[i] \in Nat
    BY <1>1
  <2> DEFINE a == n + 1
             b == Len(q)
  <2> HIDE DEF a, b
  <2>2. /\ SubSeq(q, a, b) \in Seq(Nat)
        /\ Len(SubSeq(q, a, b)) = IF a <= b THEN b - a + 1 ELSE 0
        /\ \A i \in 1..(b - a + 1) : SubSeq(q, a, b)[i] = q[a + i - 1]
    <3>1. a \in Int /\ b \in Int /\ \A i \in a..b : q[i] \in Nat
      BY <2>1 DEF a, b
    <3> QED BY <3>1, SubSeqProperties, SMTT(60)
  <2> QED BY <2>2 DEF a, b
<1>5. Len(Recent(q)) = Len(q) - n
  <2>1. CASE n + 1 <= Len(q)
    <3>1. Len(q) - (n + 1) + 1 = Len(q) - n
      BY <1>1
    <3> QED BY <1>3, <1>4, <2>1, <3>1, Zenon
  <2>2. CASE ~(n + 1 <= Len(q))
    <3>1. n \in Int /\ Len(q) \in Int /\ n <= Len(q)
      BY <1>1
    <3>2. Len(q) - n = 0
      BY <2>2, <3>1
    <3> QED BY <1>3, <1>4, <2>2, <3>2, Zenon
  <2> QED BY <2>1, <2>2
<1>6. ASSUME NEW i \in 1..(Len(q) - n) PROVE Recent(q)[i] = q[n + i] /\ q[n + i] < Window
  <2>1. n + i \in DOMAIN q /\ n + i > n /\ (n + 1) + i - 1 = n + i /\ Len(q) - (n + 1) + 1 = Len(q) - n
    BY <1>1
  <2> QED BY <1>3, <1>4, <2>1 DEF Parts
<1> QED BY <1>3, <1>4, <1>5, <1>6

\* What is kept is in order too, and nothing of it is dropped again.
LEMMA RecentOnce ==
  ASSUME NEW q \in Seq(Nat), Falling(q)
  PROVE  /\ Recent(q) \in Seq(Nat) /\ Falling(Recent(q)) /\ Len(Recent(q)) <= Len(q)
         /\ \A i \in DOMAIN Recent(q) : Recent(q)[i] < Window
<1>1. DOMAIN q = 1..Len(q) /\ Len(q) \in Nat
  BY LenProperties
<1>2. PICK n \in 0..Len(q) : Parts(q, n)
  BY ExpiredParts
<1>3. /\ Recent(q) \in Seq(Nat) /\ Len(Recent(q)) = Len(q) - n
      /\ \A i \in 1..(Len(q) - n) : Recent(q)[i] = q[n + i] /\ q[n + i] < Window
  BY <1>2, RecentParts
<1>4. DOMAIN Recent(q) = 1..(Len(q) - n)
  BY <1>3, LenProperties
<1>5. Falling(Recent(q))
  <2> SUFFICES ASSUME NEW i \in 1..(Len(q) - n), NEW j \in 1..(Len(q) - n), i <= j
               PROVE  Recent(q)[j] <= Recent(q)[i]
    BY <1>4 DEF Falling
  <2>1. n + i \in DOMAIN q /\ n + j \in DOMAIN q /\ n + i <= n + j
    BY <1>1
  <2> QED BY <1>3, <2>1 DEF Falling
<1>6. Len(q) - n <= Len(q)
  BY <1>1
<1>7. \A i \in DOMAIN Recent(q) : Recent(q)[i] < Window
  BY <1>3, <1>4, Zenon
<1> QED BY <1>3, <1>5, <1>6, <1>7, Zenon

LEMMA AllRecent ==
  ASSUME NEW q \in Seq(Nat), Falling(q), \A i \in DOMAIN q : q[i] < Window
  PROVE  Recent(q) = q
<1>1. Len(q) \in Nat /\ DOMAIN q = 1..Len(q)
  BY LenProperties
<1>2. 0 \in 0..Len(q) /\ Parts(q, 0)
  BY <1>1 DEF Parts
<1>3. Recent(q) = SubSeq(q, 0 + 1, Len(q))
  BY <1>2, RecentParts
<1> QED BY <1>3, SubSeqFull

-----------------------------------------------------------------------------
(* The line at the limiter *)

LEMMA AppendWaits ==
  ASSUME NEW q \in Seq(Tasks), NEW t \in Tasks, Once(q), ~ Waits(q, t)
  PROVE  /\ Append(q, t) \in Seq(Tasks) /\ Once(Append(q, t))
         /\ \A u : Waits(Append(q, t), u) <=> u = t \/ Waits(q, u)
<1>1. DOMAIN q = 1..Len(q) /\ Len(q) \in Nat
  BY LenProperties
<1>2. /\ Append(q, t) \in Seq(Tasks) /\ DOMAIN Append(q, t) = 1..(Len(q) + 1)
      /\ \A i \in 1..(Len(q) + 1) : Append(q, t)[i] = IF i <= Len(q) THEN q[i] ELSE t
  BY <1>1
<1>3. \A i \in 1..(Len(q) + 1) : i \in 1..Len(q) \/ i = Len(q) + 1
  BY <1>1
<1>4. \A i \in 1..Len(q) : i \in 1..(Len(q) + 1) /\ Append(q, t)[i] = q[i]
  BY <1>1, <1>2
<1>5. Len(q) + 1 \in 1..(Len(q) + 1) /\ Append(q, t)[Len(q) + 1] = t
  BY <1>1, <1>2
<1> QED BY <1>1, <1>2, <1>3, <1>4, <1>5, Zenon DEF Once, Waits

LEMMA TailWaits ==
  ASSUME NEW q \in Seq(Tasks), q # <<>>, Once(q)
  PROVE  /\ Tail(q) \in Seq(Tasks) /\ Once(Tail(q)) /\ Head(q) \in Tasks
         /\ \A u : Waits(Tail(q), u) <=> u # Head(q) /\ Waits(q, u)
<1>1. DOMAIN q = 1..Len(q) /\ Len(q) \in Nat \ {0} /\ Head(q) = q[1] /\ 1 \in DOMAIN q
  BY LenProperties, EmptySeq
<1>2. /\ Tail(q) \in Seq(Tasks) /\ Head(q) \in Tasks /\ Len(Tail(q)) = Len(q) - 1
      /\ \A i \in 1..Len(Tail(q)) : Tail(q)[i] = q[i + 1]
  BY HeadTailProperties
<1>3. DOMAIN Tail(q) = 1..(Len(q) - 1)
  BY <1>2, LenProperties
<1>4. \A i \in DOMAIN Tail(q) : i + 1 \in DOMAIN q /\ i + 1 # 1 /\ Tail(q)[i] = q[i + 1]
  BY <1>1, <1>2, <1>3
<1>5. \A i \in DOMAIN q : i # 1 => i - 1 \in DOMAIN Tail(q) /\ Tail(q)[i - 1] = q[i]
  BY <1>1, <1>2, <1>3
<1>6. \A i, j \in DOMAIN Tail(q) : i + 1 = j + 1 => i = j
  BY <1>1, <1>3
<1>7. Once(Tail(q))
  BY <1>4, <1>6, Zenon DEF Once
<1>8. ASSUME NEW u PROVE Waits(Tail(q), u) <=> u # Head(q) /\ Waits(q, u)
  <2>1. ASSUME Waits(Tail(q), u) PROVE u # Head(q) /\ Waits(q, u)
    <3>1. PICK i \in DOMAIN Tail(q) : Tail(q)[i] = u
      BY <2>1 DEF Waits
    <3>2. i + 1 \in DOMAIN q /\ i + 1 # 1 /\ q[i + 1] = u
      BY <1>4, <3>1
    <3> QED BY <1>1, <3>2, Zenon DEF Once, Waits
  <2>2. ASSUME u # Head(q), Waits(q, u) PROVE Waits(Tail(q), u)
    BY <1>1, <1>5, <2>2, Zenon DEF Waits
  <2> QED BY <2>1, <2>2
<1> QED BY <1>2, <1>7, <1>8

LEMMA WithoutWaits ==
  ASSUME queue \in Seq(Tasks), Once(queue), NEW t
  PROVE  /\ Without(t) \in Seq(Tasks) /\ Once(Without(t))
         /\ \A u : Waits(Without(t), u) <=> u # t /\ Waits(queue, u)
<1>1. DOMAIN queue = 1..Len(queue) /\ Len(queue) \in Nat /\ \A i \in 1..Len(queue) : queue[i] \in Tasks
  BY LenProperties, ElementOfSeq
<1>2. CASE ~ Waits(queue, t)
  <2>1. Without(t) = queue
    BY <1>2 DEF Without, Waits
  <2> QED BY <1>2, <2>1
<1>3. CASE Waits(queue, t)
  <2> DEFINE i == CHOOSE i \in DOMAIN queue : queue[i] = t
             a == SubSeq(queue, 1, i - 1)
             b == SubSeq(queue, i + 1, Len(queue))
  <2>1. Without(t) = a \o b
    BY <1>3 DEF Without, Waits
  <2>2. i \in DOMAIN queue /\ queue[i] = t
    BY <1>3 DEF Waits
  <2> HIDE DEF i
  <2>3. i \in 1..Len(queue) /\ i \in Int /\ Len(queue) \in Int
    BY <1>1, <2>2
  <2>4. /\ a \in Seq(Tasks) /\ Len(a) = i - 1
        /\ \A j \in 1..(i - 1) : a[j] = queue[j]
    <3>1. 1 \in Int /\ i - 1 \in Int /\ \A j \in 1..(i - 1) : queue[j] \in Tasks
      BY <1>1, <2>3
    <3>2. /\ a \in Seq(Tasks) /\ Len(a) = IF 1 <= i - 1 THEN (i - 1) - 1 + 1 ELSE 0
          /\ \A j \in 1..((i - 1) - 1 + 1) : a[j] = queue[1 + j - 1]
      BY <3>1, SubSeqProperties
    <3>3. (IF 1 <= i - 1 THEN (i - 1) - 1 + 1 ELSE 0) = i - 1 /\ (i - 1) - 1 + 1 = i - 1
      BY <2>3
    <3>4. \A j \in 1..(i - 1) : 1 + j - 1 = j
      BY <2>3
    <3> HIDE DEF a
    <3> QED BY <3>2, <3>3, <3>4, Zenon
  <2>5. /\ b \in Seq(Tasks) /\ Len(b) = Len(queue) - i
        /\ \A j \in 1..(Len(queue) - i) : b[j] = queue[i + j]
    <3>1. i + 1 \in Int /\ Len(queue) \in Int /\ \A j \in (i + 1)..Len(queue) : queue[j] \in Tasks
      BY <1>1, <2>3
    <3>2. /\ b \in Seq(Tasks) /\ Len(b) = IF i + 1 <= Len(queue) THEN Len(queue) - (i + 1) + 1 ELSE 0
          /\ \A j \in 1..(Len(queue) - (i + 1) + 1) : b[j] = queue[(i + 1) + j - 1]
      BY <3>1, SubSeqProperties
    <3>3. /\ (IF i + 1 <= Len(queue) THEN Len(queue) - (i + 1) + 1 ELSE 0) = Len(queue) - i
          /\ Len(queue) - (i + 1) + 1 = Len(queue) - i
      BY <2>3
    <3>4. \A j \in 1..(Len(queue) - i) : (i + 1) + j - 1 = i + j
      BY <2>3
    <3> HIDE DEF b
    <3> QED BY <3>2, <3>3, <3>4, Zenon
  <2> DEFINE r == Without(t)
  <2>6. /\ r \in Seq(Tasks) /\ Len(r) = Len(queue) - 1
        /\ \A j \in 1..(Len(queue) - 1) : r[j] = IF j < i THEN queue[j] ELSE queue[j + 1]
    <3> HIDE DEF a, b
    <3>1. /\ a \o b \in Seq(Tasks) /\ Len(a \o b) = Len(a) + Len(b)
          /\ \A j \in 1..(Len(a) + Len(b)) : (a \o b)[j] = IF j <= Len(a) THEN a[j] ELSE b[j - Len(a)]
      BY <2>4, <2>5, ConcatProperties
    <3>2. Len(a) + Len(b) = Len(queue) - 1
      BY <2>3, <2>4, <2>5
    <3>3. ASSUME NEW j \in 1..(Len(queue) - 1) PROVE r[j] = IF j < i THEN queue[j] ELSE queue[j + 1]
      <4>1. r[j] = IF j <= i - 1 THEN a[j] ELSE b[j - (i - 1)]
        BY <2>1, <2>4, <3>1, <3>2
      <4>2. CASE j < i
        BY <2>3, <2>4, <4>1, <4>2
      <4>3. CASE ~(j < i)
        <5>1. j - (i - 1) \in 1..(Len(queue) - i) /\ i + (j - (i - 1)) = j + 1 /\ ~(j <= i - 1)
          BY <2>3, <4>3
        <5> QED BY <2>5, <4>1, <4>3, <5>1
      <4> QED BY <4>2, <4>3
    <3> QED BY <2>1, <3>1, <3>2, <3>3
  <2>7. DOMAIN r = 1..(Len(queue) - 1)
    BY <2>6, LenProperties
  \* Where the j-th of the rest stood.
  <2> DEFINE from(j) == IF j < i THEN j ELSE j + 1
  <2>8. \A j \in DOMAIN r : from(j) \in DOMAIN queue /\ from(j) # i /\ r[j] = queue[from(j)]
    BY <1>1, <2>3, <2>6, <2>7
  <2>9. \A j, k \in DOMAIN r : from(j) = from(k) => j = k
    BY <2>3, <2>7
  <2>10. \A m \in DOMAIN queue : m # i => \E j \in DOMAIN r : from(j) = m
    <3> SUFFICES ASSUME NEW m \in DOMAIN queue, m # i PROVE \E j \in DOMAIN r : from(j) = m
      OBVIOUS
    <3>1. CASE m < i
      BY <1>1, <2>3, <2>7, <3>1
    <3>2. CASE m > i
      <4>1. m - 1 \in DOMAIN r /\ from(m - 1) = m
        BY <1>1, <2>3, <2>7, <3>2
      <4> QED BY <4>1
    <3> QED BY <1>1, <2>3, <3>1, <3>2
  <2> HIDE DEF from, r
  <2>11. Once(r)
    BY <2>8, <2>9, Zenon DEF Once
  <2>12. \A u : Waits(r, u) <=> u # t /\ Waits(queue, u)
    <3>1. ASSUME NEW u, NEW j \in DOMAIN r, r[j] = u PROVE u # t /\ Waits(queue, u)
      BY <2>2, <2>8, <3>1, Zenon DEF Once, Waits
    <3>2. ASSUME NEW u, u # t, NEW m \in DOMAIN queue, queue[m] = u PROVE Waits(r, u)
      <4>1. PICK j \in DOMAIN r : from(j) = m
        BY <2>2, <2>10, <3>2
      <4> QED BY <2>8, <3>2, <4>1, Zenon DEF Waits
    <3> QED BY <3>1, <3>2, Zenon DEF Waits
  <2> QED BY <2>6, <2>11, <2>12 DEF r
<1> QED BY <1>2, <1>3

-----------------------------------------------------------------------------
(* The window *)

\* What a step may do to the stamps.
StampsMove ==
  \/ UNCHANGED <<stamps, sent>>
  \/ \E t \in Tasks : Acquire(t) \/ Throttle(t)
  \/ GateTick

LEMMA StepMovesStamps == [Next]_vars => StampsMove
<1> SUFFICES ASSUME [Next]_vars PROVE StampsMove
  OBVIOUS
<1>1. ASSUME UNCHANGED gateVars PROVE StampsMove
  BY <1>1 DEF gateVars, StampsMove
<1>2. CASE UNCHANGED vars
  BY <1>1, <1>2 DEF vars
<1>3. ASSUME NEW t \in Tasks, LimiterStep(t) PROVE StampsMove
  BY <1>3 DEF LimiterStep, EnterLimiter, Backoff, Again, StampsMove
<1>4. ASSUME NEW t \in Tasks, NEW k \in Keys, Hit(t, k) \/ Miss(t, k) PROVE StampsMove
  BY <1>1, <1>4 DEF Hit, Miss, GetJson, StampsMove
<1>5. ASSUME NEW t \in Tasks, Answered(t) \/ StoreStep(t) \/ CancelLookup(t) PROVE StampsMove
  BY <1>1, <1>5 DEF Answered, Returns, StoreStep, StoreRefused, StoreRead, StoreCommit, Served,
     CancelLookup, CancelCall, StampsMove
<1>6. CASE Sweep \/ ClearRead \/ ClearCommit
  BY <1>1, <1>6 DEF Sweep, ClearRead, ClearCommit
<1>7. CASE Tick
  BY <1>7 DEF Tick, StampsMove
<1> QED BY <1>2, <1>3, <1>4, <1>5, <1>6, <1>7 DEF Next

\* A tick: what is inside the window after it is what was sent and still is.
LEMMA TickKeepsWindow == WindowInv /\ GateTick => WindowInv'
<1> SUFFICES ASSUME WindowInv, GateTick PROVE WindowInv'
  OBVIOUS
<1> USE GateConstants
<1> DEFINE L == Len(stamps)
           v == [i \in DOMAIN stamps |-> IF stamps[i] < Window THEN stamps[i] + 1 ELSE Window]
           u == [i \in DOMAIN sent |-> sent[i] + 1]
<1>1. /\ stamps \in Seq(Nat) /\ DOMAIN stamps = 1..L /\ L \in Nat
      /\ \A i \in 1..L : stamps[i] \in 0..Window
  <2>1. stamps \in Seq(0..Window) /\ 0..Window \subseteq Nat
    BY DEF WindowInv
  <2> QED BY <2>1, SeqMonotonic, LenProperties, ElementOfSeq
<1>2. Falling(stamps) /\ sent = Recent(stamps) /\ L <= Limit
  BY DEF WindowInv
<1>3. PICK n \in 0..L : Parts(stamps, n)
  BY <1>1, <1>2, ExpiredParts
<1>4. /\ sent \in Seq(Nat) /\ Len(sent) = L - n
      /\ \A i \in 1..(L - n) : sent[i] = stamps[n + i] /\ stamps[n + i] < Window
  BY <1>1, <1>2, <1>3, RecentParts
<1>5. Falling(sent) /\ DOMAIN sent = 1..(L - n)
  BY <1>1, <1>2, <1>4, RecentOnce, LenProperties
<1>6. stamps' = v /\ sent' = Recent(u)
  BY DEF GateTick
<1>7. v \in [1..L -> 0..Window]
  BY <1>1
<1>8. v \in Seq(0..Window) /\ v \in Seq(Nat) /\ Len(v) = L /\ DOMAIN v = 1..L
  <2>1. v \in [1..L -> Nat]
    BY <1>1
  <2> QED BY <1>1, <1>7, <2>1, FunctionIsSeq
<1>9. L \in Nat /\ L - n \in Nat /\ n \in Nat /\ n <= L
  BY <1>1
<1>10. u \in Seq(Nat) /\ Len(u) = L - n /\ DOMAIN u = 1..(L - n)
  <2>1. \A i \in 1..(L - n) : sent[i] \in Nat
    BY <1>4, ElementOfSeq
  <2>2. u \in [1..(L - n) -> Nat]
    BY <1>5, <2>1
  <2> QED BY <1>9, <2>2, FunctionIsSeq
<1>11. \A i \in 1..(L - n) : n + i \in 1..L /\ u[i] = stamps[n + i] + 1 /\ v[n + i] = u[i]
  BY <1>1, <1>4, <1>5, <1>9
<1>12. Falling(v)
  <2> SUFFICES ASSUME NEW i \in 1..L, NEW j \in 1..L, i <= j PROVE v[j] <= v[i]
    BY <1>8 DEF Falling
  <2>1. stamps[j] <= stamps[i] /\ stamps[i] \in 0..Window /\ stamps[j] \in 0..Window
    BY <1>1, <1>2 DEF Falling
  <2> QED BY <1>1, <2>1
<1>13. Falling(u)
  <2> SUFFICES ASSUME NEW i \in 1..(L - n), NEW j \in 1..(L - n), i <= j PROVE u[j] <= u[i]
    BY <1>10 DEF Falling
  <2>1. sent[j] <= sent[i] /\ sent[i] \in Nat /\ sent[j] \in Nat
    BY <1>4, <1>5, ElementOfSeq DEF Falling
  <2> QED BY <1>5, <2>1
<1> HIDE DEF u, v, L
<1>14. PICK m \in 0..(L - n) : Parts(u, m)
  BY <1>10, <1>13, ExpiredParts
<1>15. m \in Nat /\ n + m \in 0..L
  BY <1>9, <1>14
<1>16. Parts(v, n + m)
  <2> SUFFICES ASSUME NEW i \in 1..L PROVE v[i] < Window <=> i > n + m
    BY <1>8 DEF Parts
  <2>1. CASE i <= n
    <3>1. ~(stamps[i] < Window)
      BY <1>1, <1>3, <1>9, <2>1 DEF Parts
    <3>2. v[i] = Window
      BY <1>1, <3>1 DEF v
    <3> QED BY <1>9, <1>15, <2>1, <3>2
  <2>2. CASE i > n
    <3>1. i - n \in 1..(L - n) /\ n + (i - n) = i
      BY <1>9, <2>2
    <3>2. v[i] = u[i - n]
      BY <1>11, <3>1
    <3>3. u[i - n] < Window <=> i - n > m
      BY <1>10, <1>14, <3>1 DEF Parts
    <3> QED BY <1>9, <1>15, <2>2, <3>2, <3>3
  <2> QED BY <1>9, <2>1, <2>2
<1>17. /\ Recent(v) \in Seq(Nat) /\ Len(Recent(v)) = L - (n + m)
       /\ \A i \in 1..(L - (n + m)) : Recent(v)[i] = v[(n + m) + i]
  BY <1>8, <1>12, <1>15, <1>16, RecentParts
<1>18. /\ Recent(u) \in Seq(Nat) /\ Len(Recent(u)) = (L - n) - m
       /\ \A i \in 1..((L - n) - m) : Recent(u)[i] = u[m + i]
  <2>1. m \in 0..Len(u)
    BY <1>10, <1>14
  <2>2. Len(Recent(u)) = Len(u) - m /\ \A i \in 1..(Len(u) - m) : Recent(u)[i] = u[m + i]
    BY <1>10, <1>13, <1>14, <2>1, RecentParts
  <2>3. Recent(u) \in Seq(Nat)
    BY <1>10, <1>13, RecentOnce
  <2> QED BY <1>10, <2>2, <2>3, Zenon
<1>19. L - (n + m) = (L - n) - m
  BY <1>8, <1>9, <1>15, LenProperties
<1>20. ASSUME NEW i \in 1..((L - n) - m) PROVE Recent(v)[i] = Recent(u)[i]
  <2>1. m + i \in 1..(L - n) /\ n + (m + i) = (n + m) + i
    BY <1>9, <1>15
  <2>2. v[(n + m) + i] = u[m + i]
    BY <1>11, <2>1, Zenon
  <2>3. i \in 1..(L - (n + m))
    BY <1>19, Zenon
  <2>4. Recent(v)[i] = v[(n + m) + i]
    BY <1>17, <2>3, Zenon
  <2>5. Recent(u)[i] = u[m + i]
    BY <1>18, Zenon
  <2> QED BY <2>2, <2>4, <2>5, Zenon
<1>21. Recent(v) = Recent(u)
  BY <1>17, <1>18, <1>19, <1>20, SeqEqual
<1> QED BY <1>2, <1>6, <1>8, <1>12, <1>21 DEF WindowInv

\* What the limiter does with its list.
LEMMA LimiterKeepsWindow ==
  ASSUME WindowInv, NEW t \in Tasks, Acquire(t) \/ Throttle(t)
  PROVE  WindowInv'
<1> USE GateConstants
<1>1. stamps \in Seq(Nat) /\ Falling(stamps) /\ sent = Kept /\ Len(stamps) <= Limit /\ Len(stamps) \in Nat
  <2>1. stamps \in Seq(0..Window) /\ 0..Window \subseteq Nat
    BY DEF WindowInv
  <2> QED BY <2>1, SeqMonotonic, LenProperties DEF WindowInv, Kept
<1>2. /\ Kept \in Seq(Nat) /\ Falling(Kept) /\ Len(Kept) <= Len(stamps)
      /\ \A i \in DOMAIN Kept : Kept[i] < Window
  BY <1>1, RecentOnce DEF Kept
<1>3. /\ DOMAIN Kept = 1..Len(Kept) /\ Len(Kept) \in Nat /\ Kept \in [1..Len(Kept) -> Nat]
  BY <1>2, LenProperties
<1>4. ASSUME NEW q \in Seq(Nat), Falling(q), \A i \in DOMAIN q : q[i] < Window, Len(q) <= Limit,
             stamps' = q, sent' = q
      PROVE  WindowInv'
  <2>1. q \in [1..Len(q) -> Nat] /\ Len(q) \in Nat /\ DOMAIN q = 1..Len(q)
    BY LenProperties
  <2>2. q \in [1..Len(q) -> 0..Window]
    BY <1>4, <2>1
  <2>3. q \in Seq(0..Window)
    BY <2>1, <2>2, FunctionIsSeq
  <2>4. Recent(q) = q
    BY <1>4, AllRecent
  <2> QED BY <1>4, <2>3, <2>4 DEF WindowInv
<1>5. CASE Throttle(t)
  <2>1. stamps' = Kept /\ sent' = Kept
    BY <1>1, <1>5 DEF Throttle
  <2>2. Len(Kept) <= Limit
    BY <1>1, <1>2, <1>3
  <2> QED BY <1>2, <1>4, <2>1, <2>2
<1>6. CASE Acquire(t)
  <2> DEFINE q == Append(Kept, 0)
  <2>1. stamps' = q /\ sent' = q /\ Len(Kept) < Limit
    BY <1>1, <1>6 DEF Acquire
  <2>2. /\ q \in Seq(Nat) /\ Len(q) = Len(Kept) + 1 /\ DOMAIN q = 1..(Len(Kept) + 1)
        /\ \A i \in 1..(Len(Kept) + 1) : q[i] = IF i <= Len(Kept) THEN Kept[i] ELSE 0
    BY <1>2, <1>3
  <2>3. \A i \in DOMAIN q : q[i] < Window
    BY <1>2, <1>3, <2>2
  <2>4. Falling(q)
    <3> SUFFICES ASSUME NEW i \in 1..(Len(Kept) + 1), NEW j \in 1..(Len(Kept) + 1), i <= j
                 PROVE  q[j] <= q[i]
      BY <2>2 DEF Falling
    <3>1. CASE j <= Len(Kept)
      <4>1. i \in DOMAIN Kept /\ j \in DOMAIN Kept /\ q[i] = Kept[i] /\ q[j] = Kept[j]
        BY <1>3, <2>2, <3>1
      <4> QED BY <1>2, <4>1 DEF Falling
    <3>2. CASE ~(j <= Len(Kept))
      <4>1. q[j] = 0 /\ q[i] \in Nat
        BY <1>3, <2>2, <3>2
      <4> QED BY <4>1
    <3> QED BY <3>1, <3>2
  <2>5. Len(q) <= Limit
    BY <1>3, <2>1, <2>2
  <2> HIDE DEF q
  <2> QED BY <1>4, <2>1, <2>2, <2>3, <2>4, <2>5
<1> QED BY <1>5, <1>6

LEMMA WindowStep == WindowInv /\ [Next]_vars => WindowInv'
<1> SUFFICES ASSUME WindowInv, [Next]_vars PROVE WindowInv'
  OBVIOUS
<1>1. StampsMove
  BY StepMovesStamps
<1>2. CASE UNCHANGED <<stamps, sent>>
  BY <1>2 DEF WindowInv, Recent, Expired, Falling
<1> QED BY <1>1, <1>2, LimiterKeepsWindow, TickKeepsWindow DEF StampsMove

LEMMA WindowInit == Init => WindowInv
<1> SUFFICES ASSUME Init PROVE WindowInv
  OBVIOUS
<1>1. stamps = <<>> /\ sent = <<>>
  BY DEF Init, GateInit
<1>2. <<>> \in Seq(0..Window) /\ <<>> \in Seq(Nat) /\ Len(<<>>) = 0 /\ DOMAIN <<>> = {}
  BY EmptySeq
<1>3. Falling(<<>>) /\ \A i \in DOMAIN <<>> : <<>>[i] < Window
  BY <1>2 DEF Falling
<1>4. Recent(<<>>) = <<>>
  BY <1>2, <1>3, AllRecent
<1> QED BY <1>1, <1>2, <1>3, <1>4, GateConstants DEF WindowInv

\* In any window at most Limit requests go out (_SlidingWindowLimiter.acquire),
\* however many tasks ask, retry, sleep and are cancelled.
THEOREM WindowIsRespected == Spec => []WindowRespected
<1>1. Spec => []WindowInv
  BY WindowInit, WindowStep, PTL DEF Spec
<1>2. WindowInv => WindowRespected
  <2> SUFFICES ASSUME WindowInv PROVE WindowRespected
    OBVIOUS
  <2>1. stamps \in Seq(0..Window) /\ 0..Window \subseteq Nat /\ Len(stamps) <= Limit
    BY GateConstants DEF WindowInv
  <2>2. stamps \in Seq(Nat) /\ Len(stamps) \in Nat
    BY <2>1, SeqMonotonic, LenProperties
  <2>3. Recent(stamps) \in Seq(Nat) /\ Len(Recent(stamps)) <= Len(stamps)
    BY <2>2, RecentOnce DEF WindowInv
  <2>4. Len(Recent(stamps)) \in Nat
    BY <2>3, LenProperties
  <2> QED BY <2>1, <2>2, <2>3, <2>4, GateConstants DEF WindowInv, WindowRespected
<1> QED BY <1>1, <1>2, PTL

-----------------------------------------------------------------------------
(* The line *)

\* A step that leaves the limiter alone, and asks and answers nothing.
LEMMA LineLeftAlone ==
  ASSUME LineInv, UNCHANGED <<holder, queue, sleep, call>>,
         \A t \in Tasks : look'[t].pc = "asking" <=> look[t].pc = "asking"
  PROVE  LineInv'
BY DEF LineInv, InLine, Once, Waits

LEMMA JoinLine ==
  ASSUME LineInv, look \in [Tasks -> LookRecord], NEW t \in Tasks, NEW n \in 0..MaxAttempts,
         call[t].pc # "limiter", look'[t].pc = "asking",
         \A u \in Tasks \ {t} : look'[u].pc = look[u].pc,
         Wait(t, n), queue' = Append(queue, t), UNCHANGED <<holder, sleep>>
  PROVE  LineInv'
<1>1. queue \in Seq(Tasks) /\ Once(queue) /\ t # holder /\ ~ Waits(queue, t)
  BY DEF LineInv, InLine
<1>2. /\ queue' \in Seq(Tasks) /\ Once(queue')
      /\ \A u : Waits(queue', u) <=> u = t \/ Waits(queue, u)
  BY <1>1, AppendWaits
<1>3. call' \in [Tasks -> CallRecord] /\ call'[t].pc = "limiter" /\ \A u \in Tasks \ {t} : call'[u] = call[u]
  BY DEF Wait, LineInv, CallRecord
<1>4. /\ ~ Waits(queue', holder)
      /\ \A u \in Tasks : call'[u].pc = "limiter" <=> u = holder \/ Waits(queue', u)
  BY <1>1, <1>2, <1>3 DEF LineInv, InLine
<1>5. \A u \in Tasks : call'[u].pc = "idle" <=> look'[u].pc # "asking"
  BY <1>3 DEF LineInv, InLine
<1> QED BY <1>2, <1>3, <1>4, <1>5 DEF LineInv, InLine

LEMMA LimiterKeepsLine ==
  ASSUME LineInv, WindowInv, look \in [Tasks -> LookRecord], NEW t \in Tasks, LimiterStep(t)
  PROVE  LineInv'
<1> USE GateConstants
<1>1. look' = look
  BY DEF LimiterStep
<1>2. CASE EnterLimiter(t)
  <2>1. queue \in Seq(Tasks) /\ queue # <<>> /\ Once(queue) /\ t = Head(queue)
    BY <1>2 DEF EnterLimiter, LineInv, InLine
  <2>2. /\ Tail(queue) \in Seq(Tasks) /\ Once(Tail(queue))
        /\ \A u : Waits(Tail(queue), u) <=> u # t /\ Waits(queue, u)
    BY <2>1, TailWaits
  <2>3. Waits(queue, t)
    <3>1. 1 \in DOMAIN queue /\ queue[1] = t
      BY <2>1, LenProperties, EmptySeq
    <3> QED BY <3>1 DEF Waits
  <2>4. holder = NoTask /\ holder' = t /\ queue' = Tail(queue) /\ UNCHANGED <<sleep, call>>
    BY <1>2 DEF EnterLimiter
  <2>5. \A u \in Tasks : call[u].pc = "limiter" <=> Waits(queue, u)
    BY <2>4 DEF LineInv, InLine
  <2>6. \A u \in Tasks : call'[u].pc = "limiter" <=> u = holder' \/ Waits(queue', u)
    BY <2>2, <2>3, <2>4, <2>5, Zenon
  <2>7. ~ Waits(queue', holder') /\ Once(queue') /\ queue' \in Seq(Tasks)
    BY <2>2, <2>4
  <2> QED BY <1>1, <2>4, <2>6, <2>7 DEF LineInv, InLine
<1>3. CASE Acquire(t)
  <2>1. holder = t /\ sleep = 0 /\ holder' = NoTask /\ UNCHANGED <<queue, sleep>>
    BY <1>3 DEF Acquire
  <2>2. call' = [call EXCEPT ![t].pc = "sent"]
    BY <1>3 DEF Acquire
  <2>3. call' \in [Tasks -> CallRecord] /\ call'[t].pc = "sent" /\ \A u \in Tasks \ {t} : call'[u] = call[u]
    BY <2>2 DEF LineInv, CallRecord
  <2>4. ~ Waits(queue, NoTask)
    BY ElementOfSeq, LenProperties DEF LineInv, Waits
  <2>5. \A u \in Tasks : call'[u].pc = "limiter" <=> Waits(queue, u)
    BY <2>1, <2>3 DEF LineInv, InLine
  <2>6. \A u \in Tasks : call'[u].pc = "idle" <=> call[u].pc = "idle"
    BY <2>1, <2>3 DEF LineInv, InLine
  <2>7. Once(queue') /\ queue' \in Seq(Tasks) /\ ~ Waits(queue', holder')
    BY <2>1, <2>4 DEF LineInv, InLine
  <2>8. \A u \in Tasks : call'[u].pc = "limiter" <=> u = holder' \/ Waits(queue', u)
    BY <2>1, <2>5
  <2>9. \A u \in Tasks : call'[u].pc = "idle" <=> look'[u].pc # "asking"
    BY <1>1, <2>6 DEF LineInv, InLine
  <2> QED BY <2>1, <2>3, <2>7, <2>8, <2>9 DEF LineInv, InLine
<1>4. CASE Throttle(t)
  <2>1. holder = t /\ UNCHANGED <<holder, queue, call>> /\ sleep' = Window - Kept[1] /\ Len(Kept) >= Limit
    BY <1>4 DEF Throttle
  <2>2. stamps \in Seq(Nat) /\ Falling(stamps)
    <3>1. stamps \in Seq(0..Window) /\ 0..Window \subseteq Nat
      BY DEF WindowInv
    <3> QED BY <3>1, SeqMonotonic DEF WindowInv
  <2>3. Kept \in Seq(Nat) /\ \A i \in DOMAIN Kept : Kept[i] < Window
    BY <2>2, RecentOnce DEF Kept
  <2>4. 1 \in 1..Len(Kept) /\ DOMAIN Kept = 1..Len(Kept)
    BY <2>1, <2>3, LenProperties
  <2>5. Kept[1] \in Nat /\ Kept[1] < Window
    BY <2>3, <2>4, ElementOfSeq
  <2>6. sleep' \in 0..Window
    BY <2>1, <2>5
  <2> QED BY <1>1, <2>1, <2>6 DEF LineInv, InLine, Once, Waits
<1>5. CASE Backoff(t)
  <2>1. call' = [call EXCEPT ![t].pc = "backoff"] /\ call[t].pc = "sent" /\ UNCHANGED <<holder, queue, sleep>>
    BY <1>5 DEF Backoff
  <2>2. /\ call' \in [Tasks -> CallRecord] /\ call'[t].pc = "backoff"
        /\ \A u \in Tasks \ {t} : call'[u] = call[u]
    BY <2>1 DEF LineInv, CallRecord
  <2>3. \A u \in Tasks : /\ call'[u].pc = "limiter" <=> call[u].pc = "limiter"
                         /\ call'[u].pc = "idle" <=> call[u].pc = "idle"
    BY <2>1, <2>2
  <2> QED BY <1>1, <2>1, <2>2, <2>3 DEF LineInv, InLine, Once, Waits
<1>6. CASE Again(t)
  <2>1. /\ call[t].pc = "backoff" /\ call[t].attempt < MaxAttempts /\ Wait(t, call[t].attempt + 1)
        /\ queue' = Append(queue, t) /\ UNCHANGED <<holder, sleep>>
    BY <1>6 DEF Again
  <2>2. call[t].attempt + 1 \in 0..MaxAttempts
    BY <2>1 DEF LineInv, CallRecord
  <2>3. look[t].pc = "asking"
    BY <2>1 DEF LineInv, InLine
  <2> QED BY <1>1, <2>1, <2>2, <2>3, JoinLine
<1> QED BY <1>2, <1>3, <1>4, <1>5, <1>6 DEF LimiterStep

LEMMA CancelKeepsLine ==
  ASSUME LineInv, look \in [Tasks -> LookRecord], NEW t \in Tasks, CancelLookup(t)
  PROVE  LineInv'
<1> USE GateConstants
<1>1. /\ call' = [call EXCEPT ![t] = NoCall] /\ look' = [look EXCEPT ![t] = NoLook]
      /\ queue' = Without(t) /\ holder' = (IF holder = t THEN NoTask ELSE holder)
      /\ sleep' = (IF holder = t THEN 0 ELSE sleep)
  BY DEF CancelLookup, CancelCall, Abandon
<1>2. /\ queue' \in Seq(Tasks) /\ Once(queue')
      /\ \A u : Waits(queue', u) <=> u # t /\ Waits(queue, u)
  BY <1>1, WithoutWaits DEF LineInv, InLine
<1>3. ~ Waits(queue, NoTask)
  BY ElementOfSeq, LenProperties DEF LineInv, Waits
<1>4. ~ Waits(queue', holder') /\ holder' # t /\ holder' \in Tasks \cup {NoTask}
  BY <1>1, <1>2, <1>3 DEF LineInv, InLine
<1>5. /\ call' \in [Tasks -> CallRecord] /\ call'[t].pc = "idle" /\ look'[t].pc = "idle"
      /\ \A u \in Tasks \ {t} : call'[u] = call[u] /\ look'[u] = look[u]
  BY <1>1 DEF LineInv, CallRecord, NoCall, NoLook
<1>6. \A u \in Tasks : call'[u].pc = "limiter" <=> u = holder' \/ Waits(queue', u)
  <2> SUFFICES ASSUME NEW u \in Tasks PROVE call'[u].pc = "limiter" <=> u = holder' \/ Waits(queue', u)
    OBVIOUS
  <2>1. CASE u = t
    BY <1>2, <1>4, <1>5, <2>1
  <2>2. CASE u # t
    <3>1. call[u].pc = "limiter" <=> u = holder \/ Waits(queue, u)
      BY DEF LineInv, InLine
    <3> QED BY <1>1, <1>2, <1>5, <2>2, <3>1
  <2> QED BY <2>1, <2>2
<1>7. \A u \in Tasks : call'[u].pc = "idle" <=> look'[u].pc # "asking"
  BY <1>5 DEF LineInv, InLine
<1>8. sleep' \in 0..Window /\ (holder' = NoTask => sleep' = 0)
  BY <1>1 DEF LineInv, InLine
<1> QED BY <1>2, <1>4, <1>5, <1>6, <1>7, <1>8 DEF LineInv, InLine

LEMMA LineStep == LineInv /\ WindowInv /\ StoreInv /\ [Next]_vars => LineInv'
<1> SUFFICES ASSUME LineInv, WindowInv, StoreInv, [Next]_vars PROVE LineInv'
  OBVIOUS
<1> USE GateConstants
<1>1. look \in [Tasks -> LookRecord]
  BY DEF StoreInv
<1>2. CASE UNCHANGED vars
  BY <1>2, LineLeftAlone DEF vars, gateVars
<1>3. ASSUME NEW t \in Tasks, NEW k \in Keys, Hit(t, k) PROVE LineInv'
  <2>1. UNCHANGED gateVars /\ \A u \in Tasks : look'[u].pc = "asking" <=> look[u].pc = "asking"
    BY <1>1, <1>3 DEF Hit, At, NoLook, LookRecord
  <2> QED BY <2>1, LineLeftAlone DEF gateVars
<1>4. ASSUME NEW t \in Tasks, NEW k \in Keys, Miss(t, k) PROVE LineInv'
  <2>1. /\ look[t].pc = "idle" /\ look'[t].pc = "asking"
        /\ \A u \in Tasks \ {t} : look'[u].pc = look[u].pc
    BY <1>1, <1>4 DEF Miss, At, NoLook, LookRecord
  <2>2. call[t].pc = "idle" /\ 1 \in 0..MaxAttempts
    BY <2>1 DEF LineInv, InLine
  <2> QED BY <1>1, <1>4, <2>1, <2>2, JoinLine DEF Miss, GetJson
<1>5. ASSUME NEW t \in Tasks, LimiterStep(t) PROVE LineInv'
  BY <1>1, <1>5, LimiterKeepsLine
<1>6. ASSUME NEW t \in Tasks, Answered(t) PROVE LineInv'
  <2>1. /\ call' = [call EXCEPT ![t] = NoCall] /\ call[t].pc # "limiter" /\ UNCHANGED <<holder, queue, sleep>>
    BY <1>6 DEF Answered, Returns
  <2>2. look'[t].pc = "answered" /\ \A u \in Tasks \ {t} : look'[u].pc = look[u].pc
    BY <1>1, <1>6 DEF Answered, LookRecord
  <2>3. /\ call' \in [Tasks -> CallRecord] /\ call'[t].pc = "idle"
        /\ \A u \in Tasks \ {t} : call'[u] = call[u]
    BY <2>1 DEF LineInv, CallRecord, NoCall
  <2>4. \A u \in Tasks : /\ call'[u].pc = "limiter" <=> call[u].pc = "limiter"
                         /\ call'[u].pc = "idle" <=> look'[u].pc # "asking"
    BY <2>1, <2>2, <2>3 DEF LineInv, InLine
  <2> QED BY <2>1, <2>3, <2>4 DEF LineInv, InLine, Once, Waits
<1>7. ASSUME NEW t \in Tasks, StoreStep(t) PROVE LineInv'
  <2>1. UNCHANGED gateVars /\ \A u \in Tasks : look'[u].pc = "asking" <=> look[u].pc = "asking"
    BY <1>1, <1>7 DEF StoreStep, StoreRefused, StoreRead, StoreCommit, Served, At, NoLook, LookRecord
  <2> QED BY <2>1, LineLeftAlone DEF gateVars
<1>8. ASSUME NEW t \in Tasks, CancelLookup(t) PROVE LineInv'
  BY <1>1, <1>8, CancelKeepsLine
<1>9. CASE Sweep \/ ClearRead \/ ClearCommit
  BY <1>9, LineLeftAlone DEF Sweep, ClearRead, ClearCommit, gateVars
<1>10. CASE Tick
  <2>1. /\ UNCHANGED <<holder, queue, call>> /\ sleep' = (IF sleep > 0 THEN sleep - 1 ELSE 0)
        /\ \A u \in Tasks : look'[u].pc = look[u].pc
    BY <1>1, <1>10 DEF Tick, GateTick, At, LookRecord
  <2>2. sleep' \in 0..Window /\ (holder = NoTask => sleep' = 0)
    BY <2>1 DEF LineInv, InLine
  <2> QED BY <2>1, <2>2 DEF LineInv, InLine, Once, Waits
<1> QED BY <1>2, <1>3, <1>4, <1>5, <1>6, <1>7, <1>8, <1>9, <1>10 DEF Next

-----------------------------------------------------------------------------
(* The rows *)

LEMMA TtlNumbers ==
  /\ DefaultTtl \in Nat
  /\ \A st : Ttl(st) \in Nat /\ 0 < Ttl(st) /\ Ttl(st) <= DefaultTtl
BY CacheAssumption DEF Ttl

LEMMA NoRowGenuine == NoRow \in CacheRow /\ RowGenuine(NoRow)
BY TtlNumbers DEF NoRow, CacheRow, RowGenuine

LEMMA NoLookGenuine == NoLook \in LookRecord /\ LookGenuine(NoLook)
BY TtlNumbers DEF NoLook, LookRecord, LookGenuine

\* The lookup of one task changes.
LEMMA OneLook ==
  ASSUME StoreInv, NEW t \in Tasks, NEW l \in LookRecord, LookGenuine(l),
         look' = [look EXCEPT ![t] = l], UNCHANGED <<rows, doomed>>
  PROVE  StoreInv'
<1>1. look' \in [Tasks -> LookRecord] /\ \A u \in Tasks : look'[u] = IF u = t THEN l ELSE look[u]
  BY DEF StoreInv
<1>2. \A u \in Tasks : LookGenuine(look'[u])
  BY <1>1 DEF StoreInv
<1> QED BY <1>1, <1>2 DEF StoreInv

\* The rows change, and stay genuine.
LEMMA NewRows ==
  ASSUME StoreInv, rows' \in [Keys -> CacheRow], \A k \in Keys : RowGenuine(rows'[k]),
         look' \in [Tasks -> LookRecord], \A t \in Tasks : LookGenuine(look'[t]), doomed' \subseteq Keys
  PROVE  StoreInv'
BY DEF StoreInv

\* What store writes is genuine, and fresh for no longer than its status
\* allows since the answer was read.
LEMMA StoredIsGenuine ==
  ASSUME StoreInv, NEW t \in Tasks, At(t, "storing")
  PROVE  Stored(t) \in CacheRow /\ RowGenuine(Stored(t))
<1> DEFINE a == look[t].age
           st == look[t].status
           d == IF a < Ttl(st) THEN Ttl(st) - a ELSE 0
<1>1. a \in 0..DefaultTtl /\ Genuine(st)
  BY DEF StoreInv, LookRecord, LookGenuine, At
<1>2. Stored(t) = [status |-> st, age |-> a, left |-> d]
  BY DEF Stored
<1>3. st \in Statuses
  BY <1>1 DEF Genuine, Statuses
<1>4. Ttl(st) \in Nat /\ 0 < Ttl(st) /\ Ttl(st) <= DefaultTtl /\ DefaultTtl \in Nat
  BY TtlNumbers
<1> HIDE DEF a, st
<1>5. d \in 0..DefaultTtl /\ (d > 0 => d + a <= Ttl(st))
  BY <1>1, <1>4
<1> HIDE DEF d
<1> QED BY <1>1, <1>2, <1>3, <1>5 DEF CacheRow, RowGenuine

LEMMA AgedIsGenuine ==
  ASSUME NEW r \in CacheRow, RowGenuine(r), r # NoRow,
         NEW q, q = [r EXCEPT !.left = IF @ > 0 THEN @ - 1 ELSE 0, !.age = Older(@)]
  PROVE  q \in CacheRow /\ RowGenuine(q)
<1>1. /\ q.status = r.status /\ q.left = (IF r.left > 0 THEN r.left - 1 ELSE 0) /\ q.age = Older(r.age)
      /\ q = [status |-> q.status, left |-> q.left, age |-> q.age]
  BY DEF CacheRow
<1>2. /\ r.status \in Statuses \cup {"none"} /\ r.left \in 0..DefaultTtl /\ r.age \in 0..DefaultTtl
      /\ Genuine(r.status) /\ (r.left > 0 => r.left + r.age <= Ttl(r.status))
  BY DEF CacheRow, RowGenuine
<1>3. DefaultTtl \in Nat /\ Ttl(r.status) \in Nat /\ Ttl(r.status) <= DefaultTtl
  BY TtlNumbers
<1>4. q.left \in 0..DefaultTtl /\ q.age \in 0..DefaultTtl /\ q.age <= r.age + 1
  BY <1>1, <1>2, <1>3 DEF Older
<1>5. q.left > 0 => q.left + q.age <= Ttl(r.status)
  BY <1>1, <1>2, <1>3, <1>4
<1>6. q \in CacheRow
  BY <1>1, <1>2, <1>4 DEF CacheRow
<1> QED BY <1>1, <1>2, <1>5, <1>6 DEF RowGenuine

LEMMA StoreInvStep == StoreInv /\ [Next]_vars => StoreInv'
<1> SUFFICES ASSUME StoreInv, [Next]_vars PROVE StoreInv'
  OBVIOUS
<1>1. /\ rows \in [Keys -> CacheRow] /\ look \in [Tasks -> LookRecord] /\ doomed \subseteq Keys
      /\ \A k \in Keys : RowGenuine(rows[k])
      /\ \A t \in Tasks : LookGenuine(look[t])
  BY DEF StoreInv
<1>2. CASE UNCHANGED <<rows, look, doomed>>
  BY <1>2 DEF StoreInv
<1>3. ASSUME NEW t \in Tasks, NEW k \in Keys, Hit(t, k) PROVE StoreInv'
  <2> DEFINE l == [NoLook EXCEPT !.pc = "served", !.status = rows[k].status, !.age = rows[k].age]
  <2>1. rows[k] \in CacheRow
    BY <1>1
  <2>2. l \in LookRecord /\ LookGenuine(l)
    BY <2>1 DEF CacheRow, LookRecord, LookGenuine, NoLook
  <2> QED BY <1>3, <2>2, OneLook DEF Hit
<1>4. ASSUME NEW t \in Tasks, NEW k \in Keys, Miss(t, k) PROVE StoreInv'
  <2> DEFINE l == [NoLook EXCEPT !.pc = "asking", !.key = k]
  <2>1. NoLook \in LookRecord /\ NoLook.age = 0
    BY NoLookGenuine DEF NoLook
  <2>2. l \in LookRecord /\ l.pc = "asking" /\ l.key = k /\ l.age = 0
    BY <2>1 DEF LookRecord
  <2>3. LookGenuine(l)
    BY <2>2 DEF LookGenuine
  <2> QED BY <1>4, <2>2, <2>3, OneLook DEF Miss
<1>5. ASSUME NEW t \in Tasks, LimiterStep(t) PROVE StoreInv'
  BY <1>2, <1>5 DEF LimiterStep
<1>6. ASSUME NEW t \in Tasks, Answered(t) PROVE StoreInv'
  <2>1. PICK st \in Statuses : look' = [look EXCEPT ![t].pc = "answered", ![t].status = st]
    BY <1>6 DEF Answered, Statuses
  <2> DEFINE l == [look[t] EXCEPT !.pc = "answered", !.status = st]
  <2>2. look[t] \in LookRecord /\ LookGenuine(look[t]) /\ look[t].pc = "asking"
    BY <1>1, <1>6 DEF Answered, At
  <2>3. l \in LookRecord /\ LookGenuine(l)
    BY <2>2 DEF LookRecord, LookGenuine
  <2>4. look' = [look EXCEPT ![t] = l]
    BY <1>1, <2>1
  <2> QED BY <1>6, <2>3, <2>4, OneLook DEF Answered
<1>7. ASSUME NEW t \in Tasks, StoreRefused(t) \/ Served(t) PROVE StoreInv'
  BY <1>7, NoLookGenuine, OneLook DEF StoreRefused, Served
<1>8. ASSUME NEW t \in Tasks, StoreRead(t) PROVE StoreInv'
  <2> DEFINE l == [look[t] EXCEPT !.pc = "storing", !.found = Present(look[t].key)]
  <2>1. look[t] \in LookRecord /\ LookGenuine(look[t]) /\ look[t].pc = "answered"
    BY <1>1, <1>8 DEF StoreRead, At
  <2>2. Genuine(look[t].status)
    BY <1>8, <2>1 DEF StoreRead, Cacheable, NonCacheable, LookGenuine, Statuses, Genuine
  <2>3. Present(look[t].key) \in BOOLEAN
    BY DEF Present
  <2>4. l \in LookRecord /\ LookGenuine(l)
    BY <2>1, <2>2, <2>3 DEF LookRecord, LookGenuine
  <2>5. look' = [look EXCEPT ![t] = l]
    BY <1>1, <1>8 DEF StoreRead
  <2> QED BY <1>8, <2>4, <2>5, OneLook DEF StoreRead
<1>9. ASSUME NEW t \in Tasks, StoreCommit(t) PROVE StoreInv'
  <2>1. Stored(t) \in CacheRow /\ RowGenuine(Stored(t))
    BY <1>9, StoredIsGenuine DEF StoreCommit
  <2>2. rows' = rows \/ rows' = [rows EXCEPT ![look[t].key] = Stored(t)]
    BY <1>9 DEF StoreCommit
  <2>3. rows' \in [Keys -> CacheRow] /\ \A k \in Keys : RowGenuine(rows'[k])
    BY <1>1, <2>1, <2>2
  <2>4. look' \in [Tasks -> LookRecord] /\ \A u \in Tasks : LookGenuine(look'[u])
    BY <1>1, <1>9, NoLookGenuine DEF StoreCommit
  <2> QED BY <1>1, <1>9, <2>3, <2>4, NewRows DEF StoreCommit
<1>10. ASSUME NEW t \in Tasks, CancelLookup(t) PROVE StoreInv'
  BY <1>10, NoLookGenuine, OneLook DEF CancelLookup
<1>11. CASE Sweep
  <2>1. rows' \in [Keys -> CacheRow] /\ \A k \in Keys : RowGenuine(rows'[k])
    BY <1>1, <1>11, NoRowGenuine DEF Sweep
  <2> QED BY <1>1, <1>11, <2>1, NewRows DEF Sweep
<1>12. CASE ClearRead
  BY <1>1, <1>12, NewRows DEF ClearRead
<1>13. CASE ClearCommit
  <2>1. rows' \in [Keys -> CacheRow] /\ \A k \in Keys : RowGenuine(rows'[k])
    BY <1>1, <1>13, NoRowGenuine DEF ClearCommit
  <2> QED BY <1>1, <1>13, <2>1, NewRows DEF ClearCommit
<1>14. CASE Tick
  <2>1. ASSUME NEW k \in Keys PROVE rows'[k] \in CacheRow /\ RowGenuine(rows'[k])
    <3>1. CASE Present(k)
      <4>1. rows'[k] = [rows[k] EXCEPT !.left = IF @ > 0 THEN @ - 1 ELSE 0, !.age = Older(@)]
        BY <1>14, <3>1 DEF Tick
      <4>2. rows[k] \in CacheRow /\ RowGenuine(rows[k]) /\ rows[k] # NoRow
        BY <1>1, <3>1 DEF Present
      <4> QED BY <4>1, <4>2, AgedIsGenuine
    <3>2. CASE ~ Present(k)
      BY <1>14, <3>2, NoRowGenuine DEF Tick
    <3> QED BY <3>1, <3>2
  <2>2. rows' \in [Keys -> CacheRow]
    <3>1. rows' = [k \in Keys |-> rows'[k]]
      BY <1>14 DEF Tick
    <3> QED BY <2>1, <3>1
  <2>3. ASSUME NEW t \in Tasks PROVE look'[t] \in LookRecord /\ LookGenuine(look'[t])
    <3>1. CASE At(t, "storing")
      <4>1. look'[t] = [look[t] EXCEPT !.age = Older(@)]
        BY <1>14, <3>1 DEF Tick
      <4>2. look[t] \in LookRecord /\ LookGenuine(look[t]) /\ look[t].pc = "storing"
        BY <1>1, <3>1 DEF At
      <4>3. Older(look[t].age) \in 0..DefaultTtl
        BY <4>2, TtlNumbers DEF LookRecord, Older
      <4> QED BY <4>1, <4>2, <4>3 DEF LookRecord, LookGenuine
    <3>2. CASE ~ At(t, "storing")
      BY <1>1, <1>14, <3>2 DEF Tick
    <3> QED BY <3>1, <3>2
  <2>4. look' \in [Tasks -> LookRecord]
    <3>1. look' = [t \in Tasks |-> look'[t]]
      BY <1>14 DEF Tick
    <3> QED BY <2>3, <3>1
  <2> QED BY <1>1, <1>14, <2>1, <2>2, <2>3, <2>4, NewRows DEF Tick
<1> QED BY <1>2, <1>3, <1>4, <1>5, <1>6, <1>7, <1>8, <1>9, <1>10, <1>11, <1>12, <1>13, <1>14
        DEF Next, StoreStep, vars

-----------------------------------------------------------------------------
(* What holds of every behaviour *)

LEMMA LineInit == Init => LineInv
<1> SUFFICES ASSUME Init PROVE LineInv
  OBVIOUS
<1> USE GateConstants
<1>1. queue \in Seq(Tasks) /\ DOMAIN queue = {}
  BY EmptySeq DEF Init, GateInit
<1> QED BY <1>1 DEF Init, GateInit, NoCall, NoLook, CallRecord, LineInv, InLine, Once, Waits

LEMMA StoreInit == Init => StoreInv
BY NoRowGenuine, NoLookGenuine DEF Init, StoreInv

\* The inductive invariant of the gateway and the cache.
THEOREM CacheInvHolds == Spec => [](WindowInv /\ LineInv /\ StoreInv)
<1>1. Init => WindowInv /\ LineInv /\ StoreInv
  BY WindowInit, LineInit, StoreInit
<1>2. WindowInv /\ LineInv /\ StoreInv /\ [Next]_vars => (WindowInv /\ LineInv /\ StoreInv)'
  BY WindowStep, LineStep, StoreInvStep
<1> QED BY <1>1, <1>2, PTL DEF Spec

\* Type correctness of the gateway and the cache.
THEOREM CacheTypeCorrect == Spec => []TypeOK
<1>1. WindowInv /\ LineInv /\ StoreInv => TypeOK
  <2> SUFFICES ASSUME WindowInv, LineInv, StoreInv PROVE TypeOK
    OBVIOUS
  <2>1. stamps \in Seq(0..Window) /\ 0..Window \subseteq Nat /\ Window \in Nat
    BY GateConstants DEF WindowInv
  <2>2. stamps \in Seq(Nat)
    BY <2>1, SeqMonotonic
  <2>3. sent \in Seq(Nat) /\ \A i \in DOMAIN sent : sent[i] < Window
    BY <2>2, RecentOnce DEF WindowInv
  <2>4. Len(sent) \in Nat /\ DOMAIN sent = 1..Len(sent) /\ sent \in [1..Len(sent) -> Nat]
    BY <2>3, LenProperties
  <2>5. sent \in [1..Len(sent) -> 0..Window]
    BY <2>1, <2>3, <2>4
  <2>6. sent \in Seq(0..Window)
    BY <2>4, <2>5, FunctionIsSeq
  <2> QED BY <2>1, <2>6 DEF LineInv, StoreInv, TypeOK
<1> QED BY <1>1, CacheInvHolds, PTL

\* A task that waits for the limiter is in line, and the lock is held only by
\* a task that waits: no cancellation leaves it behind (_SlidingWindowLimiter).
THEOREM WaitersAreInLine == Spec => []InLine
<1>1. LineInv => InLine
  BY DEF LineInv
<1> QED BY <1>1, CacheInvHolds, PTL

\* What the cache takes for fresh was a readable success, no older than its
\* status allows (store, get), however stores, sweeps and clears of one key
\* fall together.
THEOREM CacheIsGenuine == Spec => []CachedIsGenuine
<1>1. StoreInv => CachedIsGenuine
  <2> SUFFICES ASSUME StoreInv, NEW k \in Keys, Fresh(rows[k])
               PROVE  rows[k].status \in {"ok", "empty"} /\ rows[k].age < Ttl(rows[k].status)
    BY DEF CachedIsGenuine
  <2>1. rows[k] # NoRow /\ rows[k].left > 0 /\ rows[k] \in CacheRow /\ RowGenuine(rows[k])
    BY DEF StoreInv, Fresh
  <2>2. Genuine(rows[k].status) /\ rows[k].left + rows[k].age <= Ttl(rows[k].status)
    BY <2>1 DEF RowGenuine
  <2>3. rows[k].left \in Nat /\ rows[k].age \in Nat /\ Ttl(rows[k].status) \in Nat
    BY <2>1, TtlNumbers DEF CacheRow
  <2> QED BY <2>1, <2>2, <2>3 DEF Genuine
<1> QED BY <1>1, CacheInvHolds, PTL
=============================================================================
