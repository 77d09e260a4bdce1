-------------------------- MODULE EventStreamProofs --------------------------
(***************************************************************************)
(* What the progress events of a scan guarantee, for any publishers,       *)
(* clients and number of events, and wherever tasks are cancelled and      *)
(* connections are lost.                                                   *)
(***************************************************************************)
EXTENDS EventStream, FiniteSetTheorems, TLAPS

-----------------------------------------------------------------------------
(* The inductive invariant                                                  *)

\* A number that was drawn is the next one, or was taken meanwhile.
NumbersInOrder ==
  \E n \in 0..MaxEvents :
    /\ stored = 1..n
    /\ \A p \in Publishers :
         /\ pub[p].pc = "drawn" => pub[p].seq \in 1..(n + 1)
         /\ pub[p].pc = "stored" => pub[p].seq \in 1..n

\* What a client has, or is on its way to it, is durable.
SentIsStored ==
  \A c \in Clients :
    /\ got[c] \cup Range(queue[c]) \cup Range(replay[c]) \subseteq stored
    /\ lastId[c] \in stored \cup {0}

Pending == {k \in stored : \E q \in Publishers : pub[q] = [pc |-> "stored", seq |-> k]}
Seen(c) == got[c] \cup silent
UpTo(q, i) == {q[j] : j \in 1..i}

\* An open stream will bring its client every event that is not waiting for
\* its broadcast, and brings no event before the ones it builds on.
StreamIsComplete(c) ==
  /\ stored \subseteq Seen(c) \cup Range(replay[c]) \cup Range(queue[c]) \cup Pending
  /\ \A i \in DOMAIN replay[c] : 1..replay[c][i] \subseteq Seen(c) \cup UpTo(replay[c], i)
  /\ \A i \in DOMAIN queue[c] :
       1..queue[c][i] \subseteq Seen(c) \cup Range(replay[c]) \cup UpTo(queue[c], i)

StreamsAreComplete ==
  \A c \in Clients :
    /\ conn[c] = "subscribed" => after[c] = lastId[c]
    /\ conn[c] = "streaming" => StreamIsComplete(c)

StreamInv ==
  TypeOK /\ NumbersInOrder /\ SentIsStored /\ StreamsAreComplete /\ ResumePointIsComplete

-----------------------------------------------------------------------------
(* The table, its highest number and its rows in order *)

LEMMA HighestIs ==
  ASSUME NEW n \in Nat, stored = 1..n
  PROVE  Highest = n
<1>1. CASE n = 0
  BY <1>1 DEF Highest
<1>2. CASE n # 0
  <2>1. n \in stored /\ \A k \in stored : k <= n
    BY <1>2
  <2>2. PICK h \in stored : h = Highest /\ \A k \in stored : k <= h
    BY <2>1 DEF Highest
  <2> QED BY <2>1, <2>2
<1> QED BY <1>1, <1>2

\* What an ordered list of the numbers above a has: all of them, each after
\* the smaller ones.
InOrder(q, S) ==
  /\ q \in Seq(S)
  /\ \A i, j \in DOMAIN q : i < j => q[i] < q[j]
  /\ \A x \in S : \E i \in DOMAIN q : q[i] = x

LEMMA OrderedIs ==
  ASSUME NEW a \in Nat, NEW b \in Nat, a <= b
  PROVE  InOrder(Ordered((a + 1)..b), (a + 1)..b)
<1>0. PICK S : S = (a + 1)..b
  OBVIOUS
<1> DEFINE m == b - a
<1>1. IsFiniteSet(S) /\ Cardinality(S) = m /\ m \in Nat
  <2>1. IsFiniteSet((a + 1)..b) /\ Cardinality((a + 1)..b) = IF a + 1 > b THEN 0 ELSE b - (a + 1) + 1
    BY FS_Interval
  <2> QED BY <1>0, <2>1
<1> DEFINE Up(q) == \A i, j \in DOMAIN q : i < j => q[i] < q[j]
           r == [i \in 1..m |-> a + i]
<1>2. r \in [1..m -> S] /\ Up(r)
  BY <1>0
<1>3. PICK q : q = Ordered(S)
  OBVIOUS
<1> HIDE DEF m, r
<1>4. q \in [1..m -> S] /\ Up(q)
  BY <1>1, <1>2, <1>3 DEF Ordered
<1>5. S \subseteq Int
  BY <1>0
<1>6. \A x \in S : \E i \in 1..m : q[i] = x
  <2>1. ASSUME NEW i \in 1..m, NEW j \in 1..m, i # j PROVE q[i] # q[j]
    <3>1. q[i] \in Int /\ q[j] \in Int
      BY <1>4, <1>5
    <3>2. i < j \/ j < i
      BY <1>1, <2>1
    <3>3. q[i] < q[j] \/ q[j] < q[i]
      BY <1>4, <3>2
    <3> QED BY <3>1, <3>3
  <2>2. q \in Injection(1..m, S)
    BY <1>4, <2>1 DEF Injection, IsInjective
  <2>3. IsFiniteSet(1..m) /\ Cardinality(1..m) = m
    BY <1>1, FS_Interval
  <2>4. q \in Surjection(1..m, S)
    BY <1>1, <2>2, <2>3, FS_Injection
  <2> QED BY <2>4 DEF Surjection
<1>7. InOrder(q, S)
  BY <1>1, <1>4, <1>6 DEF InOrder
<1> QED BY <1>0, <1>3, <1>7

-----------------------------------------------------------------------------
(* Queues *)

LEMMA TailIs ==
  ASSUME NEW T, NEW q \in Seq(T), q # <<>>
  PROVE  /\ Head(q) \in T /\ Tail(q) \in Seq(T) /\ 1 \in DOMAIN q /\ q[1] = Head(q)
         /\ Range(q) = {Head(q)} \cup Range(Tail(q))
         /\ UpTo(q, 1) = {Head(q)}
         /\ \A i \in DOMAIN Tail(q) : /\ i + 1 \in DOMAIN q /\ Tail(q)[i] = q[i + 1]
                                      /\ UpTo(q, i + 1) \subseteq {Head(q)} \cup UpTo(Tail(q), i)
<1>1. /\ Head(q) = q[1] /\ Head(q) \in T /\ Tail(q) \in Seq(T) /\ DOMAIN q = 1..Len(q) /\ Len(q) \in Nat \ {0}
      /\ DOMAIN Tail(q) = 1..(Len(q) - 1) /\ \A i \in 1..(Len(q) - 1) : Tail(q)[i] = q[i + 1]
  OBVIOUS
<1>2. \A i \in 2..Len(q) : q[i] = Tail(q)[i - 1] /\ i - 1 \in DOMAIN Tail(q)
  BY <1>1
<1>3. Range(q) = {Head(q)} \cup Range(Tail(q))
  <2>1. ASSUME NEW x \in Range(q) PROVE x \in {Head(q)} \cup Range(Tail(q))
    <3>1. PICK i \in 1..Len(q) : x = q[i]
      BY <1>1, <2>1 DEF Range
    <3>2. i = 1 \/ i \in 2..Len(q)
      BY <1>1
    <3> QED BY <1>1, <1>2, <3>1, <3>2 DEF Range
  <2>2. ASSUME NEW x \in {Head(q)} \cup Range(Tail(q)) PROVE x \in Range(q)
    <3>1. CASE x = Head(q)
      BY <1>1, <3>1 DEF Range
    <3>2. CASE x \in Range(Tail(q))
      <4>1. PICK i \in 1..(Len(q) - 1) : x = Tail(q)[i]
        BY <1>1, <3>2 DEF Range
      <4>2. i + 1 \in DOMAIN q /\ x = q[i + 1]
        BY <1>1, <4>1
      <4> QED BY <4>2 DEF Range
    <3> QED BY <2>2, <3>1, <3>2
  <2> QED BY <2>1, <2>2
<1>4. UpTo(q, 1) = {Head(q)}
  BY <1>1 DEF UpTo
<1>5. ASSUME NEW i \in 1..(Len(q) - 1)
      PROVE  UpTo(q, i + 1) \subseteq {Head(q)} \cup UpTo(Tail(q), i)
  <2> SUFFICES ASSUME NEW j \in 1..(i + 1) PROVE q[j] \in {Head(q)} \cup UpTo(Tail(q), i)
    BY DEF UpTo
  <2>1. CASE j = 1
    BY <1>1, <2>1
  <2>2. CASE j # 1
    <3>1. j - 1 \in 1..i /\ j \in 2..Len(q)
      BY <1>1, <2>2
    <3> QED BY <1>2, <3>1 DEF UpTo
  <2> QED BY <2>1, <2>2
<1> QED BY <1>1, <1>3, <1>4, <1>5

LEMMA AppendIs ==
  ASSUME NEW T, NEW q \in Seq(T), NEW x \in T
  PROVE  /\ Append(q, x) \in Seq(T)
         /\ Range(Append(q, x)) = Range(q) \cup {x}
         /\ DOMAIN Append(q, x) = DOMAIN q \cup {Len(q) + 1}
         /\ \A i \in DOMAIN q : Append(q, x)[i] = q[i] /\ UpTo(q, i) = UpTo(Append(q, x), i)
         /\ Append(q, x)[Len(q) + 1] = x
         /\ UpTo(Append(q, x), Len(q) + 1) = Range(q) \cup {x}
<1>1. PICK r : r = Append(q, x)
  OBVIOUS
<1>2. /\ r \in Seq(T) /\ DOMAIN q = 1..Len(q) /\ Len(q) \in Nat /\ DOMAIN r = 1..(Len(q) + 1)
      /\ r[Len(q) + 1] = x /\ \A i \in 1..Len(q) : r[i] = q[i]
  BY <1>1
<1>3. DOMAIN r = DOMAIN q \cup {Len(q) + 1}
  BY <1>2
<1>4. Range(r) = Range(q) \cup {x}
  BY <1>2, <1>3 DEF Range
<1>5. \A i \in DOMAIN q : UpTo(q, i) = UpTo(r, i)
  BY <1>2 DEF UpTo
<1>6. UpTo(r, Len(q) + 1) = Range(r)
  BY <1>2 DEF UpTo, Range
<1> QED BY <1>1, <1>2, <1>3, <1>4, <1>5, <1>6


-----------------------------------------------------------------------------
(* The publishers *)

\* What the steps of the publishers do to the table and its readers.
LEMMA PublisherKinds ==
  ASSUME [Next]_vars
  PROVE  \/ \E p \in Publishers :
              DrawSequence(p) \/ Insert(p) \/ Broadcast(p) \/ CancelPublisher(p)
         \/ \E c \in Clients : Connect(c) \/ Replay(c) \/ SendReplayed(c) \/ SendLive(c) \/ Drop(c)
         \/ UNCHANGED vars
BY DEF Next, PublishStep, StreamStep

LEMMA DrawIs ==
  ASSUME TypeOK, NEW n \in 0..MaxEvents, stored = 1..n, NEW p \in Publishers, DrawSequence(p)
  PROVE  n < MaxEvents /\ pub' = [pub EXCEPT ![p] = [pc |-> "drawn", seq |-> n + 1]]
<1>1. n \in Nat
  BY EventStreamAssumption
<1>2. Highest = n
  BY <1>1, HighestIs
<1> QED BY <1>2 DEF DrawSequence

LEMMA NumbersStep ==
  ASSUME TypeOK, NumbersInOrder, [Next]_vars
  PROVE  NumbersInOrder'
<1>1. PICK n \in 0..MaxEvents :
        /\ stored = 1..n
        /\ \A p \in Publishers : /\ pub[p].pc = "drawn" => pub[p].seq \in 1..(n + 1)
                                 /\ pub[p].pc = "stored" => pub[p].seq \in 1..n
  BY DEF NumbersInOrder
<1>2. n \in Nat /\ MaxEvents \in Nat
  BY <1>1, EventStreamAssumption
<1> DEFINE Rec == [pc : {"idle", "drawn", "stored", "failed"}, seq : 0..MaxEvents]
<1>3. pub \in [Publishers -> Rec]
  BY DEF TypeOK
<1>4. ASSUME NEW p \in Publishers, DrawSequence(p) PROVE NumbersInOrder'
  <2>1. stored' = 1..n /\ pub' = [pub EXCEPT ![p] = [pc |-> "drawn", seq |-> n + 1]]
    BY <1>1, <1>4, DrawIs DEF DrawSequence
  <2>2. \A q \in Publishers : /\ pub'[q].pc = "drawn" => pub'[q].seq \in 1..(n + 1)
                              /\ pub'[q].pc = "stored" => pub'[q].seq \in 1..n
    BY <1>1, <1>2, <1>3, <2>1
  <2> QED BY <2>1, <2>2 DEF NumbersInOrder
<1>5. ASSUME NEW p \in Publishers, Insert(p), pub[p].seq \notin stored PROVE NumbersInOrder'
  <2>1. /\ pub[p].pc = "drawn" /\ stored' = stored \cup {pub[p].seq}
        /\ pub' = [pub EXCEPT ![p].pc = "stored"]
    BY <1>5 DEF Insert
  <2>2. pub[p].seq = n + 1 /\ n + 1 \in 0..MaxEvents
    BY <1>1, <1>2, <1>3, <1>5, <2>1
  <2>3. stored' = 1..(n + 1)
    BY <1>1, <1>2, <2>1, <2>2
  <2>4. \A q \in Publishers : /\ pub'[q].pc = "drawn" => pub'[q].seq \in 1..((n + 1) + 1)
                              /\ pub'[q].pc = "stored" => pub'[q].seq \in 1..(n + 1)
    BY <1>1, <1>2, <1>3, <2>1, <2>2
  <2> QED BY <2>2, <2>3, <2>4 DEF NumbersInOrder
<1>6. ASSUME stored' = stored,
             \A q \in Publishers : pub'[q] = pub[q] \/ pub'[q].pc \in {"idle", "failed"}
      PROVE  NumbersInOrder'
  BY <1>1, <1>6 DEF NumbersInOrder
<1>7. ASSUME NEW p \in Publishers, Insert(p), pub[p].seq \in stored PROVE NumbersInOrder'
  <2>1. stored' = stored /\ pub' = [pub EXCEPT ![p] = [pc |-> "failed", seq |-> 0]]
    BY <1>7 DEF Insert
  <2> QED BY <1>3, <1>6, <2>1
<1>8. ASSUME NEW p \in Publishers, Broadcast(p) \/ CancelPublisher(p) PROVE NumbersInOrder'
  <2>1. stored' = stored /\ pub' = [pub EXCEPT ![p] = Idle]
    BY <1>8 DEF Broadcast, CancelPublisher
  <2> QED BY <1>3, <1>6, <2>1 DEF Idle
<1>9. ASSUME NEW c \in Clients, Connect(c) \/ Replay(c) \/ SendReplayed(c) \/ SendLive(c) \/ Drop(c)
      PROVE  NumbersInOrder'
  BY <1>6, <1>9 DEF Connect, Replay, SendReplayed, SendLive, Drop, server
<1>10. CASE UNCHANGED vars
  BY <1>6, <1>10 DEF vars, server
<1> QED BY <1>4, <1>5, <1>7, <1>8, <1>9, <1>10, PublisherKinds

LEMMA StoredIs ==
  ASSUME NumbersInOrder
  PROVE  \E n \in Nat : stored = 1..n /\ n <= MaxEvents
BY EventStreamAssumption DEF NumbersInOrder

\* The events that a stream begins with.
LEMMA ReplayIs ==
  ASSUME TypeOK, NumbersInOrder, NEW c \in Clients, after[c] \in stored \cup {0}, Replay(c)
  PROVE  /\ replay' = [replay EXCEPT ![c] = replay'[c]]
         /\ InOrder(replay'[c], EventsSince(after[c]))
<1>1. PICK n \in Nat : stored = 1..n /\ n <= MaxEvents
  BY StoredIs
<1>2. PICK a : a = after[c]
  OBVIOUS
<1>3. a \in Nat /\ a <= n
  BY <1>1, <1>2
<1>4. EventsSince(a) = (a + 1)..n
  BY <1>1, <1>3 DEF EventsSince
<1>5. InOrder(Ordered(EventsSince(a)), EventsSince(a))
  BY <1>1, <1>3, <1>4, OrderedIs
<1>6. replay' = [replay EXCEPT ![c] = Ordered(EventsSince(after[c]))] /\ replay \in [Clients -> Seq(Ids)]
  BY DEF Replay, TypeOK
<1>7. replay'[c] = Ordered(EventsSince(after[c]))
  BY <1>6
<1> QED BY <1>2, <1>5, <1>6, <1>7


-----------------------------------------------------------------------------
(* What a step does to one client *)

\* Nothing of client c changes.
Same(c) ==
  /\ conn'[c] = conn[c] /\ after'[c] = after[c] /\ replay'[c] = replay[c] /\ queue'[c] = queue[c]
  /\ lastId'[c] = lastId[c] /\ got'[c] = got[c]

LEMMA OthersSame ==
  ASSUME TypeOK, NEW c \in Clients,
         Connect(c) \/ Replay(c) \/ SendReplayed(c) \/ SendLive(c) \/ Drop(c)
  PROVE  UNCHANGED server /\ \A d \in Clients : d # c => Same(d)
BY DEF TypeOK, Connect, Replay, SendReplayed, SendLive, Drop, Receive, Same

\* Every client action, spelt out for its client.
LEMMA ConnectIs ==
  ASSUME TypeOK, NEW c \in Clients, Connect(c)
  PROVE  /\ conn'[c] = "subscribed" /\ after'[c] = lastId[c] /\ lastId'[c] = lastId[c]
         /\ got'[c] = got[c] /\ queue'[c] = queue[c] /\ replay'[c] = replay[c]
BY DEF TypeOK, Connect

LEMMA BeginIs ==
  ASSUME TypeOK, NEW c \in Clients, Replay(c)
  PROVE  /\ conn[c] = "subscribed" /\ conn'[c] = "streaming" /\ lastId'[c] = lastId[c]
         /\ got'[c] = got[c] /\ queue'[c] = queue[c]
BY DEF TypeOK, Replay

LEMMA SendReplayedIs ==
  ASSUME TypeOK, NEW c \in Clients, SendReplayed(c)
  PROVE  /\ conn[c] = "streaming" /\ replay[c] # <<>> /\ replay[c] \in Seq(Ids)
         /\ conn'[c] = "streaming" /\ replay'[c] = Tail(replay[c]) /\ queue'[c] = queue[c]
         /\ lastId'[c] = Head(replay[c]) /\ got'[c] = got[c] \cup {Head(replay[c])}
BY DEF TypeOK, SendReplayed, Receive

LEMMA SendLiveIs ==
  ASSUME TypeOK, NEW c \in Clients, SendLive(c)
  PROVE  /\ conn[c] = "streaming" /\ queue[c] # <<>> /\ queue[c] \in Seq(Ids) /\ replay[c] = <<>>
         /\ conn'[c] = "streaming" /\ queue'[c] = Tail(queue[c]) /\ replay'[c] = <<>>
         /\ lastId'[c] = Head(queue[c]) /\ got'[c] = got[c] \cup {Head(queue[c])}
BY DEF TypeOK, SendLive, Receive

LEMMA DropIs ==
  ASSUME TypeOK, NEW c \in Clients, Drop(c)
  PROVE  /\ conn'[c] = "closed" /\ replay'[c] = <<>> /\ queue'[c] = <<>>
         /\ lastId'[c] = lastId[c] /\ got'[c] = got[c]
BY DEF TypeOK, Drop

\* A publisher appends to a queue, or leaves the clients alone.
LEMMA BroadcastIs ==
  ASSUME TypeOK, NEW p \in Publishers, Broadcast(p), NEW c \in Clients
  PROVE  /\ pub[p].pc = "stored" /\ stored' = stored /\ silent' = silent \cup Overtaken(pub[p].seq)
         /\ conn'[c] = conn[c] /\ after'[c] = after[c] /\ replay'[c] = replay[c]
         /\ lastId'[c] = lastId[c] /\ got'[c] = got[c]
         /\ queue'[c] = queue[c] \/ queue'[c] = Append(queue[c], pub[p].seq)
         /\ conn[c] = "streaming" => queue'[c] = Append(queue[c], pub[p].seq)
BY DEF TypeOK, Broadcast, Subscribed

LEMMA ServerSame ==
  ASSUME NEW p \in Publishers, DrawSequence(p) \/ Insert(p) \/ CancelPublisher(p), NEW c \in Clients
  PROVE  Same(c)
BY DEF DrawSequence, Insert, CancelPublisher, client, Same


-----------------------------------------------------------------------------
(* The inductive invariant *)

LEMMA TypeStep ==
  ASSUME TypeOK, NumbersInOrder, StreamsAreComplete, SentIsStored, [Next]_vars
  PROVE  TypeOK'
<1>0. PICK n \in Nat : stored = 1..n /\ n <= MaxEvents
  BY StoredIs
<1>1. MaxEvents \in Nat /\ MaxDrops \in Nat
  BY EventStreamAssumption
<1>2. ASSUME NEW p \in Publishers, DrawSequence(p) PROVE TypeOK'
  <2>1. n \in 0..MaxEvents
    BY <1>0, <1>1
  <2>2. n < MaxEvents /\ pub' = [pub EXCEPT ![p] = [pc |-> "drawn", seq |-> n + 1]]
    BY <1>0, <1>2, <2>1, DrawIs
  <2> QED BY <1>1, <1>2, <2>2 DEF TypeOK, DrawSequence, client
<1>3. ASSUME NEW p \in Publishers, Insert(p) PROVE TypeOK'
  <2>1. pub[p].seq \in Ids
    BY <1>0, <1>1, <1>3 DEF Insert, NumbersInOrder, Ids, TypeOK
  <2>2. pub' \in [Publishers -> [pc : {"idle", "drawn", "stored", "failed"}, seq : 0..MaxEvents]]
    <3>1. pub[p] \in [pc : {"idle", "drawn", "stored", "failed"}, seq : 0..MaxEvents]
      BY DEF TypeOK
    <3>2. PICK r \in [pc : {"idle", "drawn", "stored", "failed"}, seq : 0..MaxEvents] :
            pub' = [pub EXCEPT ![p] = r]
      <4>1. [pub[p] EXCEPT !.pc = "stored"] \in [pc : {"idle", "drawn", "stored", "failed"}, seq : 0..MaxEvents]
        BY <3>1
      <4>2. [pc |-> "failed", seq |-> 0] \in [pc : {"idle", "drawn", "stored", "failed"}, seq : 0..MaxEvents]
        BY <1>1
      <4> QED BY <1>3, <4>1, <4>2 DEF Insert
    <3> QED BY <3>2 DEF TypeOK
  <2>3. stored' \subseteq Ids
    BY <1>3, <2>1 DEF Insert, TypeOK
  <2> QED BY <1>3, <2>2, <2>3 DEF TypeOK, Insert, client
<1>4. ASSUME NEW p \in Publishers, Broadcast(p) PROVE TypeOK'
  <2>1. pub[p].seq \in Ids /\ Overtaken(pub[p].seq) \subseteq Ids
    BY <1>1, <1>4 DEF Broadcast, NumbersInOrder, Ids, TypeOK, Overtaken
  <2>2. ASSUME NEW c \in Clients PROVE Append(queue[c], pub[p].seq) \in Seq(Ids)
    <3>1. queue[c] \in Seq(Ids)
      BY DEF TypeOK
    <3> QED BY <2>1, <3>1
  <2>3. queue' \in [Clients -> Seq(Ids)]
    BY <1>4, <2>2 DEF Broadcast, TypeOK
  <2> QED BY <1>1, <1>4, <2>1, <2>3 DEF TypeOK, Broadcast, Idle
<1>5. ASSUME NEW p \in Publishers, CancelPublisher(p) PROVE TypeOK'
  <2>1. pub[p].pc = "stored" => pub[p].seq \in Ids
    BY <1>1, <1>5 DEF NumbersInOrder, Ids, TypeOK
  <2> QED BY <1>1, <1>5, <2>1 DEF TypeOK, CancelPublisher, Idle, client
<1>6. ASSUME NEW c \in Clients, Connect(c) \/ Drop(c) PROVE TypeOK'
  <2>1. CASE Connect(c)
    BY <2>1 DEF TypeOK, Connect, server
  <2>2. CASE Drop(c)
    <3>1. drops' \in [Clients -> 0..MaxDrops]
      BY <1>1, <2>2 DEF TypeOK, Drop
    <3>2. <<>> \in Seq(Ids)
      OBVIOUS
    <3>3. replay' \in [Clients -> Seq(Ids)] /\ queue' \in [Clients -> Seq(Ids)]
      BY <2>2, <3>2 DEF TypeOK, Drop
    <3> QED BY <2>2, <3>1, <3>3 DEF TypeOK, Drop, server
  <2> QED BY <1>6, <2>1, <2>2
<1>7. ASSUME NEW c \in Clients, Replay(c) PROVE TypeOK'
  <2>1. after[c] \in stored \cup {0}
    BY <1>7, BeginIs DEF StreamsAreComplete, SentIsStored
  <2>2. replay' = [replay EXCEPT ![c] = replay'[c]] /\ InOrder(replay'[c], EventsSince(after[c]))
    BY <1>7, <2>1, ReplayIs
  <2>3. replay'[c] \in Seq(Ids)
    <3>1. EventsSince(after[c]) \subseteq Ids
      BY DEF EventsSince, TypeOK
    <3>2. PICK q, S : q = replay'[c] /\ S = EventsSince(after[c])
      OBVIOUS
    <3>3. q \in Seq(S) /\ S \subseteq Ids
      BY <2>2, <3>1, <3>2 DEF InOrder
    <3>4. q \in Seq(Ids)
      BY <3>3
    <3> QED BY <3>2, <3>4
  <2>4. replay' \in [Clients -> Seq(Ids)]
    BY <2>2, <2>3 DEF TypeOK
  <2> QED BY <1>7, <2>4 DEF TypeOK, Replay, server
<1>8. ASSUME NEW c \in Clients, SendReplayed(c) PROVE TypeOK'
  <2>1. Head(replay[c]) \in Ids /\ Tail(replay[c]) \in Seq(Ids)
    BY <1>8, SendReplayedIs, TailIs
  <2>2. replay' \in [Clients -> Seq(Ids)] /\ got' \in [Clients -> SUBSET Ids]
    BY <1>8, <2>1 DEF TypeOK, SendReplayed, Receive
  <2>3. lastId' \in [Clients -> 0..MaxEvents]
    BY <1>1, <1>8, <2>1 DEF TypeOK, SendReplayed, Receive, Ids
  <2> QED BY <1>8, <2>2, <2>3 DEF TypeOK, SendReplayed, server
<1>9. ASSUME NEW c \in Clients, SendLive(c) PROVE TypeOK'
  <2>1. Head(queue[c]) \in Ids /\ Tail(queue[c]) \in Seq(Ids)
    BY <1>9, SendLiveIs, TailIs
  <2>2. queue' \in [Clients -> Seq(Ids)] /\ got' \in [Clients -> SUBSET Ids]
    BY <1>9, <2>1 DEF TypeOK, SendLive, Receive
  <2>3. lastId' \in [Clients -> 0..MaxEvents]
    BY <1>1, <1>9, <2>1 DEF TypeOK, SendLive, Receive, Ids
  <2> QED BY <1>9, <2>2, <2>3 DEF TypeOK, SendLive, server
<1>10. CASE UNCHANGED vars
  BY <1>10 DEF TypeOK, vars, server, client
<1> QED BY <1>2, <1>3, <1>4, <1>5, <1>6, <1>7, <1>8, <1>9, <1>10, PublisherKinds

LEMMA SentStep ==
  ASSUME TypeOK, NumbersInOrder, StreamsAreComplete, SentIsStored, [Next]_vars
  PROVE  SentIsStored'
<1> DEFINE Fine(c) == /\ got'[c] \cup Range(queue'[c]) \cup Range(replay'[c]) \subseteq stored'
                      /\ lastId'[c] \in stored' \cup {0}
<1>1. SUFFICES ASSUME NEW c \in Clients PROVE Fine(c)
  BY DEF SentIsStored
<1>2. stored \subseteq stored'
  BY PublisherKinds
     DEF DrawSequence, Insert, Broadcast, CancelPublisher, Connect, Replay, SendReplayed, SendLive, Drop, server, vars
<1>3. /\ got[c] \subseteq stored /\ Range(queue[c]) \subseteq stored /\ Range(replay[c]) \subseteq stored
      /\ lastId[c] \in stored \cup {0} /\ queue[c] \in Seq(Ids) /\ replay[c] \in Seq(Ids)
  BY DEF SentIsStored, TypeOK
<1>4. ASSUME Same(c) PROVE Fine(c)
  BY <1>2, <1>3, <1>4 DEF Same
<1>5. ASSUME NEW p \in Publishers, Broadcast(p) PROVE Fine(c)
  <2>1. pub[p].pc = "stored" /\ pub[p].seq \in stored /\ pub[p].seq \in Ids
    BY <1>5 DEF Broadcast, NumbersInOrder, TypeOK
  <2>2. Range(Append(queue[c], pub[p].seq)) \subseteq stored
    <3>1. PICK q \in Seq(Ids), x \in Ids : q = queue[c] /\ x = pub[p].seq
      BY <1>3, <2>1
    <3>2. Range(Append(q, x)) = Range(q) \cup {x}
      BY AppendIs
    <3> QED BY <1>3, <2>1, <3>1, <3>2
  <2> QED BY <1>2, <1>3, <1>5, <2>2, BroadcastIs
<1>6. ASSUME Connect(c) \/ Drop(c) PROVE Fine(c)
  <2>1. Range(<<>>) = {}
    BY DEF Range
  <2> QED BY <1>2, <1>3, <1>6, <2>1, ConnectIs, DropIs
<1>7. ASSUME Replay(c) PROVE Fine(c)
  <2>1. after[c] \in stored \cup {0}
    BY <1>7, BeginIs DEF StreamsAreComplete, SentIsStored
  <2>2. InOrder(replay'[c], EventsSince(after[c]))
    BY <1>7, <2>1, ReplayIs
  <2>3. Range(replay'[c]) \subseteq stored
    <3>1. PICK q, S : q = replay'[c] /\ S = EventsSince(after[c])
      OBVIOUS
    <3>2. q \in Seq(S) /\ S \subseteq stored
      BY <2>2, <3>1 DEF InOrder, EventsSince
    <3>3. Range(q) \subseteq stored
      BY <3>2 DEF Range
    <3> QED BY <3>1, <3>3
  <2> QED BY <1>2, <1>3, <1>7, <2>3, BeginIs
<1>8. ASSUME SendReplayed(c) PROVE Fine(c)
  <2>1. Head(replay[c]) \in stored /\ Range(Tail(replay[c])) \subseteq stored
    BY <1>3, <1>8, SendReplayedIs, TailIs
  <2> QED BY <1>2, <1>3, <1>8, <2>1, SendReplayedIs
<1>9. ASSUME SendLive(c) PROVE Fine(c)
  <2>1. Head(queue[c]) \in stored /\ Range(Tail(queue[c])) \subseteq stored
    BY <1>3, <1>9, SendLiveIs, TailIs
  <2>2. replay'[c] = replay[c]
    BY <1>9, SendLiveIs
  <2> QED BY <1>2, <1>3, <1>9, <2>1, <2>2, SendLiveIs
<1>10. ASSUME UNCHANGED vars PROVE Same(c)
  BY <1>10 DEF Same, vars, client
<1>11. ASSUME NEW d \in Clients, d # c,
              Connect(d) \/ Replay(d) \/ SendReplayed(d) \/ SendLive(d) \/ Drop(d)
       PROVE  Same(c)
  BY <1>11, OthersSame
<1> HIDE DEF Fine
<1> QED BY <1>4, <1>5, <1>6, <1>7, <1>8, <1>9, <1>10, <1>11, PublisherKinds, ServerSame


\* Completeness of a stream, and of the point where its client would resume,
\* for a client that a step leaves alone.
LEMMA Untouched ==
  ASSUME NEW c \in Clients, Same(c), silent \subseteq silent',
         stored' \subseteq stored \cup Pending', Pending \subseteq Pending' \cup silent',
         StreamIsComplete(c)
  PROVE  StreamIsComplete(c)'
<1>1. Seen(c) \subseteq Seen(c)'
  BY DEF Seen, Same
<1>2. /\ Range(replay[c])' = Range(replay[c]) /\ Range(queue[c])' = Range(queue[c])
      /\ replay'[c] = replay[c] /\ queue'[c] = queue[c]
  BY DEF Same
<1>3. stored' \subseteq Seen(c)' \cup Range(replay[c])' \cup Range(queue[c])' \cup Pending'
  BY <1>1, <1>2 DEF StreamIsComplete, Seen
<1>4. \A i : UpTo(replay[c], i)' = UpTo(replay[c], i) /\ UpTo(queue[c], i)' = UpTo(queue[c], i)
  BY <1>2 DEF UpTo
<1> QED BY <1>1, <1>2, <1>3, <1>4 DEF StreamIsComplete

\* The publishers' side of a step.
LEMMA PendingStep ==
  ASSUME TypeOK, NumbersInOrder, NEW p \in Publishers,
         DrawSequence(p) \/ Insert(p) \/ CancelPublisher(p)
  PROVE  /\ silent \subseteq silent' /\ stored' \subseteq stored \cup Pending'
         /\ Pending \subseteq Pending' \cup silent'
<1> DEFINE Rec == [pc : {"idle", "drawn", "stored", "failed"}, seq : 0..MaxEvents]
<1>0. pub \in [Publishers -> Rec]
  BY DEF TypeOK
<1>1. CASE DrawSequence(p)
  <2>1. /\ silent' = silent /\ stored' = stored /\ pub[p].pc = "idle"
        /\ pub' = [pub EXCEPT ![p] = [pc |-> "drawn", seq |-> Highest + 1]]
    BY <1>1 DEF DrawSequence
  <2>2. \A q \in Publishers : pub[q].pc = "stored" => pub'[q] = pub[q]
    BY <1>0, <2>1
  <2> QED BY <2>1, <2>2 DEF Pending
<1>2. CASE Insert(p)
  <2>1. silent' = silent /\ pub[p].pc = "drawn" /\ stored \subseteq stored' /\ pub[p] = [pc |-> "drawn", seq |-> pub[p].seq]
    BY <1>0, <1>2 DEF Insert
  <2>2. \A q \in Publishers : q # p => pub'[q] = pub[q]
    BY <1>0, <1>2 DEF Insert
  <2>3. Pending \subseteq Pending'
    BY <2>1, <2>2 DEF Pending
  <2>4. stored' \subseteq stored \cup Pending'
    <3>1. CASE pub[p].seq \in stored
      BY <1>2, <3>1 DEF Insert
    <3>2. CASE pub[p].seq \notin stored
      <4>1. pub' = [pub EXCEPT ![p].pc = "stored"] /\ stored' = stored \cup {pub[p].seq}
        BY <1>2, <3>2 DEF Insert
      <4>2. pub'[p] = [pc |-> "stored", seq |-> pub[p].seq]
        BY <1>0, <2>1, <4>1
      <4>3. pub[p].seq \in Pending'
        BY <4>1, <4>2 DEF Pending
      <4> QED BY <4>1, <4>3
    <3> QED BY <3>1, <3>2
  <2> QED BY <2>1, <2>3, <2>4
<1>3. CASE CancelPublisher(p)
  <2>1. /\ stored' = stored /\ pub' = [pub EXCEPT ![p] = Idle]
        /\ silent' = IF pub[p].pc = "stored" THEN silent \cup {pub[p].seq} ELSE silent
    BY <1>3 DEF CancelPublisher
  <2>2. \A q \in Publishers : q # p => pub'[q] = pub[q]
    BY <1>0, <2>1
  <2>3. ASSUME NEW k \in Pending PROVE k \in Pending' \cup silent'
    <3>1. PICK q \in Publishers : pub[q] = [pc |-> "stored", seq |-> k]
      BY DEF Pending
    <3>2. CASE q = p
      BY <2>1, <3>1, <3>2
    <3>3. CASE q # p
      BY <2>1, <2>2, <3>1, <3>3 DEF Pending
    <3> QED BY <3>2, <3>3
  <2> QED BY <2>1, <2>3
<1> QED BY <1>1, <1>2, <1>3

\* A broadcast reaches the end of every open stream, and what it overtakes
\* is lost to them.
LEMMA BroadcastStep ==
  ASSUME TypeOK, NumbersInOrder, NEW p \in Publishers, Broadcast(p), NEW c \in Clients,
         conn[c] = "streaming", StreamIsComplete(c)
  PROVE  StreamIsComplete(c)'
<1>1. PICK m \in Nat : stored = 1..m /\ m <= MaxEvents
  BY StoredIs
<1>2. PICK n : n = pub[p].seq
  OBVIOUS
<1>3. n \in stored /\ n \in Ids /\ pub[p] = [pc |-> "stored", seq |-> n]
  BY <1>2 DEF Broadcast, NumbersInOrder, TypeOK
<1>4. PICK q \in Seq(Ids) : q = queue[c]
  BY DEF TypeOK
<1>5. /\ stored' = stored /\ silent' = silent \cup Overtaken(n) /\ replay'[c] = replay[c]
      /\ got'[c] = got[c] /\ queue'[c] = Append(q, n) /\ pub' = [pub EXCEPT ![p] = Idle]
  BY <1>2, <1>4, BroadcastIs DEF Broadcast
<1>6. Seen(c) \subseteq Seen(c)' /\ Overtaken(n) \subseteq Seen(c)'
  BY <1>5 DEF Seen
<1>7. PICK r : r = Append(q, n)
  OBVIOUS
<1>8. /\ Range(r) = Range(q) \cup {n} /\ DOMAIN r = DOMAIN q \cup {Len(q) + 1}
      /\ \A i \in DOMAIN q : r[i] = q[i] /\ UpTo(q, i) = UpTo(r, i)
      /\ r[Len(q) + 1] = n /\ UpTo(r, Len(q) + 1) = Range(q) \cup {n}
  BY <1>3, <1>7, AppendIs
<1>9. /\ Range(replay[c])' = Range(replay[c]) /\ Range(queue[c])' = Range(r)
      /\ queue'[c] = r
  BY <1>5, <1>7
<1>10. /\ stored \subseteq Seen(c) \cup Range(replay[c]) \cup Range(q) \cup Pending
       /\ \A i \in DOMAIN replay[c] : 1..replay[c][i] \subseteq Seen(c) \cup UpTo(replay[c], i)
       /\ \A i \in DOMAIN q : 1..q[i] \subseteq Seen(c) \cup Range(replay[c]) \cup UpTo(q, i)
  BY <1>4 DEF StreamIsComplete
<1>11. \A k \in Pending : k = n \/ k \in Pending'
  <2>1. \A o \in Publishers : o # p => pub'[o] = pub[o]
    BY <1>5 DEF TypeOK
  <2> QED BY <1>3, <1>5, <2>1 DEF Pending
<1>12. \A k \in Pending : k < n => k \in Overtaken(n)
  BY <1>1, <1>3 DEF Pending, Overtaken
<1>13. stored' \subseteq Seen(c)' \cup Range(replay[c])' \cup Range(queue[c])' \cup Pending'
  BY <1>5, <1>6, <1>8, <1>9, <1>10, <1>11
<1>14. \A i : UpTo(replay[c], i)' = UpTo(replay[c], i) /\ UpTo(queue[c], i)' = UpTo(r, i)
  BY <1>5, <1>9 DEF UpTo
<1>15. \A i \in DOMAIN replay[c]' : 1..replay'[c][i] \subseteq Seen(c)' \cup UpTo(replay[c], i)'
  BY <1>5, <1>6, <1>10, <1>14
<1>16. ASSUME NEW i \in DOMAIN r
       PROVE  1..r[i] \subseteq Seen(c)' \cup Range(replay[c]) \cup UpTo(r, i)
  <2>1. CASE i \in DOMAIN q
    BY <1>6, <1>8, <1>10, <2>1
  <2>2. CASE i = Len(q) + 1
    <3>1. r[i] = n /\ UpTo(r, i) = Range(q) \cup {n}
      BY <1>8, <2>2
    <3>2. ASSUME NEW k \in 1..n PROVE k \in Seen(c)' \cup Range(replay[c]) \cup Range(q) \cup {n}
      <4>1. k \in stored /\ (k = n \/ k < n)
        BY <1>1, <1>3
      <4> QED BY <1>6, <1>10, <1>12, <4>1
    <3> QED BY <3>1, <3>2
  <2> QED BY <1>8, <2>1, <2>2
<1>17. \A i \in DOMAIN queue[c]' :
         1..queue'[c][i] \subseteq Seen(c)' \cup Range(replay[c])' \cup UpTo(queue[c], i)'
  BY <1>9, <1>14, <1>16
<1> QED BY <1>13, <1>15, <1>17 DEF StreamIsComplete


\* A stream begins with everything after the point where the client resumes.
LEMMA ReplayStep ==
  ASSUME TypeOK, NumbersInOrder, SentIsStored, StreamsAreComplete, ResumePointIsComplete,
         NEW c \in Clients, Replay(c)
  PROVE  StreamIsComplete(c)'
<1>1. PICK n \in Nat : stored = 1..n /\ n <= MaxEvents
  BY StoredIs
<1>2. PICK a : a = after[c] /\ a = lastId[c]
  BY BeginIs DEF StreamsAreComplete
<1>3. a \in stored \cup {0} /\ 1..a \subseteq Seen(c)
  BY <1>2 DEF SentIsStored, ResumePointIsComplete, Seen
<1>4. PICK r : r = replay'[c]
  OBVIOUS
<1>5. PICK S : S = {k \in stored : k > a}
  OBVIOUS
<1>6. /\ r \in Seq(S) /\ \A i, j \in DOMAIN r : i < j => r[i] < r[j]
      /\ \A x \in S : \E i \in DOMAIN r : r[i] = x
  <2>1. S = EventsSince(after[c])
    BY <1>2, <1>5 DEF EventsSince
  <2>2. after[c] \in stored \cup {0}
    BY <1>2, <1>3
  <2>3. InOrder(r, S)
    BY <1>4, <2>1, <2>2, ReplayIs
  <2> QED BY <2>3 DEF InOrder
<1>7. /\ stored' = stored /\ silent' = silent /\ got'[c] = got[c] /\ queue'[c] = queue[c]
      /\ Pending' = Pending
  BY BeginIs DEF Replay, server, Pending
<1>8. Seen(c)' = Seen(c)
  BY <1>7 DEF Seen
<1>9. \A k \in stored : k \in Seen(c) \/ k \in S
  BY <1>1, <1>3, <1>5
<1>10. S \subseteq Range(r)
  BY <1>6 DEF Range
<1>11. Range(replay[c])' = Range(r) /\ Range(queue[c])' = Range(queue[c])
  BY <1>4, <1>7
<1>12. stored' \subseteq Seen(c)' \cup Range(replay[c])' \cup Range(queue[c])' \cup Pending'
  BY <1>7, <1>8, <1>9, <1>10, <1>11
<1>13. ASSUME NEW i \in DOMAIN r, NEW k \in 1..r[i] PROVE k \in Seen(c) \cup UpTo(r, i)
  <2>1. r[i] \in S /\ r[i] \in stored
    BY <1>5, <1>6
  <2>2. k \in stored /\ k <= r[i]
    BY <1>1, <2>1
  <2>3. CASE k \in S
    <3>1. PICK j \in DOMAIN r : r[j] = k
      BY <1>6, <2>3
    <3>2. i \in Nat /\ j \in Nat /\ 1 <= j
      BY <1>6
    <3>3. ~ (i < j)
      <4>1. ASSUME i < j PROVE FALSE
        <5>1. r[i] < k
          BY <1>6, <3>1, <4>1
        <5> QED BY <1>1, <2>1, <2>2, <5>1
      <4> QED BY <4>1
    <3>4. j \in 1..i
      BY <3>2, <3>3
    <3> QED BY <3>1, <3>4 DEF UpTo
  <2> QED BY <1>9, <2>2, <2>3
<1>14. ASSUME NEW i \in DOMAIN queue[c], NEW k \in 1..queue[c][i] PROVE k \in Seen(c) \cup Range(r)
  <2>1. queue[c][i] \in stored
    BY DEF SentIsStored, Range
  <2>2. k \in stored
    BY <1>1, <2>1
  <2> QED BY <1>9, <1>10, <2>2
<1>15. \A i : UpTo(replay[c], i)' = UpTo(r, i)
  BY <1>4 DEF UpTo
<1>16. \A i \in DOMAIN replay[c]' : 1..replay'[c][i] \subseteq Seen(c)' \cup UpTo(replay[c], i)'
  BY <1>4, <1>8, <1>13, <1>15
<1>17. \A i \in DOMAIN queue[c]' :
         1..queue'[c][i] \subseteq Seen(c)' \cup Range(replay[c])' \cup UpTo(queue[c], i)'
  BY <1>7, <1>8, <1>11, <1>14
<1> QED BY <1>12, <1>16, <1>17 DEF StreamIsComplete

\* An event that is sent moves from the stream to what the client has.
LEMMA SendReplayedStep ==
  ASSUME TypeOK, NEW c \in Clients, SendReplayed(c), StreamIsComplete(c)
  PROVE  StreamIsComplete(c)' /\ 1..lastId'[c] \subseteq Seen(c)'
<1>1. PICK q \in Seq(Ids) : q = replay[c] /\ q # <<>>
  BY SendReplayedIs
<1>2. PICK h, r : h = Head(q) /\ r = Tail(q)
  OBVIOUS
<1>3. /\ 1 \in DOMAIN q /\ q[1] = h /\ Range(q) = {h} \cup Range(r) /\ UpTo(q, 1) = {h}
      /\ \A i \in DOMAIN r : /\ i + 1 \in DOMAIN q /\ r[i] = q[i + 1]
                             /\ UpTo(q, i + 1) \subseteq {h} \cup UpTo(r, i)
  BY <1>1, <1>2, TailIs
<1>4. /\ replay'[c] = r /\ queue'[c] = queue[c] /\ lastId'[c] = h /\ got'[c] = got[c] \cup {h}
      /\ stored' = stored /\ silent' = silent /\ Pending' = Pending
  BY <1>1, <1>2, SendReplayedIs DEF SendReplayed, server, Pending
<1>5. Seen(c)' = Seen(c) \cup {h}
  BY <1>4 DEF Seen
<1>6. /\ stored \subseteq Seen(c) \cup Range(q) \cup Range(queue[c]) \cup Pending
      /\ \A i \in DOMAIN q : 1..q[i] \subseteq Seen(c) \cup UpTo(q, i)
      /\ \A i \in DOMAIN queue[c] :
           1..queue[c][i] \subseteq Seen(c) \cup Range(q) \cup UpTo(queue[c], i)
  BY <1>1 DEF StreamIsComplete
<1>7. /\ Range(replay[c])' = Range(r) /\ Range(queue[c])' = Range(queue[c])
      /\ \A i : UpTo(replay[c], i)' = UpTo(r, i) /\ UpTo(queue[c], i)' = UpTo(queue[c], i)
  BY <1>4 DEF UpTo
<1>8. stored' \subseteq Seen(c)' \cup Range(replay[c])' \cup Range(queue[c])' \cup Pending'
  BY <1>3, <1>4, <1>5, <1>6, <1>7
<1>9. \A i \in DOMAIN r : 1..r[i] \subseteq Seen(c) \cup {h} \cup UpTo(r, i)
  BY <1>3, <1>6
<1>10. \A i \in DOMAIN replay[c]' : 1..replay'[c][i] \subseteq Seen(c)' \cup UpTo(replay[c], i)'
  BY <1>4, <1>5, <1>7, <1>9
<1>11. \A i \in DOMAIN queue[c]' :
         1..queue'[c][i] \subseteq Seen(c)' \cup Range(replay[c])' \cup UpTo(queue[c], i)'
  BY <1>3, <1>4, <1>5, <1>6, <1>7
<1>12. 1..lastId'[c] \subseteq Seen(c)'
  BY <1>3, <1>4, <1>5, <1>6
<1> QED BY <1>8, <1>10, <1>11, <1>12 DEF StreamIsComplete

LEMMA SendLiveStep ==
  ASSUME TypeOK, NEW c \in Clients, SendLive(c), StreamIsComplete(c)
  PROVE  StreamIsComplete(c)' /\ 1..lastId'[c] \subseteq Seen(c)'
<1>1. PICK q \in Seq(Ids) : q = queue[c] /\ q # <<>>
  BY SendLiveIs
<1>2. PICK h, r : h = Head(q) /\ r = Tail(q)
  OBVIOUS
<1>3. /\ 1 \in DOMAIN q /\ q[1] = h /\ Range(q) = {h} \cup Range(r) /\ UpTo(q, 1) = {h}
      /\ \A i \in DOMAIN r : /\ i + 1 \in DOMAIN q /\ r[i] = q[i + 1]
                             /\ UpTo(q, i + 1) \subseteq {h} \cup UpTo(r, i)
  BY <1>1, <1>2, TailIs
<1>4. /\ queue'[c] = r /\ replay'[c] = <<>> /\ replay[c] = <<>> /\ lastId'[c] = h
      /\ got'[c] = got[c] \cup {h} /\ stored' = stored /\ silent' = silent /\ Pending' = Pending
  BY <1>1, <1>2, SendLiveIs DEF SendLive, server, Pending
<1>5. Seen(c)' = Seen(c) \cup {h}
  BY <1>4 DEF Seen
<1>6. Range(<<>>) = {}
  BY DEF Range
<1>7. /\ stored \subseteq Seen(c) \cup Range(q) \cup Pending
      /\ \A i \in DOMAIN q : 1..q[i] \subseteq Seen(c) \cup UpTo(q, i)
  BY <1>1, <1>4, <1>6 DEF StreamIsComplete
<1>8. Range(queue[c])' = Range(r) /\ \A i : UpTo(queue[c], i)' = UpTo(r, i)
  BY <1>4 DEF UpTo
<1>9. stored' \subseteq Seen(c)' \cup Range(replay[c])' \cup Range(queue[c])' \cup Pending'
  BY <1>3, <1>4, <1>5, <1>7, <1>8
<1>10. \A i \in DOMAIN r : 1..r[i] \subseteq Seen(c) \cup {h} \cup UpTo(r, i)
  BY <1>3, <1>7
<1>11. \A i \in DOMAIN queue[c]' :
         1..queue'[c][i] \subseteq Seen(c)' \cup Range(replay[c])' \cup UpTo(queue[c], i)'
  BY <1>4, <1>5, <1>8, <1>10
<1>12. DOMAIN replay[c]' = {}
  BY <1>4
<1>13. 1..lastId'[c] \subseteq Seen(c)'
  BY <1>3, <1>4, <1>5, <1>7
<1> QED BY <1>9, <1>11, <1>12, <1>13 DEF StreamIsComplete

\* Every step keeps every client's stream, and its point to resume, complete.
LEMMA StreamStepKept ==
  ASSUME StreamInv, [Next]_vars
  PROVE  StreamsAreComplete' /\ ResumePointIsComplete'
<1>0. TypeOK /\ NumbersInOrder /\ SentIsStored /\ StreamsAreComplete /\ ResumePointIsComplete
  BY DEF StreamInv
<1> DEFINE Fine(c) == /\ conn'[c] = "subscribed" => after'[c] = lastId'[c]
                      /\ conn'[c] = "streaming" => StreamIsComplete(c)'
                      /\ 1..lastId'[c] \subseteq Seen(c)'
<1>1. SUFFICES ASSUME NEW c \in Clients PROVE Fine(c)
  BY DEF StreamsAreComplete, ResumePointIsComplete, Seen
<1>2. /\ conn[c] = "subscribed" => after[c] = lastId[c]
      /\ conn[c] = "streaming" => StreamIsComplete(c)
      /\ 1..lastId[c] \subseteq Seen(c)
  BY <1>0 DEF StreamsAreComplete, ResumePointIsComplete, Seen
<1>3. ASSUME Same(c), silent \subseteq silent', stored' \subseteq stored \cup Pending',
             Pending \subseteq Pending' \cup silent'
      PROVE  Fine(c)
  <2>1. conn[c] = "streaming" => StreamIsComplete(c)'
    BY <1>2, <1>3, Untouched
  <2> QED BY <1>2, <1>3, <2>1 DEF Same, Seen
<1>4. ASSUME Same(c), UNCHANGED server PROVE Fine(c)
  BY <1>3, <1>4 DEF server, Pending
<1>5. ASSUME NEW p \in Publishers, DrawSequence(p) \/ Insert(p) \/ CancelPublisher(p) PROVE Fine(c)
  BY <1>0, <1>3, <1>5, ServerSame, PendingStep
<1>6. ASSUME NEW p \in Publishers, Broadcast(p) PROVE Fine(c)
  <2>1. /\ conn'[c] = conn[c] /\ after'[c] = after[c] /\ lastId'[c] = lastId[c]
        /\ Seen(c) \subseteq Seen(c)'
    BY <1>0, <1>6, BroadcastIs DEF Seen
  <2>2. conn[c] = "streaming" => StreamIsComplete(c)'
    BY <1>0, <1>2, <1>6, BroadcastStep
  <2> QED BY <1>2, <2>1, <2>2
<1>7. ASSUME Connect(c) \/ Drop(c) PROVE Fine(c)
  <2>1. /\ lastId'[c] = lastId[c] /\ got'[c] = got[c] /\ silent' = silent /\ conn'[c] # "streaming"
        /\ conn'[c] = "subscribed" => after'[c] = lastId'[c]
    BY <1>0, <1>7, ConnectIs, DropIs DEF Connect, Drop, server
  <2> QED BY <1>2, <2>1 DEF Seen
<1>8. ASSUME Replay(c) PROVE Fine(c)
  <2>1. lastId'[c] = lastId[c] /\ conn'[c] = "streaming" /\ Seen(c)' = Seen(c)
    BY <1>0, <1>8, BeginIs DEF Replay, server, Seen
  <2> QED BY <1>0, <1>2, <1>8, <2>1, ReplayStep
<1>9. ASSUME SendReplayed(c) PROVE Fine(c)
  BY <1>0, <1>2, <1>9, SendReplayedIs, SendReplayedStep
<1>10. ASSUME SendLive(c) PROVE Fine(c)
  BY <1>0, <1>2, <1>10, SendLiveIs, SendLiveStep
<1>11. ASSUME NEW d \in Clients, d # c,
              Connect(d) \/ Replay(d) \/ SendReplayed(d) \/ SendLive(d) \/ Drop(d)
       PROVE  Fine(c)
  BY <1>0, <1>4, <1>11, OthersSame
<1>12. ASSUME UNCHANGED vars PROVE Fine(c)
  BY <1>4, <1>12 DEF Same, vars, client
<1> HIDE DEF Fine
<1> QED BY <1>5, <1>6, <1>7, <1>8, <1>9, <1>10, <1>11, <1>12, PublisherKinds

LEMMA StreamInit == Init => StreamInv
<1> SUFFICES ASSUME Init PROVE StreamInv
  OBVIOUS
<1> USE EventStreamAssumption DEF Init
<1>1. TypeOK
  <2>1. <<>> \in Seq(Ids)
    OBVIOUS
  <2> QED BY <2>1 DEF TypeOK, Idle
<1>2. NumbersInOrder
  <2>1. 0 \in 0..MaxEvents /\ stored = 1..0
    OBVIOUS
  <2>2. \A p \in Publishers : pub[p].pc = "idle"
    BY DEF Idle
  <2> QED BY <2>1, <2>2 DEF NumbersInOrder
<1>3. SentIsStored
  <2>1. Range(<<>>) = {}
    BY DEF Range
  <2> QED BY <2>1 DEF SentIsStored
<1>4. StreamsAreComplete /\ ResumePointIsComplete
  BY DEF StreamsAreComplete, ResumePointIsComplete
<1> QED BY <1>1, <1>2, <1>3, <1>4 DEF StreamInv

\* The inductive invariant of the events: the numbers are drawn in order, and
\* an open stream is complete up to what still waits for its broadcast.
THEOREM StreamInvHolds == Spec => []StreamInv
<1>1. StreamInv /\ [Next]_vars => StreamInv'
  <2> SUFFICES ASSUME StreamInv, [Next]_vars PROVE StreamInv'
    OBVIOUS
  <2>1. TypeOK /\ NumbersInOrder /\ SentIsStored /\ StreamsAreComplete
    BY DEF StreamInv
  <2>2. TypeOK' /\ NumbersInOrder' /\ SentIsStored'
    BY <2>1, TypeStep, NumbersStep, SentStep
  <2> QED BY <2>2, StreamStepKept DEF StreamInv
<1> QED BY <1>1, StreamInit, PTL DEF Spec

\* The id a client would resume from covers only events it has received, but
\* for those whose broadcast was lost or overtaken (scan_events, events.py).
THEOREM ResumeLosesNothing == Spec => []ResumePointIsComplete
<1>1. StreamInv => ResumePointIsComplete
  BY DEF StreamInv
<1> QED BY <1>1, StreamInvHolds, PTL

\* A client is sent only what is committed (publish).
THEOREM SentIsDurable == Spec => []DurableBeforeSent
<1>1. StreamInv => DurableBeforeSent
  BY DEF StreamInv, SentIsStored, DurableBeforeSent
<1> QED BY <1>1, StreamInvHolds, PTL

\* The numbers of the stored events are consecutive, whatever the publishers
\* race for and wherever they are cancelled (_next_sequence).
THEOREM SequenceIsDense == Spec => []NumbersAreDense
<1>1. ASSUME StreamInv PROVE NumbersAreDense
  <2>1. PICK n \in Nat : stored = 1..n
    BY <1>1, StoredIs DEF StreamInv
  <2>2. Cardinality(1..n) = n
    BY FS_Interval
  <2> QED BY <2>1, <2>2 DEF NumbersAreDense
<1>2. StreamInv => NumbersAreDense
  BY <1>1
<1> QED BY <1>2, StreamInvHolds, PTL
=============================================================================
