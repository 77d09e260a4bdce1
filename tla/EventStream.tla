----------------------------- MODULE EventStream -----------------------------
(***************************************************************************)
(* The progress events of one scan: the tasks that publish them, the table *)
(* scan_events, the queues of the live subscribers, and the clients that   *)
(* drop the stream and come back with the id of the last event they saw.   *)
(* An event is its sequence number.                                        *)
(***************************************************************************)
EXTENDS Integers, Sequences, FiniteSets, Functions

CONSTANTS
  Publishers,   \* tasks that publish: the scan itself, the footprint ticker
  Cancellable,  \* those that execute_scan cancels when a module ends
  Clients,      \* EventSource objects
  MaxEvents,    \* bound on the events of the scan
  MaxDrops      \* bound on the connections each client loses

ASSUME EventStreamAssumption ==
  /\ Cancellable \subseteq Publishers
  /\ MaxEvents \in Nat /\ MaxDrops \in Nat

VARIABLES
  stored,  \* sequence numbers in scan_events
  pub,     \* what each publisher is doing, and the sequence it drew
  silent,  \* history: events stored whose broadcast was lost or overtaken
  conn,    \* state of each client's connection
  after,   \* the Last-Event-ID the connection was opened with
  replay,  \* events read from the table and not sent yet
  queue,   \* the subscriber's queue
  lastId,  \* id of the event the client received last
  got,     \* all events it ever received
  drops    \* connections it has lost

server == <<stored, pub, silent>>
client == <<conn, after, replay, queue, lastId, got, drops>>
vars == <<server, client>>

Ids == 1..MaxEvents
Idle == [pc |-> "idle", seq |-> 0]

Init ==
  /\ stored = {}
  /\ pub = [p \in Publishers |-> Idle]
  /\ silent = {}
  /\ conn = [c \in Clients |-> "closed"]
  /\ after = [c \in Clients |-> 0]
  /\ replay = [c \in Clients |-> <<>>]
  /\ queue = [c \in Clients |-> <<>>]
  /\ lastId = [c \in Clients |-> 0]
  /\ got = [c \in Clients |-> {}]
  /\ drops = [c \in Clients |-> 0]

-----------------------------------------------------------------------------
(* EventPublisher.publish *)

Highest == IF stored = {} THEN 0 ELSE CHOOSE n \in stored : \A k \in stored : k <= n

\* Mutant: the number is counted in memory, over all events ever begun.
DrawSequence_InMemory(p) ==
  /\ pub[p].pc = "idle"
  /\ Highest < MaxEvents
  /\ \E n \in {Highest} \cup {pub[q].seq : q \in Publishers} :
       /\ n >= Highest /\ \A q \in Publishers : n >= pub[q].seq
       /\ pub' = [pub EXCEPT ![p] = [pc |-> "drawn", seq |-> n + 1]]
  /\ UNCHANGED <<stored, silent, client>>

\* _next_sequence
DrawSequence(p) ==
  /\ pub[p].pc = "idle"
  /\ Highest < MaxEvents
  /\ pub' = [pub EXCEPT ![p] = [pc |-> "drawn", seq |-> Highest + 1]]
  /\ UNCHANGED <<stored, silent, client>>

\* INSERT and commit under UNIQUE(scan_id, sequence): the loser of a race for
\* one number ends with an IntegrityError.
Insert(p) ==
  /\ pub[p].pc = "drawn"
  /\ \/ /\ pub[p].seq \notin stored
        /\ stored' = stored \cup {pub[p].seq}
        /\ pub' = [pub EXCEPT ![p].pc = "stored"]
     \/ /\ pub[p].seq \in stored
        /\ pub' = [pub EXCEPT ![p] = [pc |-> "failed", seq |-> 0]]
        /\ UNCHANGED stored
  /\ UNCHANGED <<silent, client>>

\* Mutant: the queue is subscribed only once the replay was sent.
Subscribed_AfterReplay(c) == conn[c] = "streaming" /\ replay[c] = <<>>

\* scan_events subscribes its queue before it reads the table.
Subscribed(c) == conn[c] \in {"subscribed", "streaming"}

\* Mutant: the event is broadcast before it is committed.
Broadcast_BeforeCommit(p) ==
  /\ pub[p].pc = "drawn"
  /\ queue' = [c \in Clients |-> IF Subscribed(c) THEN Append(queue[c], pub[p].seq)
                                                  ELSE queue[c]]
  /\ UNCHANGED <<server, conn, after, replay, lastId, got, drops>>

\* Events of other publishers that are committed and wait to be broadcast.
Overtaken(n) == {k \in 1..(n - 1) : \E q \in Publishers : pub[q] = [pc |-> "stored", seq |-> k]}

\* _broadcast puts the event into every queue that is subscribed now.
Broadcast(p) ==
  /\ pub[p].pc = "stored"
  /\ queue' = [c \in Clients |-> IF Subscribed(c) THEN Append(queue[c], pub[p].seq)
                                                  ELSE queue[c]]
  /\ pub' = [pub EXCEPT ![p] = Idle]
  /\ silent' = silent \cup Overtaken(pub[p].seq)
  /\ UNCHANGED <<stored, conn, after, replay, lastId, got, drops>>

\* The task is cancelled at an await of publish: before its commit, or after
\* it and before the broadcast.
CancelPublisher(p) ==
  /\ p \in Cancellable
  /\ pub[p].pc \in {"drawn", "stored"}
  /\ pub' = [pub EXCEPT ![p] = Idle]
  /\ silent' = IF pub[p].pc = "stored" THEN silent \cup {pub[p].seq} ELSE silent
  /\ UNCHANGED <<stored, client>>

-----------------------------------------------------------------------------
(* scan_events, one connection after the other *)

\* subscribe, with the id the browser sends along (0 on the first connection).
Connect(c) ==
  /\ conn[c] = "closed"
  /\ conn' = [conn EXCEPT ![c] = "subscribed"]
  /\ after' = [after EXCEPT ![c] = lastId[c]]
  /\ UNCHANGED <<server, replay, queue, lastId, got, drops>>

\* Mutant: an off-by-one in the condition on the sequence.
EventsSince_OffByOne(n) == {k \in stored : k > n + 1}

\* events_since, ordered by the sequence.
EventsSince(n) == {k \in stored : k > n}
Ordered(S) == CHOOSE q \in [1..Cardinality(S) -> S] : \A i, j \in DOMAIN q : i < j => q[i] < q[j]

Replay(c) ==
  /\ conn[c] = "subscribed"
  /\ conn' = [conn EXCEPT ![c] = "streaming"]
  /\ replay' = [replay EXCEPT ![c] = Ordered(EventsSince(after[c]))]
  /\ UNCHANGED <<server, after, queue, lastId, got, drops>>

\* The client dispatches an event, and remembers its id.
Receive(c, n) ==
  /\ lastId' = [lastId EXCEPT ![c] = n]
  /\ got' = [got EXCEPT ![c] = @ \cup {n}]

\* The replayed events are sent first ...
SendReplayed(c) ==
  /\ conn[c] = "streaming" /\ replay[c] # <<>>
  /\ Receive(c, Head(replay[c]))
  /\ replay' = [replay EXCEPT ![c] = Tail(@)]
  /\ UNCHANGED <<server, conn, after, queue, drops>>

\* ... then what the queue holds, whether it was replayed or not.
SendLive(c) ==
  /\ conn[c] = "streaming" /\ replay[c] = <<>> /\ queue[c] # <<>>
  /\ Receive(c, Head(queue[c]))
  /\ queue' = [queue EXCEPT ![c] = Tail(@)]
  /\ UNCHANGED <<server, conn, after, replay, drops>>

\* The connection is lost, and with it what was not sent: unsubscribe.
Drop(c) ==
  /\ conn[c] # "closed"
  /\ drops[c] < MaxDrops
  /\ drops' = [drops EXCEPT ![c] = @ + 1]
  /\ conn' = [conn EXCEPT ![c] = "closed"]
  /\ replay' = [replay EXCEPT ![c] = <<>>]
  /\ queue' = [queue EXCEPT ![c] = <<>>]
  /\ UNCHANGED <<server, after, lastId, got>>

-----------------------------------------------------------------------------
PublishStep(p) == DrawSequence(p) \/ Insert(p) \/ Broadcast(p)
StreamStep(c) == Replay(c) \/ SendReplayed(c) \/ SendLive(c)

Next ==
  \/ \E p \in Publishers : PublishStep(p) \/ CancelPublisher(p)
  \/ \E c \in Clients : Connect(c) \/ StreamStep(c) \/ Drop(c)

Spec == Init /\ [][Next]_vars

\* A publish that began goes on; EventSource reconnects by itself, and an open
\* stream sends what it has.
Fairness ==
  /\ \A p \in Publishers : WF_vars(Insert(p)) /\ WF_vars(Broadcast(p))
  /\ \A c \in Clients : WF_vars(Connect(c)) /\ WF_vars(StreamStep(c))

FairSpec == Spec /\ Fairness

-----------------------------------------------------------------------------
(* Properties *)

TypeOK ==
  /\ stored \subseteq Ids /\ silent \subseteq Ids
  /\ pub \in [Publishers -> [pc : {"idle", "drawn", "stored", "failed"}, seq : 0..MaxEvents]]
  /\ conn \in [Clients -> {"closed", "subscribed", "streaming"}]
  /\ after \in [Clients -> 0..MaxEvents]
  /\ replay \in [Clients -> Seq(Ids)] /\ queue \in [Clients -> Seq(Ids)]
  /\ lastId \in [Clients -> 0..MaxEvents]
  /\ got \in [Clients -> SUBSET Ids]
  /\ drops \in [Clients -> 0..MaxDrops]

\* The id a client would resume from covers only events it has received, so a
\* dropped connection loses no progress (scan_events, events.py).  Two things
\* break that promise and nothing else does: the footprint ticker is cancelled
\* between the commit and the broadcast of its event, or another publisher's
\* event is broadcast between the two.
ResumePointIsComplete ==
  \A c \in Clients : 1..lastId[c] \subseteq got[c] \cup silent

\* Every event that is stored reaches every client, over however many
\* connections, unless its broadcast was lost or overtaken.
EveryEventArrives ==
  \A c \in Clients, n \in Ids : n \in stored ~> (n \in got[c] \/ n \in silent)

\* A client is sent only what is durable, so that no event it has seen can be
\* missing from the table, or be another one under the same number, when it
\* comes back: publish commits before it broadcasts.
DurableBeforeSent ==
  \A c \in Clients : got[c] \cup Range(queue[c]) \subseteq stored

\* The numbers of a scan's events are consecutive, whatever the publishers
\* race for and wherever they are cancelled: a failed or cancelled publish
\* leaves no gap.
NumbersAreDense == stored = 1..Cardinality(stored)
=============================================================================
