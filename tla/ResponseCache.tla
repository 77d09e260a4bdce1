---------------------------- MODULE ResponseCache ----------------------------
(***************************************************************************)
(* The cache of provider responses, filled through OutboundGateway: a task *)
(* looks a key up, asks the provider on a miss, and stores what it got.    *)
(* The sweep of run_retention and the user's clear delete rows meanwhile.  *)
(*                                                                         *)
(* expires_at is kept as the ticks a row has left, retrieved_at as its     *)
(* age.                                                                    *)
(***************************************************************************)
EXTENDS OutboundGateway

CONSTANTS
  Keys,
  DefaultTtl, NegativeTtl   \* DEFAULT_TTL_SECONDS, NEGATIVE_TTL_SECONDS

ASSUME CacheAssumption ==
  /\ DefaultTtl \in Nat /\ NegativeTtl \in Nat
  /\ 0 < NegativeTtl /\ NegativeTtl <= DefaultTtl

VARIABLES
  rows,    \* cache_entries
  look,    \* the lookup of each task: where it is, its key, its answer
  doomed   \* the rows a clear has selected

vars == <<gateVars, rows, look, doomed>>

Statuses == {"ok", "empty", "auth_failed", "malformed", "rate_limited", "error"}
NonCacheable == {"auth_failed", "malformed", "rate_limited", "error"}
NoRow == [status |-> "none", left |-> 0, age |-> 0]
NoLook == [pc |-> "idle", key |-> "none", status |-> "none", found |-> FALSE, age |-> 0]

Present(k) == rows[k] # NoRow

Init ==
  /\ GateInit
  /\ rows = [k \in Keys |-> NoRow]
  /\ look = [t \in Tasks |-> NoLook]
  /\ doomed = {}

-----------------------------------------------------------------------------
(* A lookup *)

At(t, p) == look[t].pc = p

\* get: an expired row is as good as none.
Fresh(row) == row # NoRow /\ row.left > 0

Hit(t, k) ==
  /\ At(t, "idle") /\ Fresh(rows[k])
  /\ look' = [look EXCEPT ![t] = [NoLook EXCEPT !.pc = "served", !.status = rows[k].status,
                                                !.age = rows[k].age]]
  /\ UNCHANGED <<gateVars, rows, doomed>>

Miss(t, k) ==
  /\ At(t, "idle") /\ ~ Fresh(rows[k])
  /\ GetJson(t)
  /\ look' = [look EXCEPT ![t] = [NoLook EXCEPT !.pc = "asking", !.key = k]]
  /\ UNCHANGED <<rows, doomed>>

\* The provider's answer, or what get_json raised: after its last attempt
\* that is never a success.
Answered(t) ==
  /\ At(t, "asking")
  /\ Returns(t)
  /\ \E st \in IF call[t].pc = "sent" THEN Statuses \ {"rate_limited"} ELSE {"rate_limited", "error"} :
       look' = [look EXCEPT ![t].pc = "answered", ![t].status = st]
  /\ UNCHANGED <<rows, doomed>>

Cacheable(st) == st \notin NonCacheable

\* store refuses what is not an answer ...
StoreRefused(t) ==
  /\ At(t, "answered") /\ ~ Cacheable(look[t].status)
  /\ look' = [look EXCEPT ![t] = NoLook]
  /\ UNCHANGED <<gateVars, rows, doomed>>

\* ... and looks for a row of the key ...
StoreRead(t) ==
  /\ At(t, "answered") /\ Cacheable(look[t].status)
  /\ look' = [look EXCEPT ![t].pc = "storing", ![t].found = Present(look[t].key)]
  /\ UNCHANGED <<gateVars, rows, doomed>>

\* store's ttl_seconds, which no caller passes, is left out.
Ttl(st) == IF st = "empty" THEN NegativeTtl ELSE DefaultTtl

\* Mutant: the expiry is set when the row is created, and kept by an update.
Stored_KeepsExpiry(t) ==
  [status |-> look[t].status, age |-> look[t].age,
   left |-> IF look[t].found THEN rows[look[t].key].left ELSE Ttl(look[t].status) - look[t].age]

\* The row store writes: its moment was taken before the read, and time may
\* have passed since.
Stored(t) ==
  [status |-> look[t].status, age |-> look[t].age,
   left |-> IF look[t].age < Ttl(look[t].status) THEN Ttl(look[t].status) - look[t].age ELSE 0]

\* ... to update or insert it.  A row that went or came in between makes the
\* commit fail (stale update, primary key) and the lookup with it.
StoreCommit(t) ==
  /\ At(t, "storing")
  /\ rows' = IF look[t].found = Present(look[t].key)
             THEN [rows EXCEPT ![look[t].key] = Stored(t)] ELSE rows
  /\ look' = [look EXCEPT ![t] = NoLook]
  /\ UNCHANGED <<gateVars, doomed>>

Served(t) ==
  /\ At(t, "served")
  /\ look' = [look EXCEPT ![t] = NoLook]
  /\ UNCHANGED <<gateVars, rows, doomed>>

CancelLookup(t) ==
  /\ CancelCall(t)
  /\ look' = [look EXCEPT ![t] = NoLook]
  /\ UNCHANGED <<rows, doomed>>

-----------------------------------------------------------------------------
(* Deletions *)

\* sweep_expired_cache
Sweep ==
  /\ \E k \in Keys : Present(k) /\ ~ Fresh(rows[k])
  /\ rows' = [k \in Keys |-> IF Fresh(rows[k]) THEN rows[k] ELSE NoRow]
  /\ UNCHANGED <<gateVars, look, doomed>>

\* clear selects all rows, and deletes the ones it selected.
ClearRead ==
  /\ doomed = {}
  /\ doomed' = {k \in Keys : Present(k)}
  /\ UNCHANGED <<gateVars, rows, look>>

ClearCommit ==
  /\ doomed # {}
  /\ rows' = [k \in Keys |-> IF k \in doomed THEN NoRow ELSE rows[k]]
  /\ doomed' = {}
  /\ UNCHANGED <<gateVars, look>>

Older(age) == IF age < DefaultTtl THEN age + 1 ELSE DefaultTtl

Tick ==
  /\ GateTick
  /\ rows' = [k \in Keys |-> IF Present(k)
                             THEN [rows[k] EXCEPT !.left = IF @ > 0 THEN @ - 1 ELSE 0,
                                                  !.age = Older(@)]
                             ELSE NoRow]
  /\ look' = [t \in Tasks |-> IF At(t, "storing") THEN [look[t] EXCEPT !.age = Older(@)]
                                                  ELSE look[t]]
  /\ UNCHANGED doomed

-----------------------------------------------------------------------------
LimiterStep(t) ==
  /\ EnterLimiter(t) \/ Acquire(t) \/ Throttle(t) \/ Backoff(t) \/ Again(t)
  /\ UNCHANGED <<rows, look, doomed>>

StoreStep(t) == StoreRefused(t) \/ StoreRead(t) \/ StoreCommit(t) \/ Served(t)

Next ==
  \/ \E t \in Tasks :
       \/ \E k \in Keys : Hit(t, k) \/ Miss(t, k)
       \/ LimiterStep(t) \/ Answered(t) \/ StoreStep(t) \/ CancelLookup(t)
  \/ Sweep \/ ClearRead \/ ClearCommit \/ Tick

\* Time passes, the event loop runs every task that is ready, and a request
\* ends by its timeout at the latest.
Fairness ==
  /\ WF_vars(Tick)
  /\ \A t \in Tasks : WF_vars(LimiterStep(t)) /\ WF_vars(Answered(t)) /\ WF_vars(StoreStep(t))

Spec == Init /\ [][Next]_vars /\ Fairness

-----------------------------------------------------------------------------
(* Properties *)

CallRecord == [pc : {"idle", "limiter", "sent", "backoff"}, attempt : 0..MaxAttempts]
CacheRow == [status : Statuses \cup {"none"}, left : 0..DefaultTtl, age : 0..DefaultTtl]
LookRecord ==
  [pc : {"idle", "asking", "answered", "storing", "served"}, key : Keys \cup {"none"},
   status : Statuses \cup {"none"}, found : BOOLEAN, age : 0..DefaultTtl]

TypeOK ==
  /\ stamps \in Seq(0..Window) /\ sent \in Seq(0..Window)
  /\ holder \in Tasks \cup {NoTask} /\ queue \in Seq(Tasks) /\ sleep \in 0..Window
  /\ call \in [Tasks -> CallRecord] /\ rows \in [Keys -> CacheRow]
  /\ look \in [Tasks -> LookRecord]
  /\ doomed \subseteq Keys

\* A failure of the provider never becomes an answer: what the cache holds was
\* a readable success, and nothing is taken for fresh longer than its status
\* allows, "no match" least of all, however stores, sweeps and clears of one
\* key fall together.
CachedIsGenuine ==
  \A k \in Keys : Fresh(rows[k]) =>
    rows[k].status \in {"ok", "empty"} /\ rows[k].age < Ttl(rows[k].status)

\* Every lookup that waits for the provider ends, although the limiter's lock
\* is held while its holder sleeps.
LookupEnds == \A t \in Tasks : At(t, "asking") ~> ~ At(t, "asking")
=============================================================================
