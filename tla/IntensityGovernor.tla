--------------------------- MODULE IntensityGovernor ---------------------------
(***************************************************************************)
(* The governor of one scan and the probe tasks that connect through it    *)
(* (ScanGuard.connect under governor.slot).  Tasks is the set of tasks     *)
(* alive at once: a wave of in_bounded_waves; a task that ended stands for *)
(* the next probe of the wave, or of the next module, which shares the     *)
(* governor.                                                               *)
(*                                                                         *)
(* Tasks take turns where an await suspends one, so an action is what a    *)
(* task does from one suspension to the next.  A task may be cancelled     *)
(* wherever it is suspended: wait_for does that when a module times out.   *)
(***************************************************************************)
EXTENDS Integers, FiniteSets

CONSTANTS
  Tasks,        \* probe tasks alive at once
  Hosts,        \* destinations
  NoTask, NoHost,
  GlobalConc,   \* global_concurrency
  HostConc,     \* per_host_concurrency
  Rate,         \* connections_per_second; a tick is 1/Rate of a second
  ScanBudget,   \* per_scan_budget
  HostBudget,   \* per_host_budget
  MaxBackoff    \* doublings from INITIAL_ to MAX_BACKOFF_SECONDS

\* validate_against: every limit is positive.
ASSUME GovernorAssumption ==
  /\ IsFiniteSet(Tasks) /\ NoTask \notin Tasks /\ NoHost \notin Hosts
  /\ GlobalConc \in Nat \ {0} /\ HostConc \in Nat \ {0} /\ Rate \in Nat \ {0}
  /\ ScanBudget \in Nat \ {0} /\ HostBudget \in Nat \ {0} /\ MaxBackoff \in Nat \ {0}

VARIABLES
  pc,          \* where each task is
  host,        \* the destination of its probe
  globalFree,  \* value of _global_semaphore
  hostFree,    \* value of each host's semaphore, as _host_semaphore creates it
  tokens,      \* whole tokens in the bucket
  bucketLock,  \* the task that sleeps for a token with the bucket's lock held
  scanCount,   \* _scan_count
  hostCount,   \* _host_counts
  backoff      \* _backoff, in doublings; 0 is no entry

vars == <<pc, host, globalFree, hostFree, tokens, bucketLock, scanCount, hostCount, backoff>>

(***************************************************************************)
(* idle     between two probes                                             *)
(* backoff  past the budget check, asleep because of the host's errors     *)
(* bucket   waiting for the bucket's lock, or for a token with it          *)
(* global   waiting for the global semaphore                               *)
(* host     holding it, waiting for the host's semaphore                   *)
(* slot     counted, holding both, connecting                              *)
(* failed   holding both, writing the failed connect to the ledger         *)
(* open     slot released, socket open and in use by the module            *)
(***************************************************************************)
Pcs == {"idle", "backoff", "bucket", "global", "host", "slot", "failed", "open"}

Goto(t, p) == pc' = [pc EXCEPT ![t] = p]
EndProbe(t) == Goto(t, "idle") /\ host' = [host EXCEPT ![t] = NoHost]

Init ==
  /\ pc = [t \in Tasks |-> "idle"]
  /\ host = [t \in Tasks |-> NoHost]
  /\ globalFree = GlobalConc
  /\ hostFree = [h \in Hosts |-> HostConc]
  /\ tokens = Rate
  /\ bucketLock = NoTask
  /\ scanCount = 0
  /\ hostCount = [h \in Hosts |-> 0]
  /\ backoff = [h \in Hosts |-> 0]

-----------------------------------------------------------------------------
(* _acquire *)

\* Mutant: the budget is checked with > instead of >=.
Exhausted_OffByOne(h) == scanCount > ScanBudget \/ hostCount[h] > HostBudget

Exhausted(h) == scanCount >= ScanBudget \/ hostCount[h] >= HostBudget

\* Nobody else waits where t arrives: asyncio's locks and semaphores let no
\* newcomer pass a waiter, and do not suspend a task they can serve at once.
NobodyAhead(t, p) == \A v \in Tasks \ {t} : pc[v] # p
NobodyAheadFor(t, h) == \A v \in Tasks \ {t} : ~(pc[v] = "host" /\ host[v] = h)

\* Mutant: the host's semaphore is not taken.
EnterSlot_NoHostPermit(t, h) ==
  /\ scanCount' = scanCount + 1
  /\ hostCount' = [hostCount EXCEPT ![h] = @ + 1]
  /\ Goto(t, "slot")
  /\ UNCHANGED hostFree

\* The host's permit, and the probe is counted.
EnterSlot(t, h) ==
  /\ hostFree' = [hostFree EXCEPT ![h] = @ - 1]
  /\ scanCount' = scanCount + 1
  /\ hostCount' = [hostCount EXCEPT ![h] = @ + 1]
  /\ Goto(t, "slot")

\* await self._host_semaphore(host).acquire()
ReachHost(t, h) ==
  \/ hostFree[h] > 0 /\ NobodyAheadFor(t, h) /\ EnterSlot(t, h)
  \/ /\ ~(hostFree[h] > 0 /\ NobodyAheadFor(t, h))
     /\ Goto(t, "host")
     /\ UNCHANGED <<hostFree, scanCount, hostCount>>

\* await self._global_semaphore.acquire()
ReachGlobal(t, h) ==
  \/ /\ globalFree > 0 /\ NobodyAhead(t, "global")
     /\ globalFree' = globalFree - 1
     /\ ReachHost(t, h)
  \/ /\ ~(globalFree > 0 /\ NobodyAhead(t, "global"))
     /\ Goto(t, "global")
     /\ UNCHANGED <<globalFree, hostFree, scanCount, hostCount>>

\* _TokenBucket.acquire with the lock: with a token the task goes on, without
\* one it sleeps and keeps the lock.
TryToken(t, h) ==
  \/ /\ tokens >= 1
     /\ tokens' = tokens - 1
     /\ bucketLock' = NoTask
     /\ ReachGlobal(t, h)
  \/ /\ tokens = 0
     /\ bucketLock' = t
     /\ Goto(t, "bucket")
     /\ UNCHANGED <<tokens, globalFree, hostFree, scanCount, hostCount>>

\* await self._bucket.acquire()
ReachBucket(t, h) ==
  \/ NobodyAhead(t, "bucket") /\ TryToken(t, h)
  \/ /\ ~NobodyAhead(t, "bucket")
     /\ Goto(t, "bucket")
     /\ UNCHANGED <<tokens, bucketLock, globalFree, hostFree, scanCount, hostCount>>

\* The budgets are read here; EnterSlot charges them, maybe awaits later.
BeginAcquire(t, h) ==
  /\ pc[t] = "idle"
  /\ ~Exhausted(h)
  /\ host' = [host EXCEPT ![t] = h]
  /\ \/ backoff[h] = 0 /\ ReachBucket(t, h)
     \/ /\ backoff[h] > 0
        /\ Goto(t, "backoff")
        /\ UNCHANGED <<tokens, bucketLock, globalFree, hostFree, scanCount, hostCount>>
  /\ UNCHANGED backoff

\* BudgetExceeded: the probe ends before it took anything.
BudgetExceeded(t, h) ==
  /\ pc[t] = "idle"
  /\ Exhausted(h)
  /\ UNCHANGED vars

\* A task that was suspended goes on: after its backoff, ...
BackoffOver(t) ==
  /\ pc[t] = "backoff"
  /\ ReachBucket(t, host[t])
  /\ UNCHANGED <<host, backoff>>

\* ... with the bucket's lock, handed over or its own since it went to sleep,
TokenTurn(t) ==
  /\ pc[t] = "bucket"
  /\ bucketLock = NoTask \/ (bucketLock = t /\ tokens >= 1)
  /\ TryToken(t, host[t])
  /\ UNCHANGED <<host, backoff>>

\* ... with a global permit,
GlobalTurn(t) ==
  /\ pc[t] = "global"
  /\ globalFree > 0
  /\ globalFree' = globalFree - 1
  /\ ReachHost(t, host[t])
  /\ UNCHANGED <<host, tokens, bucketLock, backoff>>

\* ... or with the host's.
HostTurn(t) ==
  /\ pc[t] = "host"
  /\ hostFree[host[t]] > 0
  /\ EnterSlot(t, host[t])
  /\ UNCHANGED <<host, globalFree, tokens, bucketLock, backoff>>

-----------------------------------------------------------------------------
(* ScanGuard.connect inside the slot, _release, report_error, report_success *)

Release(h) ==
  /\ hostFree' = [hostFree EXCEPT ![h] = @ + 1]
  /\ globalFree' = globalFree + 1

\* report_error doubles the host's backoff up to its maximum.
ReportError(h) ==
  backoff' = [backoff EXCEPT ![h] = IF @ < MaxBackoff THEN @ + 1 ELSE @]

\* The connect failed, timed out or was cancelled: except BaseException.
ConnectFails(t) ==
  /\ pc[t] = "slot"
  /\ ReportError(host[t])
  /\ Goto(t, "failed")
  /\ UNCHANGED <<host, globalFree, hostFree, tokens, bucketLock, scanCount, hostCount>>

\* The ledger has the failed connect, or the task was cancelled meanwhile.
FailedRecorded(t) ==
  /\ pc[t] = "failed"
  /\ Release(host[t])
  /\ EndProbe(t)
  /\ UNCHANGED <<tokens, bucketLock, scanCount, hostCount, backoff>>

\* The slot ends with the connect, not with the connection.
Connected(t) ==
  /\ pc[t] = "slot"
  /\ Release(host[t])
  /\ backoff' = [backoff EXCEPT ![host[t]] = 0]
  /\ Goto(t, "open")
  /\ UNCHANGED <<host, tokens, bucketLock, scanCount, hostCount>>

\* The module closes the socket.
CloseSocket(t) ==
  /\ pc[t] = "open"
  /\ EndProbe(t)
  /\ UNCHANGED <<globalFree, hostFree, tokens, bucketLock, scanCount, hostCount, backoff>>

-----------------------------------------------------------------------------
(* Cancellation at an await of _acquire, and time *)

\* Mutant: except Exception, which CancelledError is not.
CancelAcquire_Leaks(t) ==
  /\ pc[t] \in {"backoff", "bucket", "global", "host"}
  /\ bucketLock' = IF bucketLock = t THEN NoTask ELSE bucketLock
  /\ EndProbe(t)
  /\ UNCHANGED <<globalFree, hostFree, tokens, scanCount, hostCount, backoff>>

\* Mutant: the bucket's lock is taken without async with.
CancelAcquire_KeepsLock(t) ==
  /\ pc[t] \in {"backoff", "bucket", "global", "host"}
  /\ globalFree' = IF pc[t] = "host" THEN globalFree + 1 ELSE globalFree
  /\ EndProbe(t)
  /\ UNCHANGED <<hostFree, tokens, bucketLock, scanCount, hostCount, backoff>>

\* async with gives the bucket's lock back; _acquire itself gives back the
\* global permit when the wait for the host's fails.
CancelAcquire(t) ==
  /\ pc[t] \in {"backoff", "bucket", "global", "host"}
  /\ globalFree' = IF pc[t] = "host" THEN globalFree + 1 ELSE globalFree
  /\ bucketLock' = IF bucketLock = t THEN NoTask ELSE bucketLock
  /\ EndProbe(t)
  /\ UNCHANGED <<hostFree, tokens, scanCount, hostCount, backoff>>

\* Mutant: the refill is not capped.
Tick_Uncapped ==
  /\ tokens < 3 * Rate
  /\ tokens' = tokens + 1
  /\ UNCHANGED <<pc, host, globalFree, hostFree, bucketLock, scanCount, hostCount, backoff>>

\* 1/Rate of a second passes.
Tick ==
  /\ tokens' = IF tokens < Rate THEN tokens + 1 ELSE Rate
  /\ UNCHANGED <<pc, host, globalFree, hostFree, bucketLock, scanCount, hostCount, backoff>>

-----------------------------------------------------------------------------
AcquireStep(t) ==
  \/ \E h \in Hosts : BeginAcquire(t, h)
  \/ BackoffOver(t) \/ TokenTurn(t) \/ GlobalTurn(t) \/ HostTurn(t)
ConnectStep(t) ==
  \/ ConnectFails(t) \/ FailedRecorded(t) \/ Connected(t) \/ CloseSocket(t)

Next ==
  \/ Tick
  \/ \E t \in Tasks :
       \/ \E h \in Hosts : BudgetExceeded(t, h)
       \/ AcquireStep(t) \/ ConnectStep(t) \/ CancelAcquire(t)

Spec == Init /\ [][Next]_vars

\* Time passes.  asyncio's locks and semaphores serve their waiters in order,
\* so a task that waits is not passed over for ever; a connect and a ledger
\* write end (connect_timeout, busy_timeout).
GoesOn(t) ==
  BackoffOver(t) \/ TokenTurn(t) \/ GlobalTurn(t) \/ HostTurn(t) \/ ConnectStep(t)

Fairness == WF_vars(Tick) /\ \A t \in Tasks : SF_vars(GoesOn(t))

-----------------------------------------------------------------------------
(* Properties *)

\* The types; a task has a destination exactly while it probes, and whoever
\* sleeps with the bucket's lock is waiting at the bucket.
TypeOK ==
  /\ pc \in [Tasks -> Pcs]
  /\ host \in [Tasks -> Hosts \cup {NoHost}]
  /\ globalFree \in Nat
  /\ hostFree \in [Hosts -> Nat]
  /\ tokens \in 0..Rate
  /\ bucketLock \in Tasks \cup {NoTask}
  /\ scanCount \in Nat
  /\ hostCount \in [Hosts -> Nat]
  /\ backoff \in [Hosts -> 0..MaxBackoff]
  /\ \A t \in Tasks : pc[t] = "idle" <=> host[t] = NoHost
  /\ bucketLock # NoTask => pc[bucketLock] = "bucket"

InSlot == {t \in Tasks : pc[t] \in {"slot", "failed"}}
HoldsGlobal == InSlot \cup {t \in Tasks : pc[t] = "host"}
InSlotOf(h) == {t \in InSlot : host[t] = h}

\* Every permit is free or held by a task that will give it back: no way out
\* of a slot, cancellation included, leaks or forges one.
PermitsConserved ==
  /\ globalFree + Cardinality(HoldsGlobal) = GlobalConc
  /\ \A h \in Hosts : hostFree[h] + Cardinality(InSlotOf(h)) = HostConc

\* The ceilings of FR-04 on connects in progress.
ConcurrencyCeiling ==
  /\ Cardinality(InSlot) <= GlobalConc
  /\ \A h \in Hosts : Cardinality(InSlotOf(h)) <= HostConc

\* Past the check of the budgets and not counted yet.
Admitted == {t \in Tasks : pc[t] \in {"backoff", "bucket", "global", "host"}}
AdmittedTo(h) == {t \in Admitted : host[t] = h}

\* The budgets are checked before the awaits and charged after them, so they
\* can be overrun, but by less than the number of tasks alive at once.
BudgetOverrunBounded ==
  /\ scanCount + Cardinality(Admitted) <= ScanBudget - 1 + Cardinality(Tasks)
  /\ \A h \in Hosts :
       hostCount[h] + Cardinality(AdmittedTo(h)) <= HostBudget - 1 + Cardinality(Tasks)

\* A probe that was admitted is served: the bucket's lock, the global and the
\* per-host semaphores, taken in this order by all, do not block each other.
ProbeEnds == \A t \in Tasks : pc[t] # "idle" ~> pc[t] = "idle"
=============================================================================
