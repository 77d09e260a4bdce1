# ScanLedger in TLA+

ScanLedger is a local, single-user network scanner for a private lab: a FastAPI
process with an SQLite database, a durable scan queue, an in-process worker that
runs probe modules, and a React front end that watches a scan over server-sent
events.  This directory holds TLA+ models of the parts of it that are hard to
test, the TLC runs that check them on small instances, and TLAPS proofs of the
results that should hold for every instance.

`PROJECT.json` is the index: which definition models which lines, which run
checks which property, which change of the code each property would catch.

## The system

| part | state it keeps | operations | what is hard about it |
|---|---|---|---|
| worker lock (`scan/runner.py`, table `worker_lock`) | one row: owner, heartbeat | acquire, beat, release | read and write are separate statements; crashes leave the row; a late heartbeat |
| scan queue and worker loop (`scan/runner.py`, tables `scans`, `module_runs`, `findings`) | status and cancel flag of every scan, status of every module run, stored findings; in memory: position in `execute_scan`, `any_success`, `any_problem` | recover, claim, execute (validate, run modules, store, settle, finish), stop | a crash between any two commits, requests in between, a loop task that ends with an exception |
| scan endpoints (`api/scans.py`, `services/scans.py`) | none of their own | create (load profile, resolve, validate, insert), cancel, delete, list, detail, event stream | read-then-write against a worker that moves on |
| retention (`services/retention.py`) | none | sweep scans, sweep cache | runs inside start and inside every `_finish` |
| intensity governor (`scan/governor.py`) | two levels of semaphores, token bucket, counters, backoff | acquire a slot, release, report | many tasks between awaits, cancellation anywhere |
| progress events (`scan/events.py`) | table `scan_events`, queues of subscribers | publish, replay, subscribe | two publishers, commit and broadcast apart, reconnects |
| ScanGuard (`guard/`, `db/ledger.py`) | scope profile, audit ledger | validate a target, connect, open a stream | deny by default over address ranges; names that resolve differently the second time; ledger against socket |
| scope profiles (`api/scopes.py`) | table `scope_profiles` | create, edit, delete | edits while scans are queued or running |
| cache and outbound gateway (`services/cache.py`, `services/outbound.py`) | table of responses, timestamps of the limiter | get, store, clear, fetch with retries | a lock held while sleeping, one window for all retries, concurrent stores of one key |
| probe modules (`modules/`) | findings and flags of one run | run in waves of probes | cancel polling, budgets running out in a wave, every exception closes what is open |
| findings and reports (`api/findings.py`, `services/reports.py`) | none | list, export | several SELECTs against a worker that commits in between |
| registry, ledger view, providers' parsers, banner recognition, settings, front end views | - | read-only or pure data | nothing that a model checker reaches |

The parts meet in the database and in one event loop.  A process starts by taking
the lock, repairing what a predecessor left (`recover_interrupted`), sweeping old
scans and creating two tasks, the loop and the heartbeat.  The loop claims the
oldest queued scan and executes its modules one after the other; each module fans
out probes that go through `ScanGuard.connect` and the scan's governor.  Every
status change is committed first and published afterwards.  Requests are served by
the same event loop, and a second process would share the database.

What makes each part correct:

* lock: one process works at a time, and a process that lost the lock does not get it back;
* queue: a scan is executed only by its claimant, nothing is left `running` by a
  live worker, a finished scan stays finished, a cancel request sticks, the status
  of a scan agrees with its modules, every scan ends;
* governor: no permit leaks, the ceilings hold, budgets are overrun by a known
  amount at most, no probe waits for ever;
* guard: nothing is touched that is always denied or outside the profile the scan was
  dispatched under, a validated target is admitted member by member, every connection in
  use is in the ledger, the profile of a scan outlives it;
* modules: findings are backed by the ledger, what was not tested is not reported as
  absent, a cancel lets at most a wave still connect, nothing stays open, nothing bypasses
  the guard;
* cache and gateway: the provider's limit holds, failures are never cached, every lookup ends;
* reports: what is read at different moments still fits together;
* events: what is sent is durable, numbers are dense, whoever reconnects misses nothing.

## Modules

| module | models | composed with |
|---|---|---|
| `WorkerLock` | the row `worker_lock` and the life of every process incarnation | - |
| `LockWitness` | an observer of the two accidents the lock cannot see | extends `WorkerLock` |
| `ScanRunner` | class `ScanRunner`, the scan endpoints that write, `sweep_old_scans` | extends `WorkerLock` |
| `ScanQueue` | what the queue promises, in five stages of a scan | - |
| `QueueRefinement` | the mapping from `ScanRunner` to `ScanQueue` | extends `ScanRunner`, `INSTANCE ScanQueue` |
| `ScanExport` | `get_scan`, `list_findings`, `export_scan` while the worker writes | extends `ScanRunner` |
| `IntensityGovernor` | `IntensityGovernor`, `_TokenBucket`, the slot part of `ScanGuard.connect` | - |
| `ConnectionRate` | an observer of the bucket over the last second | extends `IntensityGovernor` |
| `EventStream` | `EventPublisher`, `scan_events`, the browser's `EventSource` | - |
| `ScopeRules` | the decisions of `ranges.py`, `ScopeProfile` and `ScanGuard._validate_*`, without state | - |
| `ScanGuard` | scope profiles, `create_scan`, dispatch, `connect`, the audit ledger, the resolver | extends `ScopeRules` |
| `ProbeModules` | the four modules, their waves, options and findings; the part of `execute_scan` around them | extends `ScanGuard`, implements it |
| `CancelWitness` | an observer of the connections begun after the cancel flag was set | extends `ProbeModules` |
| `OutboundGateway` | `_SlidingWindowLimiter`, `get_json` | - |
| `ResponseCache` | `ResponseCache`, `sweep_expired_cache` | extends `OutboundGateway` |
| `MC...` | constants for TLC | one per run's module |
| `WorkerLockProofs` (with `LockWitness`), `ScanRunnerProofs` (with `QueueRefinement`), `ScanExportProofs`, `IntensityGovernorProofs` (with `ConnectionRate`), `EventStreamProofs`, `ScanGuardProofs`, `ProbeModulesProofs` (with `CancelWitness`), `ResponseCacheProofs` | inductive invariants and theorems | each extends the module it is about and the proofs of the modules below it |

**WorkerLock.**  A process draws a new owner id when it is built, so an element of
`Workers` is one incarnation and a restart is another element.  `phase` says how
far it has come.  The SQLite driver opens a transaction only at the first write, so
the SELECT of `acquire_worker_lock` (`AcquireReadNone`, `AcquireReadStale`,
`AcquireRefused`) and its INSERT or UPDATE (`AcquireInsert`, `AcquireTakeOver`) are
separate actions, and so are the two halves of `release_worker_lock`.  The clock is
reduced to one bit, whether the heartbeat is older than 30 seconds.  Two constants
say what may go wrong: `LiveLapses` lets the row of a live owner grow stale,
`RacingStarts` lets two starts have read the same stale row.

**ScanRunner.**  `scan`, `run` are the tables; `job` is the loop of each process: its
position, the scan, the modules still to do, the two flags of `execute_scan` and the
result of the module that just ended.  One action is one commit or one read.  The
publish after a commit is a step of its own (positions `pub...`), because it is a
second transaction that can fail: on the foreign key if the scan was deleted, on the
unique sequence number if the footprint ticker drew the same one.  Nothing catches
such an exception, so the loop is `dead` from then on while the process lives and
beats.  `ask` is a cancel request between its read and its write.  Messages and
codes are reduced to `noted` (is one set), findings to their number.  Scans are numbered in
the order in which they are committed; the code orders them by `created_at`, which is set
just before the commit, so two requests at one moment may be claimed the other way round.
The SELECT and the DELETE of `sweep_old_scans` are one step, which hides nothing: a scan that
is terminal stays so until it is deleted.

**IntensityGovernor.**  An action is what a task does from one suspension to the
next: an uncontended asyncio lock or semaphore does not suspend, so `BeginAcquire`
can run through to the slot in one step, and stops at the first place where
somebody is ahead.  A tick is the time of one token.  `CancelAcquire` is
cancellation at any await of `_acquire`; cancellation inside the connect is
`ConnectFails`, since `except BaseException` treats both alike.

**ScanExport.**  A view is one request that reads one module of one scan: the tables it
has read so far, in the order of the code, and what it found.  The driver opens no
transaction for a SELECT, so the worker commits between two reads.  `get_scan` makes the
first two reads of an export.  `list_findings` counts every row and then reads a page of
them; `Pages` are the limits and offsets that clients ask for, of any size (the code allows
limits of 1 to 500 and takes 100 by default).

**ScopeRules and ScanGuard.**  An address is a number and a network the set of its
addresses; the tables of `ranges.py` and of the `ipaddress` library are constants, and
`ScopeRulesAssumption` says what they have to satisfy.  `NetworkAlwaysDenied` looks at
overlap and at the ends of a network, as the code and the library do, and
`IsAlwaysDenied` at one address; that the two agree is a property and a theorem.
`req` is the `create_scan` in progress (load, resolve, validate, insert), `del` the
`delete_scope` between its check and its DELETE, `job` the scan that is executed, `conn`
the connect to each address and port: waiting for the governor's slot after the check,
connecting, established and not yet recorded, failed and not yet recorded, held by the
caller, or dropped, which is a socket whose row could not be written and that nobody closes;
it is in nobody's way, and a later probe may connect to the same port.  The rows of a
validated target are committed one by one.  `Rebind` changes what a name resolves to.
`authorised` is a history variable, the profiles a scan was ever dispatched under.  Ledger
rows form a set.  A port out of range and a name that does not resolve are refused
without a row, as in the code.

**ProbeModules.**  `plan` holds the requested modules and their port lists, `tasks` the
probes of the module that runs, in the order of its factories, `mod.base` the start of the
current wave.  A probe connects through the actions of `ScanGuard`, so a step of a module
is a step of the guard or leaves it alone: `ModulesUseTheGuard` states that.  Whether the
budget still has a slot is left open (`IntensityGovernor` decides it).  The flag that
modules poll is a copy that a watcher sets some time after the request.  A probe looks at it
when it asks the guard for a connection (`ProbeConnects`) and not again when the slot comes
(`ProbeBegins`), which may be much later.  `HostsOf` is `hosts()` of either version: of an
IPv6 network it keeps the last address.  Answers other
than their kind (accepted, refused, none), banners and pages are left out.

**OutboundGateway and ResponseCache.**  Time is relative: ages of the limiter's
timestamps, ticks that a row has left, ticks that the holder of the limiter's lock still
sleeps.  A store is a read and a commit; a row that came or went in between makes the
commit fail.  No module uses the two yet, so the lookup that joins them (get, ask on a
miss, store) follows their interfaces and is the one assumption of the model.  The
`ttl_seconds` of `store` has no caller either and is left out.

**EventStream.**  One scan.  `publish` is three steps: draw the number, commit the
row, broadcast.  A client receives replayed events, then its queue, remembers the
last id, loses its connection up to `MaxDrops` times, and comes back with that id.

## Runs

| run | instance | shows |
|---|---|---|
| `ScanRunner_queue` | 2 scans, 1 module, 2 processes; crash, delete, refusal, retention | `TypeOK`, `LockInv`, `AtMostOneWorker`, `ExecutesOwnClaim`, `NoOrphanedScan`, `FinishedStaysFinished`, `ImplementsQueue` |
| `ScanRunner_recovery` | 1 scan, 2 modules (one not applicable), 2 processes, 1 view at a time, pages of 1 row from the first and 2 from the second; crash, delete, uncaught errors, collisions | `NoOrphanedModule`, `VerdictMatchesModules`, `DoneFindingsStored`, `FinishedViewIsSettled`, `PromisedFindingsShown`, `ReasonIsExplained`, `QueuedCancelSticks` |
| `ScanRunner_liveness` | 2 scans, 1 module, 2 processes; crash | `ScanEnds` |
| `ScanRunner_delete` | as above with deletion instead of crashes | `ScanEnds` is violated |
| `ScanRunner_rerun` | 1 scan, 1 restart | `FindingsStoredOnce` is violated |
| `WorkerLock_displaced` | 4 processes, lapses and races | `SecondWorkerNeedsAccident`, `DisplacedStaysDisplaced` |
| `Governor_probes` | 3 tasks, 2 hosts, 2 global permits, 1 per host, rate 2, budgets 2 and 2, backoff up to 2 | `PermitsConserved`, `ConcurrencyCeiling`, `BudgetOverrunBounded`, `BurstBounded`, `ProbeEnds` |
| `Events_replay` | the scan and a cancellable ticker, 1 client, 3 events, 2 drops | `ResumePointIsComplete`, `DurableBeforeSent`, `NumbersAreDense`, `EveryEventArrives` |
| `ScanGuard_scope` | 8 addresses (private, link-local with a metadata address, public, multicast), 1 profile with 4 bodies, 4 targets, 1 name with 4 answers, 2 changes | `TypeOK`, `ScopeOfScanExists`, `ValidatedMeansAdmitted`, `AllowedWasAuthorised`, `SocketsAuthorised`, `HeldIsRecorded` |
| `ProbeModules_report` | 4 networks (one of IPv6), 10 requests, 3 ports, waves of 2, 1 restart | `ReportedWasProbed`, `NoSilentGap`, `NothingHeldBetweenModules`, `CancelOverrunBounded`, `ModulesUseTheGuard` |
| `ProbeModules_cancel` | the same | `CancelStopsInFlight` is violated |
| `ResponseCache_lookups` | 2 tasks, 1 key, 2 requests per 3 ticks, 2 attempts | `WindowRespected`, `CachedIsGenuine`, `LookupEnds` |

**Bounds.**  Two processes give one restart, which is enough for a crash to fall
between any two steps and for its repair to be observed; four in the lock's own runs
let two starts race for the row of a third.  Two scans let one wait for the other;
two modules, one of which does not apply, let a crash fall
before, between and after them, with every result of the first and a skip of the second;
longer lists of modules are left to the proofs.
Three tasks on two permits make every queue of the governor non-empty, and the
budgets of 2 and 2 are reached and overrun.  Three events let one be lost between
two others and the client come back for the rest.  The addresses of `ScanGuard_scope`
have one of every class, with a metadata address inside an allowed range; two changes
are an edit and a rebinding, or two of either, between request, dispatch and connect.
The requests of `ProbeModules_report` make two waves, a follow-up module with and without
open ports, a port list with duplicates and out of order, lists that are refused before
and during the probes, and a network that is too large; the flag can be set while both probes
of a wave wait for a slot.  Two tasks on one key miss
together and store together; a window of three ticks outlasts a lifetime of one.  Counters are bounded by these numbers: attempts by the processes,
findings by the attempts, probes by the budget and the tasks.  `CHECK_DEADLOCK FALSE`
is set where the instance may end: all incarnations are used up, all events published, the one scan over, its id never used again.

**Fairness.**  `ScanRunner`: weak fairness of a start that holds the lock, of the
worker loop, and of an accepted cancel request, which asyncio gives to every ready
task; a module ends because it runs under `wait_for`.  Nothing is assumed of users,
crashes or restarts, and `ScanEnds` promises nothing while no process is up.
`IntensityGovernor`: weak fairness of time, and strong fairness of each task that goes on
(`GoesOn`): asyncio serves the waiters of its locks and semaphores first in, first out, while
the model lets any of them go next, so a task whose turn comes again and again takes it; a
backoff ends, a connect has a timeout (`connect_timeout`), a ledger write has one
(`busy_timeout`), and a module's use of its socket runs under `wait_for`.  Cancellation is
never assumed.  `EventStream`: a publish that began goes on, an
`EventSource` reconnects, an open stream sends what it has.  `ResponseCache`: weak
fairness of time, of the steps of the limiter and of a store, and of the answer, which the
client's timeout brings at the latest.  The limiter's queue is a sequence, so the order of
its lock is in the model and needs no strong fairness.

## Where the code and its documentation disagree

Kept as runs (see `findings` in `PROJECT.json`):

* deleting a running scan ends the worker loop for good (`ScanRunner_delete`);
* findings are inserted again when a stopped scan is re-run (`ScanRunner_rerun`);
* a cancel does not stop in-flight work, as `runner.py:314-315` and the PRD say
  (`ProbeModules_cancel`).  A probe looks at the flag before it asks for a
  connection and then awaits a backoff, a token and two semaphores; nothing looks again
  before `sock_connect`.  All probes of a wave look at its start, so up to 256 of them still
  connect after the flag is set, in the polite profile at 5 per second for about 50 seconds.  `protocol_enum`
  also opens the second stream of a port it has begun without a look.
  `CancelOverrunBounded` says what does hold: at most the connections of one wave follow,
  two per probe in `protocol_enum`.

Visible in the models and not kept as runs, because a property that passes says
precisely what the code does instead:

* two starts that judged one stale lock row both overwrite it, and both work;
  `SecondWorkerNeedsAccident` says that this and a lapsed heartbeat are the only ways there;
* an event whose publisher is cancelled between commit and broadcast, or overtaken by
  another publisher there, is skipped by connected clients for good, while `events.py:3-6`
  promises a replay of what was missed; `ResumePointIsComplete` and `EveryEventArrives`
  hold for all other events;
* budgets are checked before the awaits of `_acquire` and charged after them, so
  they are exceeded; `BudgetOverrunBounded` gives the amount, fewer than the tasks
  alive at once (256 in a wave of `in_bounded_waves`);
* `connections_per_second` is exceeded by a burst; `BurstBounded` gives the amount for the
  tokens that the bucket hands out.  It does not bound the connects: tasks that have their
  token and wait at the semaphores can connect together when permits come free, in a larger
  burst than that, up to the ceilings;
* `list_findings` shows at most `limit` rows beside a total that counts all of them;
  `PromisedFindingsShown` compares the rows with what limit and offset leave of the total;
* the concurrency ceilings count connects in progress (`ConcurrencyCeiling`), not open
  connections: the slot is left when the connect returns;
* a worker whose heartbeat lapsed for 30 seconds goes on beside its successor, which
  re-queues and repeats its scan; `AtMostOneWorker` and `ExecutesOwnClaim` hold
  under `~LiveLapses` only, and `DisplacedStaysDisplaced` is what is left without it;
* a module that was interrupted, or failed, in an earlier run of the scan keeps its message
  when it is done later, and reports print it; `ReasonIsExplained` says that there is no
  other unexplained reason;
* a scan refused at dispatch ends with its modules still queued, the one exception of
  `FinishedViewIsSettled`;
* the profile is read at dispatch and not again: an edit during the scan takes effect at
  the next dispatch (`AllowedWasAuthorised` is about the profiles at dispatch);
* an established socket whose ledger row cannot be written is closed by nobody;
* `iter_target_addresses` says "every address the validated target covers" and leaves out
  the first and last address of an IPv4 network, the first of an IPv6 network, and the
  second of two;
* `outbound.py:33-35` says the limits stay under the provider's, and they equal them.

## Proofs

All theorems are for any set of processes, scans, modules, tasks, hosts, publishers,
clients, requests and limits.  What is assumed of the constants is in the named `ASSUME`s
of the modules, which TLC evaluates in the runs: limits are positive, `Tasks`, `Addresses`
and `Ports` are finite, the tables of ranges fit together.  The theorems about the queue, its
modules and its reports assume `~RacingStarts` and `~LiveLapses`, the two accidents under
which the code does not keep its promise; those of the lock's types, of
`DisplacedStaysDisplaced`, of `SecondWorkerNeedsAccident` and of all other components do
not.  `LockInv` is checked in a run.  The other inductive invariants are definitions of the
proof modules, and TLC checked each of them on the instance of its component's run.

* `WorkerLockProofs`.  `LockTypeCorrect`; `LockInvHolds`, from `~RacingStarts` and
  `~LiveLapses`; `OneWorkerOnly` follows.  `AtMostOneWorker` alone is not inductive:
  it needs that whoever works owns a fresh row (`HolderOwnsRow`), that a start about
  to overwrite a row is alone and its victim not alive (`TakeOverIsAlone`), and that
  the recorded owner is not a process that is still reading (`OwnerStarted`).
  `DisplacedForGood` needs no assumption on lapses and races.  Neither does
  `TwoWorkersNeedAccident`: until an accident the parts `HolderOwnsRow` and `OwnerStarted`
  hold even with racing starts, because the owner of a row that a start judged is dead and
  stays dead (`JudgedIsGone`), whoever overwrites the row in the meantime.
* `IntensityGovernorProofs`.  Every step moves one task (`StepKinds`, from one lemma
  per stage of `_acquire`); `CountsMove` says how the number of tasks in a set
  changes when one task moves, and `PermitsNeverLeak`, `CeilingsHold` and
  `BudgetOverrunIsBounded` follow from it and `GovernorTypeCorrect`.  `BurstsAreBounded`
  needs all shorter spans at once (`RateInv`): what was taken in the last `j` ticks and what
  the bucket holds come from a full bucket and `j - 1` refills.  A tick turns the claim for
  `j` into the one for `j + 1`, and a bucket that is already full gains nothing.
* `ScanRunnerProofs`.  `RunnerImplementsLock`: the runner refines `LockSpec`, so what is
  proved of the lock holds of the queue (`OneProcessRunsTheQueue`).  `RunnerTypeCorrect`
  includes that a loop has a scan exactly while it works on one.  `QueueInvHolds` is the
  inductive invariant of the queue, from `~RacingStarts` and `~LiveLapses`.
  `ExecutesOwnClaim` and `NoOrphanedScan` are not inductive alone: the start of a loop
  keeps them only because nothing runs between recovery and the first claim
  (`CleanAfterRecovery`), a lock step only because a process without the lock has no
  loop (`LoopNeedsProcess`), and a new scan only because no worker executes an id that
  was never created (`ExecutesCreated`).  `LoopKinds` reduces the fourteen steps of a
  loop to four kinds (move, claim, end, sweep), and the invariant is proved of those.
  `FinishedScansStay` uses it: `_finish` does not look at the status it overwrites, and
  the scan it writes is running because its worker claimed it.

  `ModulesInvHolds` is the second inductive invariant, on top of the first.  A verdict
  agrees with the rows only because what `execute_scan` remembers in `any_success` and
  `any_problem` is what the rows of the modules behind it say (`Recalls`), with the result
  it has not written yet included; a loop remembers nothing of the scan before
  (`FreshLoop`); a scan that exists has a row for every module it selected (`RowsFollow`); a row is running only for the module
  the loop is in (`RunningIsCurrent`); and the position in `execute_scan` says what is still
  to do (`InProgress`).  `NoModuleIsOrphaned`, `VerdictsMatchModules`,
  `ReportedFindingsAreStored` and `QueuedCancelIsKept` follow.  The last one is a statement
  about two moments: `Doomed`, a cancelled scan whose worker has not begun a module, is
  stable and excludes `completed`.

  `RunnerImplementsQueue`: under the mapping that keeps of a scan only its stage, every
  step of the runner is a step of `ScanQueue` or a stutter.  It rests on `QueueInv` (nothing
  is running when a claim is made, because every running scan belongs to the worker that
  executes it) and on `OrderInv`, which is proved on top: ids are given in order, so the
  scan that a loop read as the oldest is still the oldest when it claims it, whatever was
  created in between.
* `ScanExportProofs`.  `ViewsOnlyRead`: a behaviour with readers is a behaviour of the
  runner, so all of the above holds while reports are read.  `ViewInv` then says what a
  report under way may rely on: a finished scan it has read is still so (`ScanIsAsRead`,
  from `FinishedScansStay`), and what it read of a module agrees with it and can only gain
  findings (`RestIsRead`).  `FinishedViewsAreSettled`, `PromisedFindingsAreShown` and
  `ReasonsAreExplained` are its last case.  The order of the reads is what carries the
  proof: scan before modules before findings.
* `ScanGuardProofs`.  `GuardInvHolds` for any address space, tables, profiles, names and
  requests.  The heart is arithmetic-free: `NetworkSafe` and `TargetSafe` show from
  `ScopeRulesAssumption` (an allowed range lies in one local range and meets no multicast
  or unspecified class) that a network admitted as a whole has no member that is always
  denied; the overlap test is what excludes the untouchable addresses.  The properties
  are not inductive alone: the ledger is authorised because every connection passed the
  check under the profile of the job (`ConnInv`), that profile is one the scan was
  dispatched under and is valid (`JobInv`, `SavedScopesLoad`), and an id is not used
  again by a request (`RequestInv`).  `ScopesOutliveScans`, `ValidationAgrees`,
  `LedgerIsAuthorised`, `NoSocketOutOfScope` and `HeldSocketsAreRecorded` follow.
* `ProbeModulesProofs`.  `GuardIsImplemented` is the refinement, one lemma per action: a
  step of a module is a step of `ScanGuard` or leaves it alone.  So the theorems above hold
  of the modules (`ModulesStayInScope` states the three about sockets and ledger), and `ProbeInv` is proved on top of `GuardInv`: a module runs inside
  `execute_scan` (`RunsInScan`), every connection that is not at rest belongs to a
  running probe until the module is being stopped (`ConnectionsOwned`), the waves behind
  the current one have an outcome for every probe or a warning (`WavesComplete`), and the
  probes are the ones the request asks for, each with a row in the ledger for what it
  observed (`PortProbes`, `HostProbes`).  `ModulesLetGo`, `ReportsAreOnRecord` and `GapsAreAnnounced`
  follow; the counts of a summary are cardinalities of disjoint sets of ports, whose union is the
  list of the request.

  `CancelOverrunIsBounded` is about `CancelSpec`, the modules with the witness of
  `CancelWitness`.  The bound alone is not inductive.  `LateInv` says that the late
  connections belong to probes of one wave, and why none of them counts twice: a probe that
  comes back from a connection looks at the flag before the next one and gives up, except
  that `protocol_enum` opens its second stream, which is told from the first by the ports the
  probe has left.  When that wave is over the flag is still set, so no probe of a later wave
  gets as far as to wait (`NoneBegins`).  That a waiting connection is that of one probe only
  rests on distinct addresses in the list of `host_discovery` (`HostList`) and on the length
  of each probe's list of ports (`ProbeShapes`); `AtMostOneEach` counts.
* `EventStreamProofs`.  `StreamInv` has three layers.  The numbers: what is stored is
  `1..n` and a publisher that has drawn its number is about to write `n + 1` or will fail
  on the key (`NumbersInOrder`).  What is on the way to a client is stored (`SentIsStored`).
  An open stream is complete: every stored event has been received, waits in the replay or
  in the queue, waits for its broadcast, or is one of the silent ones, and no event stands
  before one it builds on (`StreamIsComplete`).  `ResumePointIsComplete` alone says nothing
  of an event in the queue and is not inductive.

* `ResponseCacheProofs`.  `CacheInvHolds` has three parts, each inductive by itself.
  `WindowInv`: the limiter's stamps are in order of age, no more than the limit, and their
  part inside the window is exactly the requests that went out in it; so `acquire` counts
  what the provider counts, and `WindowIsRespected` follows.  The order is needed because
  it makes the comprehension of `acquire` drop a prefix: dropping now and dropping again a
  tick later is then the same as dropping once.  `LineInv`: whoever waits for the limiter
  holds its lock or stands in line exactly once, the lock has no other holder, and a call
  is under way exactly while its lookup asks (`WaitersAreInLine`).  It is what `LookupEnds`
  rests on: no cancellation or retry leaves the lock behind or the line broken.
  `StoreInv`: what a fresh row has left and its age never exceed the lifetime of its status,
  and only `ok` and `empty` are on their way into a row (`CacheIsGenuine`).

Only model-checked: liveness under fairness (`ScanEnds`, `ProbeEnds`, `EveryEventArrives`,
`LookupEnds`), which the prover does not reach.  The three runs that expect a violation have
nothing to prove.  Induction over data with an operator as parameter is out of the prover's
reach too.  The sorted lists of `ProbeModules` and `EventStream` and the expired stamps of
`OutboundGateway` are therefore defined by what they satisfy, and that such a list or such
a number exists is proved by a smallest counterexample: the strict subset order of a finite
set is well founded, and so is the order of the numbers.

## Plan

Modelled: every part that keeps state.  Proved: every safety property that a
passing run checks, and every refinement.  What is left to TLC is liveness.  The properties
are stated for the code as it is, so the places to revisit when it changes are:

* a vulnerability lookup that uses the cache: the order of get, ask and store in
  `ResponseCache` is an assumption until there is a caller;
* a look at the cancel flag inside the governor's slot, just before the connect:
  `ProbeModules_cancel` should then pass;
* an interlock between deletion and the worker: `ScanRunner_delete` should then pass;
* idempotent storing of findings: `ScanRunner_rerun` should then pass.

## Not modelled

Parsers of banners, pages, certificates and provider responses, CPE construction, the
module registry, settings, wire models, the list endpoints that read one table, the
rendering of reports and the front end's views: they keep no state that other steps race
with.  Of IPv6 only the enumeration of a network is modelled; the tables of ranges that the
runs use are like those of IPv4.  SQLite is taken at its word: a transaction is atomic, unique and
foreign keys hold, one writer at a time; a `busy_timeout` that runs out is not modelled.
