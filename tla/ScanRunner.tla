------------------------------ MODULE ScanRunner ------------------------------
(***************************************************************************)
(* The durable scan queue and the worker loop of every process (class      *)
(* ScanRunner), with the scan endpoints that share its tables: scans,      *)
(* module_runs, findings.  The lock that is to keep the workers apart is   *)
(* WorkerLock.                                                             *)
(*                                                                         *)
(* One action is one commit or one read of the database, so requests,      *)
(* crashes and other workers come between any two of them.  A scan is the  *)
(* number of its creation (claim_next_scan orders by created_at), a module *)
(* is its metadata.order.  Findings are counted, not described: a module   *)
(* run yields at most one.                                                 *)
(***************************************************************************)
EXTENDS WorkerLock, FiniteSets

CONSTANTS
  NumScans,      \* bound on the scans ever created
  NumModules,    \* registered probe modules
  Inapplicable,  \* modules that do not apply to the targets in use
  MaxAged,       \* bound on the scans that grow older than the retention
  Env            \* what the environment does besides serving requests

EnvKinds ==
  {"crash",    \* a process dies between two steps
   "refuse",   \* a scope edited since creation refuses the target at dispatch
   "delete",   \* a user deletes scans, running ones included
   "untyped",  \* a module raises something that execute_scan does not catch
   "collide"}  \* the footprint ticker draws the sequence of another event

Scans == 1..NumScans
Modules == 1..NumModules
NoScan == 0

ASSUME ScanRunnerAssumption ==
  /\ NumScans \in Nat /\ NumModules \in Nat /\ MaxAged \in Nat
  /\ Inapplicable \subseteq Modules
  /\ Env \subseteq EnvKinds

VARIABLES
  scan,   \* the row of each scan
  run,    \* its module_runs rows, and how many findings each module stored
  aged,   \* scans 1..aged are older than the retention cutoff
  job,    \* what the loop of each worker is doing
  ask     \* the scan a process is about to mark cancel_requested

dbVars == <<scan, run, aged>>
vars == <<lockVars, dbVars, job, ask>>

TerminalScan == {"completed", "completed_with_warnings", "failed", "canceled"}
ScanStatus == {"queued", "running"} \cup TerminalScan
TerminalModule == {"done", "failed", "skipped", "not_applicable", "interrupted"}
ModuleStatus == {"queued", "running"} \cup TerminalModule

\* No row: not created yet, or deleted.
Blank(s) == [status |-> s, cancel |-> FALSE, owner |-> NoWorker, selected |-> {}]
NoRun == [status |-> "none", attempts |-> 0, noted |-> FALSE, count |-> 0, rows |-> 0]

Exists(s) == scan[s].status \in ScanStatus
Terminal(s) == scan[s].status \in TerminalScan

\* Positions of a loop.  Every position named pub* is a publish that follows
\* a commit; "dead" is a loop task that ended with an exception.
Pcs == {"off", "recovered", "idle", "claim", "load", "scope", "pubStart", "validate",
        "check", "begin", "pubNA", "pubRun", "module", "store", "settle", "pubMod",
        "pubFoot", "skip", "finish", "pubEnd", "retain", "dead"}

NoResult == [ok |-> FALSE, found |-> 0, warn |-> FALSE]
NoJob(p) == [pc |-> p, scan |-> NoScan, todo |-> {}, ok |-> FALSE, bad |-> FALSE,
             out |-> NoResult, verdict |-> "failed"]

At(w, p) == phase[w] = "up" /\ job[w].pc = p
Goto(w, p) == job' = [job EXCEPT ![w].pc = p]
Least(T) == CHOOSE m \in T : \A n \in T : m <= n
NextModule(w) == Least(job[w].todo)

\* An exception leaves execute_scan: nothing catches it in _loop.
Die(w) == job' = [job EXCEPT ![w] = NoJob("dead")]

Init ==
  /\ LockInit
  /\ scan = [s \in Scans |-> Blank("none")]
  /\ run = [s \in Scans |-> [m \in Modules |-> NoRun]]
  /\ aged = 0
  /\ job = [w \in Workers |-> NoJob("off")]
  /\ ask = [w \in Workers |-> NoScan]

-----------------------------------------------------------------------------
(* Requests.  They are served by any process that is up. *)

Serving == \E w \in Workers : phase[w] = "up"

\* create_scan: the scan and its module runs are one transaction.  Ids number
\* the scans in the order of their commits; the code goes by created_at, which
\* is set just before.
CreateScan(s, sel) ==
  /\ Serving
  /\ scan[s].status = "none"
  /\ \A t \in Scans : t < s => scan[t].status # "none"
  /\ sel # {}
  /\ scan' = [scan EXCEPT ![s] = [Blank("queued") EXCEPT !.selected = sel]]
  /\ run' = [run EXCEPT ![s] =
               [m \in Modules |-> IF m \in sel THEN [NoRun EXCEPT !.status = "queued"]
                                               ELSE NoRun]]
  /\ UNCHANGED <<lockVars, aged, job, ask>>

\* cancel_scan reads the status ...
CancelRead(w, s) ==
  /\ phase[w] = "up" /\ ask[w] = NoScan
  /\ Exists(s) /\ ~Terminal(s)
  /\ ask' = [ask EXCEPT ![w] = s]
  /\ UNCHANGED <<lockVars, dbVars, job>>

\* ... and writes cancel_requested whatever the status is by then.
CancelWrite(w) ==
  /\ phase[w] = "up" /\ ask[w] # NoScan
  /\ ask' = [ask EXCEPT ![w] = NoScan]
  /\ scan' = IF Exists(ask[w]) THEN [scan EXCEPT ![ask[w]].cancel = TRUE] ELSE scan
  /\ UNCHANGED <<lockVars, run, aged, job>>

\* Deleting a scan row cascades to its module runs and findings.
ScansWithout(gone) == [s \in Scans |-> IF s \in gone THEN Blank("deleted") ELSE scan[s]]
RunsWithout(gone) ==
  [s \in Scans |-> IF s \in gone THEN [m \in Modules |-> NoRun] ELSE run[s]]

\* delete_scan has no condition on the status.
DeleteScan(s) ==
  /\ "delete" \in Env
  /\ Serving
  /\ Exists(s)
  /\ scan' = ScansWithout({s})
  /\ run' = RunsWithout({s})
  /\ UNCHANGED <<lockVars, aged, job, ask>>

\* One more scan is older than retention_days.
GrowOld ==
  /\ aged < MaxAged /\ aged < NumScans
  /\ scan[aged + 1].status # "none"
  /\ aged' = aged + 1
  /\ UNCHANGED <<lockVars, scan, run, job, ask>>

\* sweep_old_scans: terminal scans older than the cutoff.  Its SELECT and its
\* DELETE are one step here: a scan that is terminal stays so until it is gone.
Swept == {s \in 1..aged : s \in Scans /\ Terminal(s)}
RunRetention ==
  /\ scan' = ScansWithout(Swept)
  /\ run' = RunsWithout(Swept)

-----------------------------------------------------------------------------
(* start: recover_interrupted, run_retention, then the tasks *)

\* Mutants: only the module runs are recovered; only the scans are; failed
\* scans are re-queued too; a re-queued scan loses its cancel request; modules
\* that had not begun are taken for interrupted ones.
RecoverInterrupted_RunsOnly(w) ==
  /\ phase[w] = "locked" /\ job[w].pc = "off"
  /\ run' = [s \in Scans |-> [m \in Modules |->
               IF run[s][m].status = "running"
               THEN [run[s][m] EXCEPT !.status = "interrupted", !.noted = TRUE]
               ELSE run[s][m]]]
  /\ Goto(w, "recovered")
  /\ UNCHANGED <<lockVars, scan, aged, ask>>

Requeued(s) == [scan[s] EXCEPT !.status = "queued", !.owner = NoWorker]

RecoverInterrupted_ScansOnly(w) ==
  /\ phase[w] = "locked" /\ job[w].pc = "off"
  /\ scan' = [s \in Scans |->
               IF scan[s].status = "running" THEN Requeued(s) ELSE scan[s]]
  /\ Goto(w, "recovered")
  /\ UNCHANGED <<lockVars, run, aged, ask>>

RecoverInterrupted_Failed(w) ==
  /\ phase[w] = "locked" /\ job[w].pc = "off"
  /\ scan' = [s \in Scans |->
               IF scan[s].status \in {"running", "failed"} THEN Requeued(s) ELSE scan[s]]
  /\ Goto(w, "recovered")
  /\ UNCHANGED <<lockVars, run, aged, ask>>

RecoverInterrupted_NoCancel(w) ==
  /\ phase[w] = "locked" /\ job[w].pc = "off"
  /\ scan' = [s \in Scans |-> IF scan[s].status = "running"
                              THEN [Requeued(s) EXCEPT !.cancel = FALSE] ELSE scan[s]]
  /\ Goto(w, "recovered")
  /\ UNCHANGED <<lockVars, run, aged, ask>>

RecoverInterrupted_AllOpen(w) ==
  /\ phase[w] = "locked" /\ job[w].pc = "off"
  /\ run' = [s \in Scans |-> [m \in Modules |->
               IF run[s][m].status \in {"queued", "running"}
               THEN [run[s][m] EXCEPT !.status = "interrupted", !.noted = TRUE]
               ELSE run[s][m]]]
  /\ scan' = [s \in Scans |->
               IF scan[s].status = "running" THEN Requeued(s) ELSE scan[s]]
  /\ Goto(w, "recovered")
  /\ UNCHANGED <<lockVars, aged, ask>>

RecoverInterrupted(w) ==
  /\ phase[w] = "locked" /\ job[w].pc = "off"
  /\ run' = [s \in Scans |-> [m \in Modules |->
               IF run[s][m].status = "running"
               THEN [run[s][m] EXCEPT !.status = "interrupted", !.noted = TRUE]
               ELSE run[s][m]]]
  /\ scan' = [s \in Scans |->
               IF scan[s].status = "running" THEN Requeued(s) ELSE scan[s]]
  /\ Goto(w, "recovered")
  /\ UNCHANGED <<lockVars, aged, ask>>

StartLoop(w) ==
  /\ job[w].pc = "recovered"
  /\ BecomeUp(w)
  /\ RunRetention
  /\ Goto(w, "idle")
  /\ UNCHANGED <<aged, ask>>

-----------------------------------------------------------------------------
(* claim_next_scan *)

Queued == {s \in Scans : scan[s].status = "queued"}

\* Mutant: the newest queued scan is read.
ClaimRead_Newest(w) ==
  /\ At(w, "idle")
  /\ \E s \in Queued :
       /\ \A t \in Queued : s >= t
       /\ job' = [job EXCEPT ![w].pc = "claim", ![w].scan = s]
  /\ UNCHANGED <<lockVars, dbVars, ask>>

\* The oldest queued scan is read; until there is one the loop polls.
ClaimRead(w) ==
  /\ At(w, "idle")
  /\ \E s \in Queued :
       /\ \A t \in Queued : s <= t
       /\ job' = [job EXCEPT ![w].pc = "claim", ![w].scan = s]
  /\ UNCHANGED <<lockVars, dbVars, ask>>

\* The UPDATE is conditional on the status: a row that changed is not claimed.
ClaimWrite(w) ==
  /\ At(w, "claim")
  /\ LET s == job[w].scan
     IN  \/ /\ scan[s].status = "queued"
            /\ scan' = [scan EXCEPT ![s].status = "running", ![s].owner = w]
            /\ Goto(w, "load")
         \/ /\ scan[s].status # "queued"
            /\ job' = [job EXCEPT ![w] = NoJob("idle")]
            /\ UNCHANGED scan
  /\ UNCHANGED <<lockVars, run, aged, ask>>

-----------------------------------------------------------------------------
(* execute_scan *)

\* Mutant: a resumed scan runs only the modules that are still queued.
LoadScan_QueuedOnly(w) ==
  /\ At(w, "load")
  /\ LET s == job[w].scan
         left == {m \in scan[s].selected : run[s][m].status = "queued"}
     IN  IF Exists(s)
         THEN job' = [job EXCEPT ![w].pc = "scope", ![w].todo = left]
         ELSE job' = [job EXCEPT ![w] = NoJob("idle")]
  /\ UNCHANGED <<lockVars, dbVars, ask>>

LoadScan(w) ==
  /\ At(w, "load")
  /\ LET s == job[w].scan
     IN  IF Exists(s)
         THEN job' = [job EXCEPT ![w].pc = "scope", ![w].todo = scan[s].selected]
         ELSE job' = [job EXCEPT ![w] = NoJob("idle")]
  /\ UNCHANGED <<lockVars, dbVars, ask>>

\* A scope that a scan references cannot be deleted (ondelete RESTRICT), so it
\* is missing only if the scan was deleted just now.
LoadScope(w) ==
  /\ At(w, "scope")
  /\ \/ Goto(w, "pubStart")
     \/ ~Exists(job[w].scan) /\ Goto(w, "finish")
  /\ UNCHANGED <<lockVars, dbVars, ask>>

\* validate_target on the scope as it is now.  What it allows and what it
\* denies goes to the ledger, whose row references the scan; a name that does
\* not resolve is refused without one.
ValidateTarget(w) ==
  /\ At(w, "validate")
  /\ \/ Exists(job[w].scan) /\ Goto(w, "check")
     \/ "refuse" \in Env /\ Goto(w, "finish")
     \/ ~Exists(job[w].scan) /\ Die(w)
  /\ UNCHANGED <<lockVars, dbVars, ask>>

Verdict(w) ==
  IF ~job[w].ok THEN "failed"
  ELSE IF job[w].bad THEN "completed_with_warnings" ELSE "completed"

\* _cancel_requested before every module and once after the last.
CancelCheck(w) ==
  /\ At(w, "check")
  /\ job' = IF scan[job[w].scan].cancel
            THEN [job EXCEPT ![w].pc = "skip", ![w].verdict = "canceled"]
            ELSE IF job[w].todo = {}
            THEN [job EXCEPT ![w].pc = "finish", ![w].verdict = Verdict(w)]
            ELSE [job EXCEPT ![w].pc = "begin"]
  /\ UNCHANGED <<lockVars, dbVars, ask>>

\* UPDATE module_runs: no row is touched when the scan was deleted.
WriteRun(s, m, r) ==
  run' = IF Exists(s) THEN [run EXCEPT ![s][m] = r] ELSE run

BeginModule(w) ==
  /\ At(w, "begin")
  /\ LET s == job[w].scan
         m == NextModule(w)
         r == run[s][m]
     IN  \/ /\ m \in Inapplicable
            /\ WriteRun(s, m, [r EXCEPT !.status = "not_applicable", !.noted = TRUE,
                                        !.count = 0])
            /\ Goto(w, "pubNA")
         \/ /\ m \notin Inapplicable
            /\ WriteRun(s, m, [r EXCEPT !.status = "running",
                                        !.attempts = r.attempts + 1])
            /\ Goto(w, "pubRun")
  /\ UNCHANGED <<lockVars, scan, aged, ask>>

\* Mutant: findings that come with warnings are not stored.
ModuleEnds_WarningsDropped(w) ==
  /\ At(w, "module")
  /\ \E found \in 0..1, warn \in BOOLEAN :
       job' = [job EXCEPT ![w].pc = IF found = 0 \/ warn THEN "settle" ELSE "store",
                          ![w].ok = TRUE,
                          ![w].bad = @ \/ warn,
                          ![w].out = [ok |-> TRUE, found |-> found, warn |-> warn]]
  /\ UNCHANGED <<lockVars, dbVars, ask>>

\* module.run under wait_for: a result, or one of the errors that are caught
\* (timeout, budget, module error, refused target).  A run whose scan was
\* deleted also meets the ledger's foreign key.
ModuleEnds(w) ==
  /\ At(w, "module")
  /\ \/ \E found \in 0..1, warn \in BOOLEAN :
          job' = [job EXCEPT ![w].pc = IF found = 0 THEN "settle" ELSE "store",
                             ![w].ok = TRUE,
                             ![w].bad = @ \/ warn,
                             ![w].out = [ok |-> TRUE, found |-> found, warn |-> warn]]
     \/ job' = [job EXCEPT ![w].pc = "settle", ![w].bad = TRUE]
     \/ ("untyped" \in Env \/ ~Exists(job[w].scan)) /\ Die(w)
  /\ UNCHANGED <<lockVars, dbVars, ask>>

\* _store_findings inserts what it is given: nothing looks for a row of the
\* same fingerprint.
StoreFindings(w) ==
  /\ At(w, "store")
  /\ LET s == job[w].scan
         m == NextModule(w)
     IN  \/ /\ Exists(s)
            /\ run' = [run EXCEPT ![s][m].rows = @ + job[w].out.found]
            /\ Goto(w, "settle")
         \/ ~Exists(s) /\ Die(w) /\ UNCHANGED run
  /\ UNCHANGED <<lockVars, scan, aged, ask>>

\* Mutant: finding_count counts the rows the module has stored so far.
SettleModule_CountsRows(w) ==
  /\ At(w, "settle")
  /\ LET s == job[w].scan
         m == NextModule(w)
     IN  WriteRun(s, m, [run[s][m] EXCEPT !.status = "done", !.count = run[s][m].rows])
  /\ job' = [job EXCEPT ![w].pc = "pubMod", ![w].out = NoResult]
  /\ UNCHANGED <<lockVars, scan, aged, ask>>

\* _set_module_status DONE or FAILED.  A message is only ever overwritten by
\* another one: DONE without warnings leaves the old message in place.
SettleModule(w) ==
  /\ At(w, "settle")
  /\ LET s == job[w].scan
         m == NextModule(w)
         out == job[w].out
     IN  WriteRun(s, m, [run[s][m] EXCEPT
                           !.status = IF out.ok THEN "done" ELSE "failed",
                           !.noted  = @ \/ ~out.ok \/ out.warn,
                           !.count  = out.found])
  /\ job' = [job EXCEPT ![w].pc = "pubMod", ![w].out = NoResult]
  /\ UNCHANGED <<lockVars, scan, aged, ask>>

MarkRemainingSkipped(w) ==
  /\ At(w, "skip")
  /\ LET s == job[w].scan
     IN  run' = [run EXCEPT ![s] = [m \in Modules |->
                   IF run[s][m].status \in {"queued", "running"}
                   THEN [run[s][m] EXCEPT !.status = "skipped", !.noted = TRUE]
                   ELSE run[s][m]]]
  /\ Goto(w, "finish")
  /\ UNCHANGED <<lockVars, scan, aged, ask>>

\* _finish writes the status whatever it was.
Finish(w) ==
  /\ At(w, "finish")
  /\ LET s == job[w].scan
     IN  scan' = IF Exists(s) THEN [scan EXCEPT ![s].status = job[w].verdict] ELSE scan
  /\ Goto(w, "pubEnd")
  /\ UNCHANGED <<lockVars, run, aged, ask>>

Retain(w) ==
  /\ At(w, "retain")
  /\ RunRetention
  /\ job' = [job EXCEPT ![w] = NoJob("idle")]
  /\ UNCHANGED <<lockVars, aged, ask>>

-----------------------------------------------------------------------------
(* EventPublisher.publish: an INSERT that references the scan row, with a   *)
(* unique sequence per scan                                                 *)

\* Where execute_scan goes on after each of its events.  After the event of a
\* module that ended, or did not apply, the module is no longer to do.
AfterPublish ==
  [pubStart |-> "validate", pubNA |-> "check", pubRun |-> "module",
   pubMod |-> "pubFoot", pubFoot |-> "check", pubEnd |-> "retain"]

Published(w) ==
  LET p == job[w].pc
  IN  job' = [job EXCEPT ![w].pc = AfterPublish[p],
                         ![w].todo = IF p \in {"pubNA", "pubFoot"}
                                     THEN @ \ {NextModule(w)} ELSE @]

\* Only the event of a module's end is published while the ticker runs: if
\* the two draw one sequence number, one of them fails, and a failed ticker
\* raises where execute_scan awaits it.
Publish(w) ==
  /\ \E p \in DOMAIN AfterPublish : At(w, p)
  /\ \/ Exists(job[w].scan) /\ Published(w)
     \/ ~Exists(job[w].scan) /\ Die(w)
     \/ "collide" \in Env /\ At(w, "pubMod") /\ Die(w)
  /\ UNCHANGED <<lockVars, dbVars, ask>>

-----------------------------------------------------------------------------
(* The process around the loop *)

\* Steps of the lock that leave the queue alone.
LockStep(w) ==
  /\ \/ AcquireReadNone(w) \/ AcquireReadStale(w) \/ AcquireRefused(w)
     \/ AcquireInsert(w) \/ AcquireTakeOver(w)
     \/ Beat(w) \/ ReleaseDelete(w)
  /\ UNCHANGED <<dbVars, job, ask>>

LapseStep == Lapse /\ UNCHANGED <<dbVars, job, ask>>

ForgetProcess(w) ==
  /\ job' = [job EXCEPT ![w] = NoJob("off")]
  /\ ask' = [ask EXCEPT ![w] = NoScan]

\* stop cancels the loop wherever it is, then releases the lock.
Stop(w) ==
  /\ job[w].pc # "dead"
  /\ ReleaseRead(w)
  /\ ForgetProcess(w)
  /\ UNCHANGED dbVars

\* stop awaits the loop task first: if that task died, its exception leaves
\* stop before the lock is released.
StopRaises(w) ==
  /\ phase[w] = "up" /\ job[w].pc = "dead"
  /\ Crash(w)
  /\ ForgetProcess(w)
  /\ UNCHANGED dbVars

ProcessDies(w) ==
  /\ "crash" \in Env
  /\ Crash(w)
  /\ ForgetProcess(w)
  /\ UNCHANGED dbVars

-----------------------------------------------------------------------------
LoopStep(w) ==
  \/ ClaimRead(w) \/ ClaimWrite(w)
  \/ LoadScan(w) \/ LoadScope(w) \/ ValidateTarget(w)
  \/ CancelCheck(w) \/ BeginModule(w) \/ ModuleEnds(w) \/ StoreFindings(w)
  \/ SettleModule(w) \/ MarkRemainingSkipped(w) \/ Finish(w) \/ Retain(w)
  \/ Publish(w)

StartStep(w) == RecoverInterrupted(w) \/ StartLoop(w)

Next ==
  \/ GrowOld
  \/ LapseStep
  \/ \E s \in Scans, sel \in SUBSET Modules : CreateScan(s, sel)
  \/ \E s \in Scans : DeleteScan(s)
  \/ \E w \in Workers, s \in Scans : CancelRead(w, s)
  \/ \E w \in Workers :
       \/ CancelWrite(w)
       \/ LockStep(w) \/ StartStep(w) \/ LoopStep(w)
       \/ Stop(w) \/ StopRaises(w) \/ ProcessDies(w)

\* The event loop of a live process runs every task that is ready: a start
\* that holds the lock, the worker loop, and a request that was accepted go on.
Fairness ==
  \A w \in Workers :
    WF_vars(StartStep(w)) /\ WF_vars(LoopStep(w)) /\ WF_vars(CancelWrite(w))

Spec == Init /\ [][Next]_vars
FairSpec == Spec /\ Fairness

-----------------------------------------------------------------------------
(* Properties *)

\* A loop has a scan exactly while it works on one.
Between == {"off", "recovered", "idle", "dead"}
JobRecord ==
  [pc : Pcs, scan : Scans \cup {NoScan}, todo : SUBSET Modules, ok : BOOLEAN,
   bad : BOOLEAN, out : [ok : BOOLEAN, found : 0..1, warn : BOOLEAN],
   verdict : TerminalScan]
Job == {j \in JobRecord : j.scan = NoScan <=> j.pc \in Between}

ScanRow ==
  [status : ScanStatus \cup {"none", "deleted"}, cancel : BOOLEAN,
   owner : Workers \cup {NoWorker}, selected : SUBSET Modules]

ModuleRunRow ==
  [status : ModuleStatus \cup {"none"}, attempts : Nat, noted : BOOLEAN,
   count : 0..1, rows : Nat]

RowsOK ==
  /\ scan \in [Scans -> ScanRow]
  /\ run \in [Scans -> [Modules -> ModuleRunRow]]
  /\ aged \in Nat

LoopsOK ==
  /\ job \in [Workers -> Job]
  /\ ask \in [Workers -> Scans \cup {NoScan}]

TypeOK == LockTypeOK /\ RowsOK /\ LoopsOK

\* From the claim to the status that _finish writes.
Executing(w) ==
  phase[w] = "up" /\ job[w].pc \notin {"idle", "claim", "pubEnd", "retain", "dead"}

\* The scan a worker executes is running in its name until _finish, unless it
\* was deleted under it.
ExecutesOwnClaim ==
  \A w \in Workers : Executing(w) /\ Exists(job[w].scan) =>
    scan[job[w].scan].status = "running" /\ scan[job[w].scan].owner = w

\* A worker whose loop is alive leaves no scan behind as running: what it
\* does not execute itself was re-queued by recover_interrupted.
NoOrphanedScan ==
  \A w \in Workers, s \in Scans :
    /\ phase[w] = "up" /\ job[w].pc # "dead"
    /\ scan[s].status = "running"
    => Executing(w) /\ job[w].scan = s

\* A module row says running only while the loop that started it is there to
\* settle it, or before the next start has recovered it.
NoOrphanedModule ==
  \A w \in Workers, s \in Scans, m \in Modules :
    /\ phase[w] = "up" /\ job[w].pc # "dead"
    /\ run[s][m].status = "running"
    => Executing(w) /\ job[w].scan = s /\ m \in job[w].todo

Status(s, m) == run[s][m].status

\* What the modules of a scan have to look like for its verdict.
Agrees(s, verdict) ==
  LET sel == scan[s].selected IN
  /\ verdict = "completed" =>
       /\ \A m \in sel : Status(s, m) \in {"done", "not_applicable"}
       /\ \E m \in sel : Status(s, m) = "done"
  /\ verdict = "completed_with_warnings" =>
       /\ \A m \in sel : Status(s, m) \in {"done", "failed", "not_applicable"}
       /\ \E m \in sel : Status(s, m) = "done"
       /\ \E m \in sel : run[s][m].noted /\ Status(s, m) # "not_applicable"
  /\ verdict = "canceled" =>
       scan[s].cancel /\ \A m \in sel : Status(s, m) \in TerminalModule
  /\ verdict = "failed" /\ "refuse" \notin Env =>
       \A m \in sel : Status(s, m) \in {"failed", "not_applicable"}

\* The status of a finished scan agrees with its module runs, through any
\* crash and re-run: completed means that every module is done or does not
\* apply, completed_with_warnings that one is done and one has something to
\* report, canceled that a cancel was requested and nothing is left open,
\* failed (unless dispatch refused the target) that nothing is done.
VerdictMatchesModules == \A s \in Scans : Agrees(s, scan[s].status)

\* "No successful findings are lost": the findings a done module reports are
\* stored, whatever happened between storing and reporting them.
DoneFindingsStored ==
  \A s \in Scans, m \in Modules : run[s][m].rows >= run[s][m].count

\* A finished scan keeps its status until it is deleted.
FinishedStaysFinished ==
  [][\A s \in Scans : Terminal(s) => scan'[s].status \in {scan[s].status, "deleted"}]_vars

\* While some process is up, a queued or running scan ends: it is not left
\* behind by the worker, and no other scan keeps it from being claimed.
ScanEnds ==
  \A s \in Scans : Exists(s) ~> (~Exists(s) \/ Terminal(s) \/ ~Serving)

\* A scan whose cancellation was requested while it was queued, on its first
\* run or after a restart, never completes.
Completed(s) == scan[s].status \in {"completed", "completed_with_warnings"}
QueuedCancelSticks ==
  \A s \in Scans : [](scan[s].status = "queued" /\ scan[s].cancel => []~Completed(s))

\* What the module reports is what is stored: recovery repeats no insert
\* ("state transitions are transactional and idempotent").
FindingsStoredOnce ==
  \A s \in Scans, m \in Modules :
    scan[s].status = "completed" => run[s][m].rows = run[s][m].count
=============================================================================
