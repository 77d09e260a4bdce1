--------------------------- MODULE ScanRunnerProofs ---------------------------
(***************************************************************************)
(* What the scan queue guarantees, for any number of processes, scans and  *)
(* modules, and whatever the environment does; last, that it implements    *)
(* ScanQueue.                                                              *)
(***************************************************************************)
EXTENDS QueueRefinement, WorkerLockProofs, WellFoundedInduction

-----------------------------------------------------------------------------
(* The invariant of the queue *)

\* A loop belongs to a process that holds the lock: it is created once the
\* lock is taken and the leftovers are recovered, and ends with its process.
LoopNeedsProcess ==
  \A w \in Workers :
    /\ phase[w] = "up" => job[w].pc \notin {"off", "recovered"}
    /\ phase[w] = "locked" => job[w].pc \in {"off", "recovered"}
    /\ phase[w] \notin {"locked", "up"} => job[w].pc = "off"

\* Between recover_interrupted and the first claim no scan is running.
CleanAfterRecovery ==
  \A w \in Workers, s \in Scans :
    phase[w] = "locked" /\ job[w].pc = "recovered" => scan[s].status # "running"

\* The scan a worker executes was created: no id is used a second time.
ExecutesCreated ==
  \A w \in Workers : Executing(w) => scan[job[w].scan].status # "none"

\* Inductive, given that one process works at a time.
QueueInv ==
  /\ LoopNeedsProcess
  /\ CleanAfterRecovery
  /\ ExecutesCreated
  /\ ExecutesOwnClaim
  /\ NoOrphanedScan

-----------------------------------------------------------------------------
(* The invariant of the module runs *)

\* Between two scans a loop remembers nothing of the last one.
FreshLoop(w) ==
  job[w].pc \in Between \cup {"claim", "load"} =>
    /\ job[w].todo = {} /\ ~job[w].ok /\ ~job[w].bad /\ job[w].out = NoResult
    /\ job[w].verdict = "failed"

InModule == {"pubRun", "module", "store", "settle"}
ModuleOver == {"pubNA", "pubMod", "pubFoot"}

\* A row says running only while the loop is between the two commits that
\* begin and settle this module; after recover_interrupted no row does.
RunningIsCurrent(w) ==
  \A s \in Scans, m \in Modules : Status(s, m) = "running" =>
    /\ phase[w] = "up" /\ job[w].pc # "dead" =>
         job[w].pc \in InModule /\ job[w].scan = s /\ m = NextModule(w)
    /\ phase[w] = "locked" => job[w].pc # "recovered"

\* The modules that the loop has settled in this execution of its scan.
Settled(w) ==
  (scan[job[w].scan].selected \ job[w].todo) \cup
  (IF job[w].pc \in ModuleOver THEN {NextModule(w)} ELSE {})

\* What the loop remembers of the settled modules (ok, bad) is what their rows
\* say, the result in hand included.
Recalls(j, settled, rows) ==
  /\ \A m \in settled : rows[m].status \in {"done", "failed", "not_applicable"}
  /\ j.ok <=> (j.out.ok \/ \E m \in settled : rows[m].status = "done")
  /\ j.bad =>
       \/ j.out.warn \/ (j.pc = "settle" /\ ~j.out.ok)
       \/ \E m \in settled : rows[m].noted /\ rows[m].status # "not_applicable"
  /\ ~j.bad =>
       /\ ~j.out.warn /\ (j.pc = "settle" => j.out.ok)
       /\ \A m \in settled :
            /\ rows[m].status # "failed"
            /\ rows[m].status = "done" /\ rows[m].noted => rows[m].attempts > 1

Remembers(w) == Recalls(job[w], Settled(w), run[job[w].scan])

\* The row of the module in hand: what was found is stored before it is
\* reported, and a message is from an earlier attempt.
InHand(w) ==
  LET j == job[w]
      r == run[j.scan][NextModule(w)]
  IN /\ j.pc \in InModule => r.attempts > 0 /\ (r.noted => r.attempts > 1)
     /\ j.pc = "settle" => r.rows >= j.out.found

\* A reason next to a module that is done in a scan without warnings is from
\* an earlier attempt.
Explained(s, verdict) ==
  verdict = "completed" => \A m \in scan[s].selected :
    Status(s, m) = "done" /\ run[s][m].noted => run[s][m].attempts > 1

\* Where execute_scan is with a scan that still exists.
InProgress(w) ==
  LET j == job[w]
      s == j.scan
  IN /\ j.pc = "skip" => j.verdict = "canceled" /\ scan[s].cancel
     /\ j.pc = "finish" => Agrees(s, j.verdict) /\ Explained(s, j.verdict)
     /\ j.pc \notin {"load", "skip", "finish"} =>
          /\ j.todo \subseteq scan[s].selected
          /\ j.pc \in {"begin"} \cup InModule \cup ModuleOver => j.todo # {}
          /\ j.pc \notin {"store", "settle"} => j.out = NoResult
          /\ j.pc = "store" => j.out.ok
          /\ j.verdict = "failed"
          /\ Remembers(w) /\ InHand(w)

LoopInv(w) ==
  /\ FreshLoop(w)
  /\ RunningIsCurrent(w)
  /\ Executing(w) /\ Exists(job[w].scan) => InProgress(w)

\* The rows of a scan come and go with it, one for each module it selected.
RowsFollow(s) ==
  /\ ~Exists(s) => run[s] = [m \in Modules |-> NoRun]
  /\ Exists(s) => \A m \in scan[s].selected : Status(s, m) \in ModuleStatus

\* A scan that was canceled while it was queued, wherever it has got to: its worker has not begun a module and
\* will not before it looks at the request.
Doomed(s) ==
  \/ scan[s].status = "deleted"
  \/ /\ scan[s].cancel
     /\ scan[s].status \in {"queued", "running", "canceled", "failed"}
     /\ \A w \in Workers : Executing(w) /\ job[w].scan = s =>
          \/ job[w].pc \in {"load", "scope", "pubStart", "validate", "check", "skip"}
          \/ job[w].pc = "finish" /\ job[w].verdict \in {"canceled", "failed"}

\* A module that was never begun has a message only if it does not apply or
\* was skipped.
NotedWasBegun(s) ==
  \A m \in Modules :
    /\ Status(s, m) = "running" => run[s][m].attempts > 0
    /\ run[s][m].noted => run[s][m].attempts > 0 \/ m \in Inapplicable \/ Doomed(s)

FindingsStored(s) == \A m \in Modules : run[s][m].rows >= run[s][m].count

RowInv(s) ==
  /\ RowsFollow(s)
  /\ FindingsStored(s)
  /\ Agrees(s, scan[s].status) /\ Explained(s, scan[s].status)
  /\ NotedWasBegun(s)

\* Inductive, on top of QueueInv.
ModulesInv == (\A w \in Workers : LoopInv(w)) /\ (\A s \in Scans : RowInv(s))

-----------------------------------------------------------------------------
(* The runner moves the lock as WorkerLock says *)

\* Every step of the runner is a step of the lock, or leaves the lock alone.
LEMMA RunnerStepIsLockStep == [Next]_vars => [LockNext]_lockVars
<1>1. SUFFICES ASSUME Next PROVE LockNext \/ UNCHANGED lockVars
  BY DEF vars
<1>2. CASE GrowOld
  BY <1>2 DEF GrowOld
<1>3. CASE LapseStep
  BY <1>3 DEF LapseStep, LockNext
<1>4. ASSUME NEW s \in Scans, NEW sel \in SUBSET Modules, CreateScan(s, sel)
      PROVE  UNCHANGED lockVars
  BY <1>4 DEF CreateScan
<1>5. ASSUME NEW s \in Scans, DeleteScan(s) PROVE UNCHANGED lockVars
  BY <1>5 DEF DeleteScan
<1>6. ASSUME NEW w \in Workers, NEW s \in Scans, CancelRead(w, s) PROVE UNCHANGED lockVars
  BY <1>6 DEF CancelRead
<1>7. ASSUME NEW w \in Workers,
             CancelWrite(w) \/ LoopStep(w) \/ RecoverInterrupted(w)
      PROVE  UNCHANGED lockVars
  BY <1>7 DEF CancelWrite, RecoverInterrupted, LoopStep, ClaimRead, ClaimWrite,
     LoadScan, LoadScope, ValidateTarget, CancelCheck, BeginModule, ModuleEnds,
     StoreFindings, SettleModule, MarkRemainingSkipped, Finish, Retain, Publish
<1>8. ASSUME NEW w \in Workers, LockStep(w) PROVE LockNext
  BY <1>8 DEF LockStep, LockNext
<1>9. ASSUME NEW w \in Workers,
             StartLoop(w) \/ Stop(w) \/ StopRaises(w) \/ ProcessDies(w)
      PROVE  LockNext
  BY <1>9 DEF StartLoop, Stop, StopRaises, ProcessDies, LockNext
<1> QED
  BY <1>1, <1>2, <1>3, <1>4, <1>5, <1>6, <1>7, <1>8, <1>9 DEF Next, StartStep

\* The runner implements the lock: whatever is proved of LockSpec holds of it.
THEOREM RunnerImplementsLock == Spec => LockSpec
<1>1. Init => LockInit
  BY DEF Init
<1> QED
  BY <1>1, RunnerStepIsLockStep, PTL DEF Spec, LockSpec

\* While no live owner's heartbeat lapses and no two starts race for a stale
\* row, the processes of the queue take turns.
THEOREM OneProcessRunsTheQueue ==
  ASSUME ~RacingStarts, ~LiveLapses
  PROVE  Spec => [](LockInv /\ AtMostOneWorker)
BY RunnerImplementsLock, LockInvHolds, OneWorkerOnly, PTL

-----------------------------------------------------------------------------
(* Types *)

Busy == Pcs \ Between
Outcome == [ok : BOOLEAN, found : 0..1, warn : BOOLEAN]

\* A loop stays well-formed when it starts afresh and when it moves on with
\* its scan, whatever else it then learns.
LEMMA JobMoves ==
  /\ \A p \in Between : NoJob(p) \in Job
  /\ \A j \in Job, p \in Pcs :
       (j.pc \in Between <=> p \in Between) => [j EXCEPT !.pc = p] \in Job
  /\ \A j \in Job, s \in Scans : [j EXCEPT !.pc = "claim", !.scan = s] \in Job
  /\ \A j \in Job, p \in Busy : j.pc \in Busy =>
       /\ \A t \in SUBSET Modules : [j EXCEPT !.pc = p, !.todo = t] \in Job
       /\ \A v \in TerminalScan : [j EXCEPT !.pc = p, !.verdict = v] \in Job
       /\ \A o \in Outcome : [j EXCEPT !.pc = p, !.out = o] \in Job
       /\ \A b \in BOOLEAN, o \in Outcome :
            [j EXCEPT !.pc = p, !.ok = TRUE, !.bad = b, !.out = o] \in Job
       /\ [j EXCEPT !.pc = p, !.bad = TRUE] \in Job
<1>1. \A p \in Between : NoJob(p) \in Job
  BY DEF NoJob, NoResult, Job, JobRecord, TerminalScan, NoScan, Between, Pcs
<1>2. ASSUME NEW j \in Job, NEW p \in Pcs, j.pc \in Between <=> p \in Between
      PROVE  [j EXCEPT !.pc = p] \in Job
  BY <1>2 DEF Job, JobRecord
<1>3. ASSUME NEW j \in Job, NEW s \in Scans
      PROVE  [j EXCEPT !.pc = "claim", !.scan = s] \in Job
  <2>1. s # NoScan /\ "claim" \in Pcs \ Between
    BY ScanRunnerAssumption DEF Scans, NoScan, Pcs, Between
  <2> QED
    BY <2>1 DEF Job, JobRecord
<1>4. \A j \in Job, p \in Busy : j.pc \in Busy =>
        /\ \A t \in SUBSET Modules : [j EXCEPT !.pc = p, !.todo = t] \in Job
        /\ \A v \in TerminalScan : [j EXCEPT !.pc = p, !.verdict = v] \in Job
        /\ \A o \in Outcome : [j EXCEPT !.pc = p, !.out = o] \in Job
        /\ \A b \in BOOLEAN, o \in Outcome :
             [j EXCEPT !.pc = p, !.ok = TRUE, !.bad = b, !.out = o] \in Job
        /\ [j EXCEPT !.pc = p, !.bad = TRUE] \in Job
  <2> TAKE j \in Job, p \in Busy
  <2>0. HAVE j.pc \in Busy
  <2>1. p \in Pcs /\ p \notin Between /\ j.pc \notin Between
    BY <2>0 DEF Busy
  <2>2. ASSUME NEW t \in SUBSET Modules PROVE [j EXCEPT !.pc = p, !.todo = t] \in Job
    BY <2>1 DEF Job, JobRecord
  <2>3. ASSUME NEW v \in TerminalScan PROVE [j EXCEPT !.pc = p, !.verdict = v] \in Job
    BY <2>1 DEF Job, JobRecord
  <2>4. ASSUME NEW o \in Outcome PROVE [j EXCEPT !.pc = p, !.out = o] \in Job
    BY <2>1 DEF Job, JobRecord, Outcome
  <2>5. ASSUME NEW b \in BOOLEAN, NEW o \in Outcome
        PROVE  [j EXCEPT !.pc = p, !.ok = TRUE, !.bad = b, !.out = o] \in Job
    BY <2>1 DEF Job, JobRecord, Outcome
  <2>6. [j EXCEPT !.pc = p, !.bad = TRUE] \in Job
    BY <2>1 DEF Job, JobRecord
  <2> QED
    BY <2>2, <2>3, <2>4, <2>5, <2>6
<1> QED
  BY <1>1, <1>2, <1>3, <1>4

\* The moves that most steps of a loop are made of.
LEMMA JobSteps ==
  ASSUME NEW w \in Workers, job \in [Workers -> Job]
  PROVE  /\ \A p \in Pcs : Goto(w, p) /\ (job[w].pc \in Between <=> p \in Between)
                             => job' \in [Workers -> Job]
         /\ \A p \in Between : job' = [job EXCEPT ![w] = NoJob(p)]
                                 => job' \in [Workers -> Job]
         /\ Die(w) => job' \in [Workers -> Job]
<1>1. ASSUME NEW p \in Pcs, Goto(w, p), job[w].pc \in Between <=> p \in Between
      PROVE  job' \in [Workers -> Job]
  <2>1. [job[w] EXCEPT !.pc = p] \in Job
    BY <1>1, JobMoves
  <2> QED
    BY <1>1, <2>1 DEF Goto
<1>2. ASSUME NEW p \in Between, job' = [job EXCEPT ![w] = NoJob(p)]
      PROVE  job' \in [Workers -> Job]
  BY <1>2, JobMoves
<1>3. "dead" \in Between
  BY DEF Between
<1> QED
  BY <1>1, <1>2, <1>3 DEF Die

\* Deleting scans, and writing one module run, keep the types of the rows.
LEMMA RowsMove ==
  ASSUME scan \in [Scans -> ScanRow], run \in [Scans -> [Modules -> ModuleRunRow]]
  PROVE  /\ \A gone : ScansWithout(gone) \in [Scans -> ScanRow]
         /\ \A gone : RunsWithout(gone) \in [Scans -> [Modules -> ModuleRunRow]]
         /\ \A s \in Scans : \A m, r :
              (m \in Modules => r \in ModuleRunRow) /\ WriteRun(s, m, r)
                => run' \in [Scans -> [Modules -> ModuleRunRow]]
<1>1. Blank("deleted") \in ScanRow /\ NoRun \in ModuleRunRow
  BY DEF Blank, NoRun, ScanRow, ModuleRunRow, ModuleStatus
<1> QED
  BY <1>1 DEF ScansWithout, RunsWithout, WriteRun


\* Requests, retention and the start of a process.
LEMMA RequestTypes ==
  ASSUME TypeOK
  PROVE  /\ GrowOld \/ LapseStep => RowsOK' /\ LoopsOK'
         /\ \A s \in Scans, sel \in SUBSET Modules : CreateScan(s, sel) => RowsOK' /\ LoopsOK'
         /\ \A s \in Scans : DeleteScan(s) => RowsOK' /\ LoopsOK'
         /\ \A w \in Workers, s \in Scans : CancelRead(w, s) => RowsOK' /\ LoopsOK'
         /\ \A w \in Workers : CancelWrite(w) \/ StartStep(w) => RowsOK' /\ LoopsOK'
<1> USE DEF TypeOK, RowsOK, LoopsOK
<1>1. ASSUME GrowOld \/ LapseStep PROVE RowsOK' /\ LoopsOK'
  BY <1>1 DEF GrowOld, LapseStep, dbVars
<1>2. ASSUME NEW s \in Scans, NEW sel \in SUBSET Modules, CreateScan(s, sel)
      PROVE  RowsOK' /\ LoopsOK'
  <2>1. [Blank("queued") EXCEPT !.selected = sel] \in ScanRow
    BY DEF Blank, ScanRow, ScanStatus
  <2>2. NoRun \in ModuleRunRow
    BY DEF NoRun, ModuleRunRow, ModuleStatus
  <2>3. \A r \in ModuleRunRow : [r EXCEPT !.status = "queued"] \in ModuleRunRow
    BY DEF ModuleRunRow, ModuleStatus
  <2> QED
    BY <1>2, <2>1, <2>2, <2>3 DEF CreateScan
<1>3. ASSUME NEW s \in Scans, DeleteScan(s) PROVE RowsOK' /\ LoopsOK'
  BY <1>3, RowsMove DEF DeleteScan
<1>4. ASSUME NEW w \in Workers, NEW s \in Scans, CancelRead(w, s) PROVE RowsOK' /\ LoopsOK'
  BY <1>4 DEF CancelRead, dbVars
<1>5. ASSUME NEW w \in Workers, CancelWrite(w) PROVE RowsOK' /\ LoopsOK'
  <2>1. \A r \in ScanRow : [r EXCEPT !.cancel = TRUE] \in ScanRow
    BY DEF ScanRow
  <2> QED
    BY <1>5, <2>1 DEF CancelWrite
<1>6. ASSUME NEW w \in Workers, RecoverInterrupted(w) PROVE RowsOK' /\ LoopsOK'
  <2>1. \A r \in ModuleRunRow :
          [r EXCEPT !.status = "interrupted", !.noted = TRUE] \in ModuleRunRow
    BY DEF ModuleRunRow, ModuleStatus, TerminalModule
  <2>2. \A s \in Scans : Requeued(s) \in ScanRow
    BY ZenonT(40) DEF Requeued, ScanRow, ScanStatus
  <2>3. {"off", "recovered"} \subseteq Between /\ Between \subseteq Pcs
    BY DEF Between, Pcs
  <2>4. job' \in [Workers -> Job]
    BY <1>6, <2>3, JobSteps DEF RecoverInterrupted
  <2> QED
    BY <1>6, <2>1, <2>2, <2>4 DEF RecoverInterrupted
<1>7. ASSUME NEW w \in Workers, StartLoop(w) PROVE RowsOK' /\ LoopsOK'
  <2>1. {"recovered", "idle"} \subseteq Between /\ Between \subseteq Pcs
    BY DEF Between, Pcs
  <2>2. job' \in [Workers -> Job]
    BY <1>7, <2>1, JobSteps DEF StartLoop
  <2> QED
    BY <1>7, <2>2, RowsMove DEF StartLoop, RunRetention
<1> QED
  BY <1>1, <1>2, <1>3, <1>4, <1>5, <1>6, <1>7 DEF StartStep

\* What the loop writes into a module run.
LEMMA ModuleRunWrites ==
  ASSUME NEW r \in ModuleRunRow
  PROVE  /\ [r EXCEPT !.status = "not_applicable", !.noted = TRUE, !.count = 0] \in ModuleRunRow
         /\ [r EXCEPT !.status = "running", !.attempts = r.attempts + 1] \in ModuleRunRow
         /\ [r EXCEPT !.status = "skipped", !.noted = TRUE] \in ModuleRunRow
         /\ \A n \in 0..1 : [r EXCEPT !.rows = r.rows + n] \in ModuleRunRow
         /\ \A st \in {"done", "failed"}, b \in BOOLEAN, n \in 0..1 :
              [r EXCEPT !.status = st, !.noted = b, !.count = n] \in ModuleRunRow
<1> USE DEF ModuleRunRow
<1>1. {"not_applicable", "running", "skipped", "done", "failed"} \subseteq ModuleStatus
  BY DEF ModuleStatus, TerminalModule
<1>2. ASSUME NEW st \in ModuleStatus, NEW b \in BOOLEAN, NEW n \in 0..1
      PROVE  [r EXCEPT !.status = st, !.noted = b, !.count = n] \in ModuleRunRow
  OBVIOUS
<1>3. ASSUME NEW st \in ModuleStatus, NEW k \in Nat
      PROVE  [r EXCEPT !.status = st, !.attempts = k] \in ModuleRunRow
  OBVIOUS
<1>4. ASSUME NEW st \in ModuleStatus, NEW b \in BOOLEAN
      PROVE  [r EXCEPT !.status = st, !.noted = b] \in ModuleRunRow
  OBVIOUS
<1>5. ASSUME NEW n \in 0..1 PROVE [r EXCEPT !.rows = r.rows + n] \in ModuleRunRow
  OBVIOUS
<1>6. r.attempts + 1 \in Nat /\ 0 \in 0..1
  OBVIOUS
<1> HIDE DEF ModuleRunRow
<1> QED
  BY <1>1, <1>2, <1>3, <1>4, <1>5, <1>6

\* The steps of the loop.
LEMMA LoopTypes ==
  ASSUME TypeOK, NEW w \in Workers, LoopStep(w)
  PROVE  RowsOK' /\ LoopsOK'
<1> USE DEF TypeOK, RowsOK, LoopsOK, At
<1>1. /\ Between \subseteq Pcs /\ "idle" \in Between /\ Pcs \ Between = Busy
      /\ {"claim", "load", "scope", "pubStart", "validate", "check", "begin", "pubNA",
          "pubRun", "module", "store", "settle", "pubMod", "pubFoot", "skip", "finish",
          "pubEnd", "retain"} \subseteq Busy
  BY DEF Between, Pcs, Busy
<1>2. job[w] \in Job /\ (job[w].pc \in Busy => job[w].scan \in Scans)
  BY <1>1 DEF Job, JobRecord, Busy
<1>3. /\ \A p \in Busy : Goto(w, p) /\ job[w].pc \in Busy => job' \in [Workers -> Job]
      /\ job' = [job EXCEPT ![w] = NoJob("idle")] => job' \in [Workers -> Job]
      /\ Die(w) => job' \in [Workers -> Job]
  BY <1>1, JobSteps
<1>4. CASE ClaimRead(w)
  <2>1. PICK s \in Scans : job' = [job EXCEPT ![w] = [job[w] EXCEPT !.pc = "claim", !.scan = s]]
    BY <1>4 DEF ClaimRead, Queued
  <2>2. [job[w] EXCEPT !.pc = "claim", !.scan = s] \in Job
    BY <1>2, JobMoves
  <2>3. job' \in [Workers -> Job]
    BY <2>1, <2>2
  <2> QED
    BY <1>4, <2>3 DEF ClaimRead, dbVars
<1>5. CASE ClaimWrite(w)
  <2>1. \A r \in ScanRow : [r EXCEPT !.status = "running", !.owner = w] \in ScanRow
    BY DEF ScanRow, ScanStatus
  <2>2. job' \in [Workers -> Job]
    BY <1>5, <1>1, <1>3 DEF ClaimWrite
  <2>3. CASE UNCHANGED scan
    BY <1>5, <2>2, <2>3 DEF ClaimWrite
  <2>4. CASE scan' = [scan EXCEPT ![job[w].scan].status = "running", ![job[w].scan].owner = w]
    <3>1. scan' = [scan EXCEPT ![job[w].scan] =
                     [scan[job[w].scan] EXCEPT !.status = "running", !.owner = w]]
      BY <1>1, <1>2, <1>5, <2>4 DEF ClaimWrite
    <3>2. scan' \in [Scans -> ScanRow]
      BY <1>1, <1>2, <1>5, <2>1, <3>1 DEF ClaimWrite
    <3> QED
      BY <1>5, <2>2, <3>2 DEF ClaimWrite
  <2> QED
    BY <1>5, <2>3, <2>4 DEF ClaimWrite
<1>6. CASE LoadScan(w)
  <2>1. job[w].scan \in Scans
    BY <1>1, <1>2, <1>6 DEF LoadScan
  <2>2. scan[job[w].scan].selected \in SUBSET Modules
    BY <2>1 DEF ScanRow
  <2> DEFINE t == scan[job[w].scan].selected
  <2>3. job[w].pc \in Busy /\ "scope" \in Busy
    BY <1>1, <1>6 DEF LoadScan
  <2> HIDE DEF t
  <2>4. [job[w] EXCEPT !.pc = "scope", !.todo = t] \in Job
    BY <1>2, <2>2, <2>3, JobMoves DEF t
  <2>5. job' \in [Workers -> Job]
    <3>1. CASE Exists(job[w].scan)
      <4>1. job' = [job EXCEPT ![w] =
                     [job[w] EXCEPT !.pc = "scope", !.todo = t]]
        BY <1>6, <3>1 DEF LoadScan, t
      <4> QED
        BY <2>4, <4>1
    <3>2. CASE ~Exists(job[w].scan)
      BY <1>3, <1>6, <3>2 DEF LoadScan
    <3> QED
      BY <3>1, <3>2
  <2> QED
    BY <1>6, <2>5 DEF LoadScan, dbVars
<1>7. CASE LoadScope(w) \/ ValidateTarget(w)
  <2>1. job' \in [Workers -> Job]
    BY <1>1, <1>3, <1>7 DEF LoadScope, ValidateTarget
  <2> QED
    BY <1>7, <2>1 DEF LoadScope, ValidateTarget, dbVars
<1>8. CASE CancelCheck(w)
  <2>1. "canceled" \in TerminalScan /\ Verdict(w) \in TerminalScan
    BY DEF Verdict, TerminalScan
  <2>2. /\ [job[w] EXCEPT !.pc = "skip", !.verdict = "canceled"] \in Job
        /\ [job[w] EXCEPT !.pc = "finish", !.verdict = Verdict(w)] \in Job
        /\ [job[w] EXCEPT !.pc = "begin"] \in Job
    BY <1>1, <1>2, <1>8, <2>1, JobMoves DEF CancelCheck, Busy
  <2>3. job' \in [Workers -> Job]
    BY <1>8, <2>2 DEF CancelCheck
  <2> QED
    BY <1>8, <2>3 DEF CancelCheck, dbVars
<1>9. CASE BeginModule(w)
  <2> DEFINE m == NextModule(w)
             r == run[job[w].scan][m]
  <2>1. job' \in [Workers -> Job]
    BY <1>1, <1>3, <1>9 DEF BeginModule
  <2>2. job[w].scan \in Scans
    BY <1>1, <1>2, <1>9 DEF BeginModule
  <2>3. m \in Modules => r \in ModuleRunRow
    BY <2>2
  <2> HIDE DEF r
  <2>4. m \in Modules =>
          /\ [r EXCEPT !.status = "not_applicable", !.noted = TRUE, !.count = 0] \in ModuleRunRow
          /\ [r EXCEPT !.status = "running", !.attempts = r.attempts + 1] \in ModuleRunRow
    BY <2>3, ModuleRunWrites
  <2>5. run' \in [Scans -> [Modules -> ModuleRunRow]]
    BY <1>9, <2>2, <2>4, RowsMove DEF BeginModule, r
  <2> QED
    BY <1>9, <2>1, <2>5 DEF BeginModule
<1>10. CASE ModuleEnds(w)
  <2>1. job[w].pc \in Busy /\ {"settle", "store"} \subseteq Busy
    BY <1>1, <1>10 DEF ModuleEnds
  <2>2. ASSUME NEW found \in 0..1, NEW warn \in BOOLEAN,
               job' = [job EXCEPT ![w].pc = IF found = 0 THEN "settle" ELSE "store",
                                  ![w].ok = TRUE,
                                  ![w].bad = @ \/ warn,
                                  ![w].out = [ok |-> TRUE, found |-> found, warn |-> warn]]
        PROVE  job' \in [Workers -> Job]
    <3> DEFINE p == IF found = 0 THEN "settle" ELSE "store"
               b == job[w].bad \/ warn
               o == [ok |-> TRUE, found |-> found, warn |-> warn]
    <3>1. p \in Busy /\ b \in BOOLEAN /\ o \in Outcome
      BY <2>1 DEF Outcome
    <3> HIDE DEF p, b, o
    <3>2. job' = [job EXCEPT ![w] = [job[w] EXCEPT !.pc = p, !.ok = TRUE, !.bad = b, !.out = o]]
      BY <2>2 DEF p, b, o
    <3>3. [job[w] EXCEPT !.pc = p, !.ok = TRUE, !.bad = b, !.out = o] \in Job
      BY <1>2, <2>1, <3>1, JobMoves
    <3> QED
      BY <3>2, <3>3
  <2>3. ASSUME job' = [job EXCEPT ![w].pc = "settle", ![w].bad = TRUE]
        PROVE  job' \in [Workers -> Job]
    <3>1. job' = [job EXCEPT ![w] = [job[w] EXCEPT !.pc = "settle", !.bad = TRUE]]
      BY <2>3
    <3>2. [job[w] EXCEPT !.pc = "settle", !.bad = TRUE] \in Job
      BY <1>2, <2>1, JobMoves
    <3> QED
      BY <3>1, <3>2
  <2>4. job' \in [Workers -> Job]
    BY <1>3, <1>10, <2>2, <2>3 DEF ModuleEnds
  <2> QED
    BY <1>10, <2>4 DEF ModuleEnds, dbVars
<1>11. CASE StoreFindings(w)
  <2> DEFINE s == job[w].scan
             m == NextModule(w)
  <2>1. job' \in [Workers -> Job]
    BY <1>1, <1>3, <1>11 DEF StoreFindings
  <2>2. s \in Scans /\ job[w].out.found \in 0..1
    BY <1>1, <1>2, <1>11 DEF StoreFindings, Job, JobRecord
  <2> DEFINE q == run[s][m]
             n == job[w].out.found
             R == [q EXCEPT !.rows = q.rows + n]
  <2>3. (m \in Modules => q \in ModuleRunRow) /\ n \in 0..1
    BY <2>2
  <2>4. UNCHANGED run \/ run' = [run EXCEPT ![s] = [run[s] EXCEPT ![m] = R]]
    BY <1>11 DEF StoreFindings
  <2> HIDE DEF s, m, q, n
  <2>5. m \in Modules => R \in ModuleRunRow
    BY <2>3, ModuleRunWrites
  <2> HIDE DEF R
  <2>6. run' \in [Scans -> [Modules -> ModuleRunRow]]
    <3>1. [run[s] EXCEPT ![m] = R] \in [Modules -> ModuleRunRow]
      BY <2>2, <2>5, ZenonT(40)
    <3> QED
      BY <2>2, <2>4, <3>1
  <2> QED
    BY <1>11, <2>1, <2>6 DEF StoreFindings
<1>12. CASE SettleModule(w)
  <2> DEFINE s == job[w].scan
             m == NextModule(w)
             q == run[s][m]
             out == job[w].out
             st == IF out.ok THEN "done" ELSE "failed"
             b == q.noted \/ ~out.ok \/ out.warn
             R == [q EXCEPT !.status = st, !.noted = b, !.count = out.found]
  <2>1. s \in Scans /\ out \in Outcome /\ job[w].pc \in Busy
    BY <1>1, <1>2, <1>12 DEF SettleModule, Job, JobRecord, Outcome
  <2>2. (m \in Modules => q \in ModuleRunRow) /\ st \in {"done", "failed"} /\ out.found \in 0..1
    BY <2>1 DEF Outcome
  <2>3. m \in Modules => b \in BOOLEAN
    BY <2>1, <2>2 DEF Outcome, ModuleRunRow
  <2>4. WriteRun(s, m, R) /\ job' = [job EXCEPT ![w].pc = "pubMod", ![w].out = NoResult]
    BY <1>12 DEF SettleModule
  <2>5. job' \in [Workers -> Job]
    <3>1. job' = [job EXCEPT ![w] = [job[w] EXCEPT !.pc = "pubMod", !.out = NoResult]]
      BY <2>4
    <3>2. NoResult \in Outcome
      BY DEF NoResult, Outcome
    <3>3. [job[w] EXCEPT !.pc = "pubMod", !.out = NoResult] \in Job
      BY <1>1, <1>2, <2>1, <3>2, JobMoves
    <3> QED
      BY <3>1, <3>3
  <2> HIDE DEF s, m, q, out, st, b
  <2>6. m \in Modules => R \in ModuleRunRow
    BY <2>2, <2>3, ModuleRunWrites
  <2> HIDE DEF R
  <2>7. run' \in [Scans -> [Modules -> ModuleRunRow]]
    BY <2>1, <2>4, <2>6, RowsMove
  <2> QED
    BY <1>12, <2>5, <2>7 DEF SettleModule
<1>13. CASE MarkRemainingSkipped(w)
  <2>1. job' \in [Workers -> Job]
    BY <1>1, <1>3, <1>13 DEF MarkRemainingSkipped
  <2>2. \A r \in ModuleRunRow :
          [r EXCEPT !.status = "skipped", !.noted = TRUE] \in ModuleRunRow
    BY ModuleRunWrites
  <2>3. job[w].scan \in Scans
    BY <1>1, <1>2, <1>13 DEF MarkRemainingSkipped
  <2>4. run' \in [Scans -> [Modules -> ModuleRunRow]]
    BY <1>13, <2>2, <2>3 DEF MarkRemainingSkipped
  <2> QED
    BY <1>13, <2>1, <2>4 DEF MarkRemainingSkipped
<1>14. CASE Finish(w)
  <2>1. job' \in [Workers -> Job]
    BY <1>1, <1>3, <1>14 DEF Finish
  <2>2. job[w].scan \in Scans /\ job[w].verdict \in TerminalScan
    BY <1>1, <1>2, <1>14 DEF Finish, Job, JobRecord
  <2>3. \A r \in ScanRow, v \in TerminalScan : [r EXCEPT !.status = v] \in ScanRow
    BY DEF ScanRow, ScanStatus
  <2>4. scan' \in [Scans -> ScanRow]
    BY <1>14, <2>2, <2>3 DEF Finish
  <2> QED
    BY <1>14, <2>1, <2>4 DEF Finish
<1>15. CASE Retain(w)
  <2>1. job' \in [Workers -> Job]
    BY <1>3, <1>15 DEF Retain
  <2> QED
    BY <1>15, <2>1, RowsMove DEF Retain, RunRetention
<1>16. CASE Publish(w)
  <2>1. job[w].pc \in Busy
    BY <1>1, <1>16 DEF Publish, AfterPublish
  <2>2. ASSUME Published(w) PROVE job' \in [Workers -> Job]
    <3> DEFINE p == AfterPublish[job[w].pc]
               t == IF job[w].pc \in {"pubNA", "pubFoot"}
                    THEN job[w].todo \ {NextModule(w)} ELSE job[w].todo
    <3>1. p \in Busy
      BY <1>1, <1>16 DEF Publish, AfterPublish
    <3>2. t \in SUBSET Modules
      BY <1>2 DEF Job, JobRecord
    <3>3. job' = [job EXCEPT ![w] = [job[w] EXCEPT !.pc = p, !.todo = t]]
      BY <2>2 DEF Published
    <3> HIDE DEF p, t
    <3>4. [job[w] EXCEPT !.pc = p, !.todo = t] \in Job
      BY <1>2, <2>1, <3>1, <3>2, JobMoves
    <3> QED
      BY <3>3, <3>4
  <2>3. job' \in [Workers -> Job]
    BY <1>3, <1>16, <2>2 DEF Publish
  <2> QED
    BY <1>16, <2>3 DEF Publish, dbVars
<1> QED
  BY <1>4, <1>5, <1>6, <1>7, <1>8, <1>9, <1>10, <1>11, <1>12, <1>13, <1>14, <1>15, <1>16
     DEF LoopStep

\* The type invariant is inductive, whatever lapses and races happen.
LEMMA RunnerTypeStep == TypeOK /\ [Next]_vars => TypeOK'
<1>1. CASE UNCHANGED vars
  BY <1>1 DEF vars, dbVars, lockVars, TypeOK, LockTypeOK, RowsOK, LoopsOK
<1>2. ASSUME TypeOK, Next PROVE TypeOK'
  <2>1. LockTypeOK'
    BY <1>2, RunnerStepIsLockStep, LockTypeStep DEF TypeOK
  <2>2. ASSUME NEW w \in Workers,
               LockStep(w) \/ Stop(w) \/ StopRaises(w) \/ ProcessDies(w)
        PROVE  RowsOK' /\ LoopsOK'
    <3>1. NoJob("off") \in Job
      BY JobMoves DEF Between
    <3> QED
      BY <1>2, <2>2, <3>1 DEF LockStep, Stop, StopRaises, ProcessDies, ForgetProcess,
         dbVars, TypeOK, RowsOK, LoopsOK
  <2>3. RowsOK' /\ LoopsOK'
    BY <1>2, <2>2, RequestTypes, LoopTypes DEF Next
  <2> QED
    BY <2>1, <2>3 DEF TypeOK
<1> QED
  BY <1>1, <1>2

\* Type correctness of the queue: rows, loops and pending requests stay in
\* their types, and a loop has a scan exactly while it works on one.
THEOREM RunnerTypeCorrect == Spec => []TypeOK
<1>1. Init => TypeOK
  <2>1. NoJob("off") \in Job
    BY JobMoves DEF Between
  <2>2. Blank("none") \in ScanRow /\ NoRun \in ModuleRunRow
    BY DEF Blank, NoRun, ScanRow, ModuleRunRow, ModuleStatus
  <2>3. LockInit => LockTypeOK
    BY WorkerLockAssumption DEF LockInit, LockTypeOK, Phases
  <2> QED
    BY <2>1, <2>2, <2>3 DEF Init, TypeOK, RowsOK, LoopsOK
<1> QED
  BY <1>1, RunnerTypeStep, PTL DEF Spec

-----------------------------------------------------------------------------
(* The queue *)

\* Positions of a loop while it executes a scan, and while it does not.
Work == {"load", "scope", "pubStart", "validate", "check", "begin", "pubNA", "pubRun",
         "module", "store", "settle", "pubMod", "pubFoot", "skip", "finish"}
Rest == {"idle", "claim", "pubEnd", "retain"}

\* What a step of a loop does to its own position and to the scans.
Moves(w) ==
  /\ UNCHANGED scan
  /\ \/ job[w].pc \in Work /\ job'[w].pc \in Work /\ job'[w].scan = job[w].scan
     \/ job'[w].pc = "dead"
     \/ job[w].pc \in Rest /\ job'[w].pc \in Rest
     \/ job[w].pc = "load" /\ ~Exists(job[w].scan) /\ job'[w].pc = "idle"

Claims(w) ==
  /\ job[w].pc = "claim" /\ job'[w].pc \in Work
  /\ job'[w].scan = job[w].scan /\ job[w].scan \in Scans
  /\ scan[job[w].scan].status = "queued"
  /\ scan'[job[w].scan].status = "running" /\ scan'[job[w].scan].owner = w
  /\ \A t \in Scans \ {job[w].scan} : scan'[t] = scan[t]

Ends(w) ==
  /\ job[w].pc = "finish" /\ job'[w].pc = "pubEnd"
  /\ job[w].scan \in Scans
  /\ \/ Exists(job[w].scan) /\ scan'[job[w].scan].status \in TerminalScan
     \/ ~Exists(job[w].scan) /\ scan'[job[w].scan] = scan[job[w].scan]
  /\ \A t \in Scans \ {job[w].scan} : scan'[t] = scan[t]

Sweeps ==
  \A t \in Scans : scan'[t] = scan[t] \/ (Terminal(t) /\ scan'[t].status = "deleted")

\* Retention deletes nothing but finished scans.
LEMMA RetentionSweeps == RowsOK /\ RunRetention => Sweeps
BY DEF RowsOK, RunRetention, ScansWithout, Swept, Sweeps, Blank

LEMMA LoopKinds ==
  ASSUME TypeOK, NEW w \in Workers, LoopStep(w)
  PROVE  /\ phase[w] = "up" /\ UNCHANGED lockVars
         /\ \A v \in Workers \ {w} : job'[v] = job[v]
         /\ \/ Moves(w) \/ Claims(w) \/ Ends(w)
            \/ job[w].pc = "retain" /\ job'[w].pc = "idle" /\ Sweeps
<1> USE DEF At
<1>1. job \in [Workers -> Job] /\ scan \in [Scans -> ScanRow]
  BY DEF TypeOK, LoopsOK, RowsOK
<1>2. job[w] \in JobRecord /\ (job[w].pc \notin Between => job[w].scan \in Scans)
  BY <1>1 DEF Job, JobRecord
<1>3. phase[w] = "up" /\ UNCHANGED lockVars
  BY DEF LoopStep, ClaimRead, ClaimWrite, LoadScan, LoadScope, ValidateTarget, CancelCheck,
     BeginModule, ModuleEnds, StoreFindings, SettleModule, MarkRemainingSkipped, Finish,
     Retain, Publish
<1>4. CASE ClaimRead(w)
  BY <1>1, <1>2, <1>3, <1>4 DEF ClaimRead, dbVars, Moves, Rest
<1>5. CASE ClaimWrite(w)
  <2>1. job[w].scan \in Scans
    BY <1>2, <1>5 DEF ClaimWrite, Between
  <2>2. CASE scan[job[w].scan].status = "queued"
    BY <1>1, <1>2, <1>3, <1>5, <2>1, <2>2
       DEF ClaimWrite, Claims, Goto, Work, JobRecord, ScanRow
  <2>3. CASE scan[job[w].scan].status # "queued"
    BY <1>1, <1>2, <1>3, <1>5, <2>3 DEF ClaimWrite, Moves, NoJob, Rest
  <2> QED
    BY <2>2, <2>3
<1>6. CASE LoadScan(w)
  <2>1. CASE Exists(job[w].scan)
    BY <1>1, <1>2, <1>3, <1>6, <2>1 DEF LoadScan, dbVars, Moves, Work, JobRecord
  <2>2. CASE ~Exists(job[w].scan)
    BY <1>1, <1>2, <1>3, <1>6, <2>2 DEF LoadScan, dbVars, Moves, NoJob
  <2> QED
    BY <2>1, <2>2
<1>7. ASSUME NEW p \in Work, Goto(w, p), UNCHANGED scan, job[w].pc \in Work
      PROVE  Moves(w) /\ \A v \in Workers \ {w} : job'[v] = job[v]
  BY <1>1, <1>2, <1>7 DEF Goto, Moves, JobRecord
<1>8. ASSUME Die(w), UNCHANGED scan
      PROVE  Moves(w) /\ \A v \in Workers \ {w} : job'[v] = job[v]
  BY <1>1, <1>8 DEF Die, NoJob, Moves
<1>9. CASE LoadScope(w) \/ ValidateTarget(w)
  BY <1>3, <1>7, <1>8, <1>9 DEF LoadScope, ValidateTarget, dbVars, Work
<1>10. CASE CancelCheck(w)
  BY <1>1, <1>2, <1>3, <1>10 DEF CancelCheck, dbVars, Moves, Work, JobRecord
<1>11. CASE BeginModule(w) \/ StoreFindings(w) \/ MarkRemainingSkipped(w)
  BY <1>3, <1>7, <1>8, <1>11 DEF BeginModule, StoreFindings, MarkRemainingSkipped, Work
<1>12. CASE ModuleEnds(w)
  <2>1. CASE Die(w)
    BY <1>3, <1>8, <1>12, <2>1 DEF ModuleEnds, dbVars
  <2>2. CASE ~Die(w)
    <3>1. UNCHANGED scan /\ job[w].pc \in Work
      BY <1>12 DEF ModuleEnds, dbVars, Work
    <3>2. /\ job'[w].pc \in {"store", "settle"} /\ job'[w].scan = job[w].scan
          /\ \A v \in Workers \ {w} : job'[v] = job[v]
      <4>1. CASE job' = [job EXCEPT ![w].pc = "settle", ![w].bad = TRUE]
        BY <1>1, <1>2, <4>1 DEF JobRecord
      <4>2. ASSUME NEW found \in 0..1, NEW warn \in BOOLEAN,
                   job' = [job EXCEPT ![w].pc = IF found = 0 THEN "settle" ELSE "store",
                                      ![w].ok = TRUE,
                                      ![w].bad = @ \/ warn,
                                      ![w].out = [ok |-> TRUE, found |-> found, warn |-> warn]]
            PROVE  /\ job'[w].pc \in {"store", "settle"} /\ job'[w].scan = job[w].scan
                   /\ \A v \in Workers \ {w} : job'[v] = job[v]
        <5> DEFINE p == IF found = 0 THEN "settle" ELSE "store"
                   b == job[w].bad \/ warn
                   o == [ok |-> TRUE, found |-> found, warn |-> warn]
        <5>1. p \in {"store", "settle"}
          OBVIOUS
        <5> HIDE DEF p, b, o
        <5>2. job' = [job EXCEPT ![w] =
                       [job[w] EXCEPT !.pc = p, !.ok = TRUE, !.bad = b, !.out = o]]
          BY <4>2 DEF p, b, o
        <5> QED
          BY <1>1, <1>2, <5>1, <5>2 DEF JobRecord
      <4> QED
        BY <1>12, <2>2, <4>1, <4>2 DEF ModuleEnds
    <3> QED
      BY <1>3, <3>1, <3>2 DEF Moves, Work
  <2> QED
    BY <2>1, <2>2
<1>13. CASE SettleModule(w)
  BY <1>1, <1>2, <1>3, <1>13 DEF SettleModule, Moves, Work, JobRecord
<1>14. CASE Finish(w)
  <2>1. job[w].scan \in Scans /\ job[w].verdict \in TerminalScan
    BY <1>2, <1>14 DEF Finish, Between, JobRecord
  <2>2. job'[w].pc = "pubEnd" /\ \A v \in Workers \ {w} : job'[v] = job[v]
    BY <1>1, <1>2, <1>14 DEF Finish, Goto, JobRecord
  <2>3. Ends(w)
    BY <1>1, <1>14, <2>1, <2>2 DEF Finish, Ends, ScanRow
  <2> QED
    BY <1>3, <2>2, <2>3
<1>15. CASE Retain(w)
  <2>1. Sweeps
    BY <1>15, RetentionSweeps DEF Retain, TypeOK
  <2>2. job[w].pc = "retain" /\ job'[w].pc = "idle" /\ \A v \in Workers \ {w} : job'[v] = job[v]
    BY <1>1, <1>15 DEF Retain, NoJob
  <2> QED
    BY <1>3, <2>1, <2>2
<1>16. CASE Publish(w)
  <2>1. UNCHANGED scan /\ job[w].pc \in DOMAIN AfterPublish
    BY <1>16 DEF Publish, dbVars
  <2>2. CASE Die(w)
    BY <1>3, <1>8, <2>1, <2>2
  <2>3. CASE Published(w)
    <3>1. /\ job'[w].pc = AfterPublish[job[w].pc] /\ job'[w].scan = job[w].scan
          /\ \A v \in Workers \ {w} : job'[v] = job[v]
      BY <1>1, <1>2, <2>3 DEF Published, JobRecord
    <3>2. Moves(w)
      BY <2>1, <3>1 DEF AfterPublish, Moves, Work, Rest
    <3> QED
      BY <1>3, <3>1, <3>2
  <2> QED
    BY <1>16, <2>2, <2>3 DEF Publish
<1> QED
  BY <1>4, <1>5, <1>6, <1>9, <1>10, <1>11, <1>12, <1>13, <1>14, <1>15, <1>16 DEF LoopStep

\* The steps of a loop preserve the invariant of the queue.
LEMMA LoopKeepsQueue ==
  ASSUME TypeOK, AtMostOneWorker, QueueInv, NEW w \in Workers, LoopStep(w)
  PROVE  QueueInv'
<1>1. /\ phase[w] = "up" /\ UNCHANGED lockVars
      /\ \A v \in Workers \ {w} : job'[v] = job[v]
      /\ \/ Moves(w) \/ Claims(w) \/ Ends(w)
         \/ job[w].pc = "retain" /\ job'[w].pc = "idle" /\ Sweeps
  BY LoopKinds
<1>2. \A v \in Workers \ {w} : phase[v] \notin {"locked", "up"}
  BY <1>1 DEF AtMostOneWorker, Working
<1>3. UNCHANGED phase
  BY <1>1 DEF lockVars
<1>4. job'[w].pc \notin {"off", "recovered"}
  BY <1>1 DEF Moves, Claims, Ends, Work, Rest
<1>5. LoopNeedsProcess' /\ CleanAfterRecovery'
  BY <1>1, <1>2, <1>3, <1>4 DEF QueueInv, LoopNeedsProcess, CleanAfterRecovery
<1> DEFINE Busy0 == job[w].pc \notin {"idle", "claim", "pubEnd", "retain", "dead"}
           Busy1 == job'[w].pc \notin {"idle", "claim", "pubEnd", "retain", "dead"}
<1>6. /\ Busy0 /\ scan[job[w].scan].status \in ScanStatus =>
           scan[job[w].scan].status = "running" /\ scan[job[w].scan].owner = w
      /\ job[w].pc # "dead" => \A s \in Scans :
           scan[s].status = "running" => Busy0 /\ job[w].scan = s
      /\ Busy0 => scan[job[w].scan].status # "none"
  BY <1>1 DEF QueueInv, ExecutesCreated, ExecutesOwnClaim, NoOrphanedScan, Executing, Exists
<1>7. /\ Busy1 /\ scan'[job'[w].scan].status \in ScanStatus =>
           scan'[job'[w].scan].status = "running" /\ scan'[job'[w].scan].owner = w
      /\ job'[w].pc # "dead" => \A s \in Scans :
           scan'[s].status = "running" => Busy1 /\ job'[w].scan = s
      /\ Busy1 => scan'[job'[w].scan].status # "none"
  <2>1. CASE Moves(w)
    <3>1. scan' = scan
      BY <2>1 DEF Moves
    <3>2. CASE job[w].pc \in Work /\ job'[w].pc \in Work /\ job'[w].scan = job[w].scan
      BY <1>6, <3>1, <3>2 DEF Work
    <3>3. CASE job'[w].pc = "dead"
      BY <3>3
    <3>4. CASE job[w].pc \in Rest /\ job'[w].pc \in Rest
      BY <1>6, <3>1, <3>4 DEF Rest
    <3>5. CASE job[w].pc = "load" /\ ~Exists(job[w].scan) /\ job'[w].pc = "idle"
      BY <1>6, <3>1, <3>5 DEF Exists, ScanStatus
    <3> QED
      BY <2>1, <3>2, <3>3, <3>4, <3>5 DEF Moves
  <2>2. CASE Claims(w)
    BY <1>6, <2>2 DEF Claims, Work
  <2>3. CASE Ends(w)
    BY <1>6, <2>3 DEF Ends, Exists, TerminalScan, ScanStatus
  <2>4. CASE job[w].pc = "retain" /\ job'[w].pc = "idle" /\ Sweeps
    BY <1>6, <2>4 DEF Sweeps
  <2> QED
    BY <1>1, <2>1, <2>2, <2>3, <2>4
<1>8. ExecutesCreated' /\ ExecutesOwnClaim' /\ NoOrphanedScan'
  BY <1>2, <1>3, <1>7
     DEF ExecutesCreated, ExecutesOwnClaim, NoOrphanedScan, Executing, Exists
<1> QED
  BY <1>5, <1>8 DEF QueueInv

\* Every step preserves it, as long as one process works at a time.
LEMMA QueueStep ==
  TypeOK /\ AtMostOneWorker /\ QueueInv /\ [Next]_vars => QueueInv'
<1> USE DEF QueueInv, LoopNeedsProcess, CleanAfterRecovery, ExecutesCreated,
            ExecutesOwnClaim, NoOrphanedScan, Executing
<1>1. CASE UNCHANGED vars
  BY <1>1 DEF vars, dbVars, lockVars, Exists
<1>2. ASSUME TypeOK, AtMostOneWorker, QueueInv, Next PROVE QueueInv'
  <2>1. /\ scan \in [Scans -> ScanRow] /\ job \in [Workers -> Job]
        /\ phase \in [Workers -> Phases]
    BY <1>2 DEF TypeOK, RowsOK, LoopsOK, LockTypeOK
  <2>2. CASE GrowOld
    BY <1>2, <2>2 DEF GrowOld, lockVars, Exists
  <2>3. CASE LapseStep
    BY <1>2, <2>3 DEF LapseStep, Lapse, dbVars, Exists
  \* A request changes one row, and leaves it in a state that is not running
  \* unless it was.
  <2>4. ASSUME NEW s \in Scans, UNCHANGED <<lockVars, job>>,
               \A t \in Scans \ {s} : scan'[t] = scan[t],
               \/ scan[s].status = "none" /\ scan'[s].status = "queued"
               \/ scan'[s].status = "deleted"
               \/ scan'[s].status = scan[s].status /\ scan'[s].owner = scan[s].owner
        PROVE  QueueInv'
    <3>1. \A w \in Workers : Executing(w) => job[w].scan \in Scans
      <4> SUFFICES ASSUME NEW w \in Workers, Executing(w) PROVE job[w].scan \in Scans
        OBVIOUS
      <4>1. job[w].pc \notin Between
        BY <1>2 DEF Between
      <4> QED
        BY <2>1, <4>1 DEF Job, JobRecord
    <3>2. phase' = phase /\ job' = job
      BY <2>4 DEF lockVars
    <3>3. LoopNeedsProcess' /\ CleanAfterRecovery'
      BY <1>2, <2>4, <3>2
    <3>4. ExecutesCreated'
      BY <1>2, <2>4, <3>1, <3>2
    <3>5. ExecutesOwnClaim'
      <4> SUFFICES ASSUME NEW w \in Workers, Executing(w),
                          scan'[job[w].scan].status \in ScanStatus
                   PROVE  scan'[job[w].scan].status = "running"
                          /\ scan'[job[w].scan].owner = w
        BY <3>2 DEF Exists
      <4>1. job[w].scan \in Scans /\ scan[job[w].scan].status # "none"
        BY <1>2, <3>1
      <4>2. /\ scan'[job[w].scan].status = scan[job[w].scan].status
            /\ scan'[job[w].scan].owner = scan[job[w].scan].owner
        BY <2>4, <4>1 DEF ScanStatus, TerminalScan
      <4> QED
        BY <1>2, <4>2 DEF Exists
    <3>6. NoOrphanedScan'
      BY <1>2, <2>4, <3>2
    <3> QED
      BY <3>3, <3>4, <3>5, <3>6
  <2>5. ASSUME NEW s \in Scans, NEW sel \in SUBSET Modules, CreateScan(s, sel)
        PROVE  QueueInv'
    BY <2>1, <2>4, <2>5 DEF CreateScan, Blank
  <2>6. ASSUME NEW s \in Scans, DeleteScan(s) PROVE QueueInv'
    BY <2>1, <2>4, <2>6 DEF DeleteScan, ScansWithout, Blank
  <2>7. ASSUME NEW w \in Workers, NEW s \in Scans, CancelRead(w, s) PROVE QueueInv'
    BY <1>2, <2>7 DEF CancelRead, lockVars, dbVars, Exists
  <2>8. ASSUME NEW w \in Workers, CancelWrite(w) PROVE QueueInv'
    <3>1. ask[w] \in Scans
      BY <1>2, <2>8 DEF CancelWrite, TypeOK, LoopsOK
    <3>2. /\ \A t \in Scans \ {ask[w]} : scan'[t] = scan[t]
          /\ scan'[ask[w]].status = scan[ask[w]].status
          /\ scan'[ask[w]].owner = scan[ask[w]].owner
      BY <2>1, <2>8, <3>1 DEF CancelWrite, ScanRow
    <3> QED
      BY <2>4, <2>8, <3>1, <3>2 DEF CancelWrite
  \* A process moves between phases in which it has no loop.
  <2>9. ASSUME NEW w \in Workers, LockStep(w) PROVE QueueInv'
    <3>1. scan' = scan /\ job' = job
      BY <2>9 DEF LockStep, dbVars
    <3>2. \/ phase' = phase
          \/ /\ phase[w] \notin {"locked", "up"}
             /\ \E p \in Phases \ {"up"} : phase' = [phase EXCEPT ![w] = p]
      BY <2>9 DEF LockStep, AcquireReadNone, AcquireReadStale, AcquireRefused,
         AcquireInsert, AcquireTakeOver, Beat, ReleaseDelete, Enter, Phases
    <3>3. CASE phase' = phase
      BY <1>2, <3>1, <3>3 DEF Exists
    <3>4. ASSUME phase[w] \notin {"locked", "up"}, NEW p \in Phases \ {"up"},
                 phase' = [phase EXCEPT ![w] = p]
          PROVE  QueueInv'
      <4>1. /\ phase'[w] # "up" /\ job'[w].pc = "off"
            /\ \A v \in Workers \ {w} : phase'[v] = phase[v] /\ job'[v] = job[v]
        BY <1>2, <2>1, <3>1, <3>4
      <4> QED
        BY <1>2, <3>1, <4>1 DEF Exists
    <3> QED
      BY <3>2, <3>3, <3>4
  \* No other process works: what is running belongs to nobody.
  <2>10. ASSUME NEW w \in Workers, RecoverInterrupted(w) PROVE QueueInv'
    <3>1. /\ phase' = phase /\ phase[w] = "locked"
          /\ \A v \in Workers \ {w} : phase[v] \notin {"locked", "up"} /\ job'[v] = job[v]
          /\ job'[w].pc = "recovered"
      <4>1. phase' = phase /\ phase[w] = "locked" /\ Goto(w, "recovered")
        BY <2>10 DEF RecoverInterrupted, lockVars
      <4>2. \A v \in Workers \ {w} : phase[v] \notin {"locked", "up"}
        BY <1>2, <4>1 DEF AtMostOneWorker, Working
      <4> QED
        BY <2>1, <4>1, <4>2 DEF Goto, Job, JobRecord
    <3>2. \A s \in Scans : scan'[s].status # "running"
      BY <2>1, <2>10 DEF RecoverInterrupted, Requeued, ScanRow
    <3> QED
      BY <1>2, <3>1, <3>2
  <2>11. ASSUME NEW w \in Workers, StartLoop(w) PROVE QueueInv'
    <3>1. /\ phase[w] = "locked" /\ phase'[w] = "up" /\ job'[w].pc = "idle"
          /\ \A v \in Workers \ {w} : /\ phase'[v] = phase[v] /\ job'[v] = job[v]
                                      /\ phase[v] \notin {"locked", "up"}
      BY <1>2, <2>1, <2>11 DEF StartLoop, BecomeUp, Enter, Goto, AtMostOneWorker, Working,
         Job, JobRecord
    <3>2. \A s \in Scans : scan[s].status # "running"
      BY <1>2, <2>11, <3>1 DEF StartLoop
    <3>3. \A s \in Scans : scan'[s].status # "running"
      BY <1>2, <2>11, <3>2, RetentionSweeps DEF StartLoop, Sweeps, TypeOK
    <3> QED
      BY <1>2, <3>1, <3>3
  <2>12. ASSUME NEW w \in Workers, LoopStep(w) PROVE QueueInv'
    BY <1>2, <2>12, LoopKeepsQueue
  <2>13. ASSUME NEW w \in Workers, Stop(w) \/ StopRaises(w) \/ ProcessDies(w)
         PROVE  QueueInv'
    <3>1. /\ scan' = scan
          /\ phase'[w] \notin {"locked", "up"} /\ job'[w].pc = "off"
          /\ \A v \in Workers \ {w} : phase'[v] = phase[v] /\ job'[v] = job[v]
      BY <2>1, <2>13 DEF Stop, StopRaises, ProcessDies, ReleaseRead, Crash, Enter,
         ForgetProcess, NoJob, dbVars
    <3> QED
      BY <1>2, <3>1 DEF Exists
  <2> QED
    BY <1>2, <2>2, <2>3, <2>5, <2>6, <2>7, <2>8, <2>9, <2>10, <2>11, <2>12, <2>13
       DEF Next, StartStep
<1> QED
  BY <1>1, <1>2

\* What the queue and its workers agree on, for any number of processes, scans
\* and modules and through any crash, deletion or cancellation, while the lock
\* keeps the processes apart.
THEOREM QueueInvHolds ==
  ASSUME ~RacingStarts, ~LiveLapses
  PROVE  Spec => []QueueInv
<1>1. Init => QueueInv
  BY DEF Init, LockInit, NoJob, QueueInv, LoopNeedsProcess, CleanAfterRecovery,
     ExecutesCreated, ExecutesOwnClaim, NoOrphanedScan, Executing
<1> QED
  BY <1>1, QueueStep, RunnerTypeCorrect, OneProcessRunsTheQueue, PTL DEF Spec

\* From the claim to _finish a scan is running in the name of the worker that
\* executes it: claim_next_scan's conditional UPDATE and recover_interrupted
\* leave no other worker with the same scan.
THEOREM WorkersExecuteTheirClaims ==
  ASSUME ~RacingStarts, ~LiveLapses
  PROVE  Spec => []ExecutesOwnClaim
<1>1. QueueInv => ExecutesOwnClaim
  BY DEF QueueInv
<1> QED
  BY <1>1, QueueInvHolds, PTL

\* While a worker's loop is alive no scan stays running that it does not
\* execute: recover_interrupted re-queued what an earlier process left.
THEOREM NoScanIsOrphaned ==
  ASSUME ~RacingStarts, ~LiveLapses
  PROVE  Spec => []NoOrphanedScan
<1>1. QueueInv => NoOrphanedScan
  BY DEF QueueInv
<1> QED
  BY <1>1, QueueInvHolds, PTL

\* What one step may do to a finished scan.
KeepsFinished == \A s \in Scans : Terminal(s) => scan'[s].status \in {scan[s].status, "deleted"}

LEMMA FinishedStep == TypeOK /\ QueueInv /\ [Next]_vars => KeepsFinished
<1> USE DEF KeepsFinished
<1>1. CASE UNCHANGED vars
  BY <1>1 DEF vars, dbVars
<1>2. ASSUME TypeOK, QueueInv, Next PROVE KeepsFinished
  <2>1. scan \in [Scans -> ScanRow]
    BY <1>2 DEF TypeOK, RowsOK
  <2>2. CASE UNCHANGED scan
    BY <2>2
  <2>3. ASSUME NEW s \in Scans, NEW sel \in SUBSET Modules, CreateScan(s, sel)
        PROVE  KeepsFinished
    BY <2>1, <2>3 DEF CreateScan, Terminal, TerminalScan
  <2>4. ASSUME NEW s \in Scans, DeleteScan(s) PROVE KeepsFinished
    BY <2>1, <2>4 DEF DeleteScan, ScansWithout, Blank
  <2>5. ASSUME NEW w \in Workers, CancelWrite(w) PROVE KeepsFinished
    BY <2>1, <2>5 DEF CancelWrite, ScanRow
  <2>6. ASSUME NEW w \in Workers, RecoverInterrupted(w) PROVE KeepsFinished
    BY <2>1, <2>6 DEF RecoverInterrupted, Terminal, TerminalScan
  <2>7. ASSUME NEW w \in Workers, StartLoop(w) PROVE KeepsFinished
    BY <1>2, <2>7, RetentionSweeps DEF StartLoop, Sweeps, TypeOK
  <2>8. ASSUME NEW w \in Workers, LoopStep(w) PROVE KeepsFinished
    <3>1. CASE Moves(w)
      BY <3>1 DEF Moves
    <3>2. CASE Claims(w)
      BY <3>2 DEF Claims, Terminal, TerminalScan
    \* _finish writes whatever the status was, but the scan a worker executes
    \* is running.
    <3>3. CASE Ends(w)
      <4>1. phase[w] = "up"
        BY <1>2, <2>8, LoopKinds
      <4>2. Exists(job[w].scan) => scan[job[w].scan].status = "running"
        BY <1>2, <3>3, <4>1 DEF Ends, QueueInv, ExecutesOwnClaim, Executing
      <4> QED
        BY <3>3, <4>2 DEF Ends, Terminal, TerminalScan
    <3>4. CASE Sweeps
      BY <3>4 DEF Sweeps
    <3> QED
      BY <1>2, <2>8, <3>1, <3>2, <3>3, <3>4, LoopKinds
  <2>9. ASSUME NEW w \in Workers, NEW s \in Scans, CancelRead(w, s) PROVE UNCHANGED scan
    BY <2>9 DEF CancelRead, dbVars
  <2>10. ASSUME NEW w \in Workers,
                LockStep(w) \/ Stop(w) \/ StopRaises(w) \/ ProcessDies(w)
         PROVE  UNCHANGED scan
    BY <2>10 DEF LockStep, Stop, StopRaises, ProcessDies, dbVars
  <2>11. GrowOld \/ LapseStep => UNCHANGED scan
    BY DEF GrowOld, LapseStep, dbVars
  <2> QED
    BY <1>2, <2>2, <2>3, <2>4, <2>5, <2>6, <2>7, <2>8, <2>9, <2>10, <2>11
       DEF Next, StartStep
<1> QED
  BY <1>1, <1>2

\* A finished scan keeps its status until it is deleted, although _finish and
\* the cancel endpoint write without looking at the status.
THEOREM FinishedScansStay ==
  ASSUME ~RacingStarts, ~LiveLapses
  PROVE  Spec => FinishedStaysFinished
<1>1. TypeOK /\ QueueInv /\ [Next]_vars =>
        [\A s \in Scans : Terminal(s) => scan'[s].status \in {scan[s].status, "deleted"}]_vars
  BY FinishedStep DEF KeepsFinished
<1> QED
  BY <1>1, RunnerTypeCorrect, QueueInvHolds, PTL DEF Spec, FinishedStaysFinished

-----------------------------------------------------------------------------
(* The modules of a scan *)

\* The module that runs next is one of those still to do, and the least.
LEMMA LeastIn ==
  ASSUME NEW T \in SUBSET Modules, T # {}
  PROVE  Least(T) \in T
<1> DEFINE R == OpToRel(<, Nat)
<1>1. T \subseteq Nat
  BY ScanRunnerAssumption DEF Modules
<1>2. \A x, y \in Nat : y < x => <<y, x>> \in R
  BY DEF OpToRel
<1>3. IsWellFoundedOn(R, Nat)
  BY NatLessThanWellFounded
<1> HIDE DEF R
<1>4. PICK x \in T : \A y \in T : ~(<<y, x>> \in R)
  BY <1>1, <1>3, WFMin
<1>5. \A y \in T : ~(y < x)
  BY <1>1, <1>2, <1>4, Zenon
<1>6. \A y \in T : x <= y
  BY <1>1, <1>5, SMT
<1> QED
  BY <1>6 DEF Least

-----------------------------------------------------------------------------
(* What a step of a loop writes *)

\* The loop of w goes to p with its scan, and has this to remember.
Sets(w, p, todo, ok, bad, out, verdict) ==
  /\ job'[w].pc = p /\ job'[w].scan = job[w].scan /\ job'[w].todo = todo
  /\ job'[w].ok = ok /\ job'[w].bad = bad /\ job'[w].out = out
  /\ job'[w].verdict = verdict

MovesTo(w, p) ==
  Sets(w, p, job[w].todo, job[w].ok, job[w].bad, job[w].out, job[w].verdict)

\* The loop forgets its scan.
Forgets(w, p) ==
  /\ job'[w].pc = p /\ job'[w].scan = NoScan /\ job'[w].todo = {}
  /\ job'[w].ok = FALSE /\ job'[w].bad = FALSE /\ job'[w].out = NoResult
  /\ job'[w].verdict = "failed"

LEMMA JobBecomes ==
  ASSUME job \in [Workers -> Job], NEW w \in Workers
  PROVE  /\ \A p : Goto(w, p) => MovesTo(w, p)
         /\ \A p : job' = [job EXCEPT ![w] = NoJob(p)] => Forgets(w, p)
         /\ Die(w) => Forgets(w, "dead")
<1>1. job[w] \in JobRecord
  BY DEF Job
<1>2. ASSUME NEW p, Goto(w, p) PROVE MovesTo(w, p)
  BY <1>1, <1>2 DEF MovesTo, Sets, Goto, JobRecord
<1>3. ASSUME NEW p, job' = [job EXCEPT ![w] = NoJob(p)] PROVE Forgets(w, p)
  BY <1>3 DEF Forgets, NoJob
<1> QED
  BY <1>2, <1>3 DEF Die

\* What the steps between two commits make of the loop.
LEMMA QuietSteps ==
  ASSUME TypeOK, NEW w \in Workers
  PROVE  /\ ClaimRead(w) => \E s \in Scans :
              /\ job'[w].pc = "claim" /\ job'[w].scan = s /\ job'[w].todo = job[w].todo
              /\ job'[w].ok = job[w].ok /\ job'[w].bad = job[w].bad
              /\ job'[w].out = job[w].out /\ job'[w].verdict = job[w].verdict
         /\ LoadScan(w) =>
              \/ /\ Exists(job[w].scan)
                 /\ Sets(w, "scope", scan[job[w].scan].selected, job[w].ok, job[w].bad,
                         job[w].out, job[w].verdict)
              \/ ~Exists(job[w].scan) /\ Forgets(w, "idle")
         /\ LoadScope(w) =>
              MovesTo(w, "pubStart") \/ (~Exists(job[w].scan) /\ MovesTo(w, "finish"))
         /\ ValidateTarget(w) =>
              \/ Exists(job[w].scan) /\ MovesTo(w, "check")
              \/ "refuse" \in Env /\ MovesTo(w, "finish")
              \/ Forgets(w, "dead")
         /\ CancelCheck(w) =>
              \/ /\ scan[job[w].scan].cancel
                 /\ Sets(w, "skip", job[w].todo, job[w].ok, job[w].bad, job[w].out, "canceled")
              \/ /\ ~scan[job[w].scan].cancel /\ job[w].todo = {}
                 /\ Sets(w, "finish", job[w].todo, job[w].ok, job[w].bad, job[w].out, Verdict(w))
              \/ ~scan[job[w].scan].cancel /\ job[w].todo # {} /\ MovesTo(w, "begin")
         /\ ModuleEnds(w) =>
              \/ \E found \in 0..1, warn \in BOOLEAN :
                   Sets(w, IF found = 0 THEN "settle" ELSE "store", job[w].todo, TRUE,
                        job[w].bad \/ warn, [ok |-> TRUE, found |-> found, warn |-> warn],
                        job[w].verdict)
              \/ Sets(w, "settle", job[w].todo, job[w].ok, TRUE, job[w].out, job[w].verdict)
              \/ Forgets(w, "dead")
         /\ Publish(w) =>
              \/ /\ Exists(job[w].scan)
                 /\ Sets(w, AfterPublish[job[w].pc],
                         IF job[w].pc \in {"pubNA", "pubFoot"}
                         THEN job[w].todo \ {NextModule(w)} ELSE job[w].todo,
                         job[w].ok, job[w].bad, job[w].out, job[w].verdict)
              \/ Forgets(w, "dead")
<1>1. job \in [Workers -> Job] /\ job[w] \in JobRecord
  BY DEF TypeOK, LoopsOK, Job
<1>2. ASSUME ClaimRead(w)
      PROVE  \E s \in Scans :
               /\ job'[w].pc = "claim" /\ job'[w].scan = s /\ job'[w].todo = job[w].todo
               /\ job'[w].ok = job[w].ok /\ job'[w].bad = job[w].bad
               /\ job'[w].out = job[w].out /\ job'[w].verdict = job[w].verdict
  <2>1. PICK s \in Queued : job' = [job EXCEPT ![w].pc = "claim", ![w].scan = s]
    BY <1>2 DEF ClaimRead
  <2>2. s \in Scans
    BY DEF Queued
  <2> QED
    BY <1>1, <2>1, <2>2 DEF JobRecord
<1>3. ASSUME LoadScan(w)
      PROVE   \/ /\ Exists(job[w].scan)
                 /\ Sets(w, "scope", scan[job[w].scan].selected, job[w].ok, job[w].bad,
                         job[w].out, job[w].verdict)
              \/ ~Exists(job[w].scan) /\ Forgets(w, "idle")
  <2>1. CASE Exists(job[w].scan)
    BY <1>1, <1>3, <2>1 DEF LoadScan, Sets, JobRecord
  <2>2. CASE ~Exists(job[w].scan)
    BY <1>1, <1>3, <2>2, JobBecomes DEF LoadScan
  <2> QED
    BY <2>1, <2>2
<1>4. LoadScope(w) => MovesTo(w, "pubStart") \/ (~Exists(job[w].scan) /\ MovesTo(w, "finish"))
  BY <1>1, JobBecomes DEF LoadScope
<1>5. ValidateTarget(w) =>
        \/ Exists(job[w].scan) /\ MovesTo(w, "check")
        \/ "refuse" \in Env /\ MovesTo(w, "finish")
        \/ Forgets(w, "dead")
  BY <1>1, JobBecomes DEF ValidateTarget
<1>6. ASSUME CancelCheck(w)
      PROVE   \/ /\ scan[job[w].scan].cancel
                 /\ Sets(w, "skip", job[w].todo, job[w].ok, job[w].bad, job[w].out, "canceled")
              \/ /\ ~scan[job[w].scan].cancel /\ job[w].todo = {}
                 /\ Sets(w, "finish", job[w].todo, job[w].ok, job[w].bad, job[w].out, Verdict(w))
              \/ ~scan[job[w].scan].cancel /\ job[w].todo # {} /\ MovesTo(w, "begin")
  <2>1. CASE scan[job[w].scan].cancel
    BY <1>1, <1>6, <2>1 DEF CancelCheck, Sets, JobRecord
  <2>2. CASE ~scan[job[w].scan].cancel /\ job[w].todo = {}
    BY <1>1, <1>6, <2>2 DEF CancelCheck, Sets, JobRecord
  <2>3. CASE ~scan[job[w].scan].cancel /\ job[w].todo # {}
    BY <1>1, <1>6, <2>3 DEF CancelCheck, Sets, MovesTo, JobRecord
  <2> QED
    BY <2>1, <2>2, <2>3
<1>7. ASSUME ModuleEnds(w)
      PROVE   \/ \E found \in 0..1, warn \in BOOLEAN :
                   Sets(w, IF found = 0 THEN "settle" ELSE "store", job[w].todo, TRUE,
                        job[w].bad \/ warn, [ok |-> TRUE, found |-> found, warn |-> warn],
                        job[w].verdict)
              \/ Sets(w, "settle", job[w].todo, job[w].ok, TRUE, job[w].out, job[w].verdict)
              \/ Forgets(w, "dead")
  <2>1. ASSUME NEW found \in 0..1, NEW warn \in BOOLEAN,
               job' = [job EXCEPT ![w].pc = IF found = 0 THEN "settle" ELSE "store",
                                  ![w].ok = TRUE,
                                  ![w].bad = @ \/ warn,
                                  ![w].out = [ok |-> TRUE, found |-> found, warn |-> warn]]
        PROVE  Sets(w, IF found = 0 THEN "settle" ELSE "store", job[w].todo, TRUE,
                    job[w].bad \/ warn, [ok |-> TRUE, found |-> found, warn |-> warn],
                    job[w].verdict)
    <3> DEFINE p == IF found = 0 THEN "settle" ELSE "store"
               b == job[w].bad \/ warn
               o == [ok |-> TRUE, found |-> found, warn |-> warn]
    <3>1. job' = [job EXCEPT ![w].pc = p, ![w].ok = TRUE, ![w].bad = b, ![w].out = o]
      BY <2>1
    <3> HIDE DEF p, b, o
    <3>2. Sets(w, p, job[w].todo, TRUE, b, o, job[w].verdict)
      BY <1>1, <3>1 DEF Sets, JobRecord
    <3> QED
      BY <3>2 DEF p, b, o
  <2>2. job' = [job EXCEPT ![w].pc = "settle", ![w].bad = TRUE]
          => Sets(w, "settle", job[w].todo, job[w].ok, TRUE, job[w].out, job[w].verdict)
    BY <1>1 DEF Sets, JobRecord
  <2> QED
    BY <1>1, <1>7, <2>1, <2>2, JobBecomes DEF ModuleEnds
<1>8. ASSUME Publish(w)
      PROVE   \/ /\ Exists(job[w].scan)
                 /\ Sets(w, AfterPublish[job[w].pc],
                         IF job[w].pc \in {"pubNA", "pubFoot"}
                         THEN job[w].todo \ {NextModule(w)} ELSE job[w].todo,
                         job[w].ok, job[w].bad, job[w].out, job[w].verdict)
              \/ Forgets(w, "dead")
  <2> DEFINE p == AfterPublish[job[w].pc]
             t == IF job[w].pc \in {"pubNA", "pubFoot"}
                  THEN job[w].todo \ {NextModule(w)} ELSE job[w].todo
  <2>1. Published(w) => job' = [job EXCEPT ![w].pc = p, ![w].todo = t]
    BY DEF Published
  <2> HIDE DEF p, t
  <2>2. Published(w) => Sets(w, p, t, job[w].ok, job[w].bad, job[w].out, job[w].verdict)
    BY <1>1, <2>1 DEF Sets, JobRecord
  <2> QED
    BY <1>1, <1>8, <2>2, JobBecomes DEF Publish, p, t
<1> QED
  BY <1>2, <1>3, <1>4, <1>5, <1>6, <1>7, <1>8

\* The row of one module of one scan is r from now on, all others stay.
OneRow(s, m, r) ==
  /\ run'[s][m] = r
  /\ \A n \in Modules \ {m} : run'[s][n] = run[s][n]
  /\ \A t \in Scans \ {s} : run'[t] = run[t]

LEMMA RowWrites ==
  ASSUME TypeOK, NEW s \in Scans, NEW m \in Modules, NEW r
  PROVE  /\ run' = [run EXCEPT ![s][m] = r] => OneRow(s, m, r)
         /\ WriteRun(s, m, r) /\ Exists(s) => OneRow(s, m, r)
         /\ WriteRun(s, m, r) /\ ~Exists(s) => run' = run
<1>1. run \in [Scans -> [Modules -> ModuleRunRow]]
  BY DEF TypeOK, RowsOK
<1>2. run' = [run EXCEPT ![s][m] = r] => OneRow(s, m, r)
  BY <1>1 DEF OneRow
<1> QED
  BY <1>2 DEF WriteRun

\* What a loop recalls stays true when it moves on with the same result in hand
\* and the rows of the settled modules stay.
LEMMA RecallsCarries ==
  ASSUME NEW j, NEW k, NEW T, NEW R, NEW Q, Recalls(j, T, R),
         k.ok = j.ok, k.bad = j.bad, k.out = j.out, \A m \in T : Q[m] = R[m],
         k.pc # j.pc => j.pc # "settle" /\ (k.pc = "settle" => j.out.ok)
  PROVE  Recalls(k, T, Q)
BY DEF Recalls

\* A module that returned, and one that raised.
LEMMA RecallsResult ==
  ASSUME NEW j, NEW k, NEW T, NEW R, Recalls(j, T, R), j.out = NoResult,
         \/ k.ok /\ k.out.ok /\ (k.bad <=> j.bad \/ k.out.warn) /\ j.pc # "settle"
         \/ (k.ok <=> j.ok) /\ k.bad /\ k.out = NoResult /\ k.pc = "settle"
  PROVE  Recalls(k, T, R)
BY DEF Recalls, NoResult

\* A module that does not apply joins the settled ones.
LEMMA RecallsSkipped ==
  ASSUME NEW j, NEW k, NEW T, NEW m, NEW R, NEW Q, Recalls(j, T, R),
         k.ok = j.ok, k.bad = j.bad, k.out = j.out, j.pc # "settle", k.pc # "settle",
         \A n \in T : Q[n] = R[n], Q[m].status = "not_applicable"
  PROVE  Recalls(k, T \cup {m}, Q)
BY DEF Recalls

\* What a loop recalls when no result is in hand.
LEMMA RecallsRows ==
  ASSUME NEW j, NEW T, NEW R, Recalls(j, T, R), j.out = NoResult, j.pc # "settle"
  PROVE  /\ \A m \in T : R[m].status \in {"done", "failed", "not_applicable"}
         /\ j.ok <=> \E m \in T : R[m].status = "done"
         /\ j.bad => \E m \in T : R[m].noted /\ R[m].status # "not_applicable"
         /\ ~j.bad => \A m \in T :
              /\ R[m].status # "failed"
              /\ R[m].status = "done" /\ R[m].noted => R[m].attempts > 1
BY DEF Recalls, NoResult

\* The module in hand is settled: its row now says what the loop recalls.
LEMMA RecallsSettled ==
  ASSUME NEW j, NEW k, NEW T, NEW m, NEW R, NEW Q, Recalls(j, T, R),
         k.ok = j.ok, k.bad = j.bad, k.out = NoResult, j.pc = "settle", k.pc # "settle",
         \A n \in T : Q[n] = R[n],
         Q[m].status = (IF j.out.ok THEN "done" ELSE "failed"),
         Q[m].noted <=> R[m].noted \/ ~j.out.ok \/ j.out.warn,
         R[m].noted => Q[m].attempts > 1
  PROVE  Recalls(k, T \cup {m}, Q)
<1>1. \A n \in T \cup {m} : Q[n].status \in {"done", "failed", "not_applicable"}
  BY DEF Recalls
<1>2. k.ok <=> (k.out.ok \/ \E n \in T \cup {m} : Q[n].status = "done")
  BY DEF Recalls, NoResult
<1>3. k.bad => \E n \in T \cup {m} : Q[n].noted /\ Q[n].status # "not_applicable"
  BY DEF Recalls
<1>4. ASSUME ~k.bad, NEW n \in T \cup {m}
      PROVE  /\ Q[n].status # "failed"
             /\ Q[n].status = "done" /\ Q[n].noted => Q[n].attempts > 1
  BY <1>4 DEF Recalls
<1> QED
  BY <1>1, <1>2, <1>3, <1>4 DEF Recalls, NoResult

\* What the steps that commit write, and where the loop goes.
LEMMA CommitSteps ==
  ASSUME TypeOK, NEW w \in Workers, NEW s \in Scans, s = job[w].scan,
         NEW m, m = NextModule(w), Exists(s) => m \in Modules
  PROVE  /\ ClaimWrite(w) =>
              \/ /\ scan[s].status = "queued" /\ MovesTo(w, "load")
                 /\ scan'[s] = [scan[s] EXCEPT !.status = "running", !.owner = w]
                 /\ \A t \in Scans \ {s} : scan'[t] = scan[t]
              \/ scan' = scan /\ Forgets(w, "idle")
         /\ BeginModule(w) =>
              \/ ~Exists(s) /\ run' = run /\ (MovesTo(w, "pubNA") \/ MovesTo(w, "pubRun"))
              \/ /\ Exists(s) /\ m \in Inapplicable /\ MovesTo(w, "pubNA")
                 /\ OneRow(s, m, [run[s][m] EXCEPT !.status = "not_applicable",
                                                   !.noted = TRUE, !.count = 0])
              \/ /\ Exists(s) /\ m \notin Inapplicable /\ MovesTo(w, "pubRun")
                 /\ OneRow(s, m, [run[s][m] EXCEPT !.status = "running",
                                                   !.attempts = run[s][m].attempts + 1])
         /\ StoreFindings(w) =>
              \/ /\ Exists(s) /\ MovesTo(w, "settle")
                 /\ OneRow(s, m, [run[s][m] EXCEPT !.rows = @ + job[w].out.found])
              \/ run' = run /\ Forgets(w, "dead")
         /\ SettleModule(w) =>
              /\ Sets(w, "pubMod", job[w].todo, job[w].ok, job[w].bad, NoResult, job[w].verdict)
              /\ ~Exists(s) => run' = run
              /\ Exists(s) => OneRow(s, m,
                   [run[s][m] EXCEPT !.status = IF job[w].out.ok THEN "done" ELSE "failed",
                                     !.noted  = @ \/ ~job[w].out.ok \/ job[w].out.warn,
                                     !.count  = job[w].out.found])
         /\ MarkRemainingSkipped(w) =>
              /\ MovesTo(w, "finish")
              /\ \A t \in Scans \ {s} : run'[t] = run[t]
              /\ \A n \in Modules : run'[s][n] =
                   IF run[s][n].status \in {"queued", "running"}
                   THEN [run[s][n] EXCEPT !.status = "skipped", !.noted = TRUE]
                   ELSE run[s][n]
         /\ Finish(w) =>
              /\ MovesTo(w, "pubEnd")
              /\ Exists(s) => scan'[s] = [scan[s] EXCEPT !.status = job[w].verdict]
              /\ ~Exists(s) => scan' = scan
              /\ \A t \in Scans \ {s} : scan'[t] = scan[t]
<1>1. /\ job \in [Workers -> Job] /\ job[w] \in JobRecord
      /\ scan \in [Scans -> ScanRow] /\ run \in [Scans -> [Modules -> ModuleRunRow]]
  BY DEF TypeOK, LoopsOK, RowsOK, Job
<1>2. ASSUME ClaimWrite(w)
      PROVE   \/ /\ scan[s].status = "queued" /\ MovesTo(w, "load")
                 /\ scan'[s] = [scan[s] EXCEPT !.status = "running", !.owner = w]
                 /\ \A t \in Scans \ {s} : scan'[t] = scan[t]
              \/ scan' = scan /\ Forgets(w, "idle")
  BY <1>1, <1>2, JobBecomes DEF ClaimWrite, ScanRow
<1>3. ASSUME BeginModule(w)
      PROVE   \/ ~Exists(s) /\ run' = run /\ (MovesTo(w, "pubNA") \/ MovesTo(w, "pubRun"))
              \/ /\ Exists(s) /\ m \in Inapplicable /\ MovesTo(w, "pubNA")
                 /\ OneRow(s, m, [run[s][m] EXCEPT !.status = "not_applicable",
                                                   !.noted = TRUE, !.count = 0])
              \/ /\ Exists(s) /\ m \notin Inapplicable /\ MovesTo(w, "pubRun")
                 /\ OneRow(s, m, [run[s][m] EXCEPT !.status = "running",
                                                   !.attempts = run[s][m].attempts + 1])
  <2>1. CASE Exists(s)
    BY <1>1, <1>3, <2>1, JobBecomes, RowWrites DEF BeginModule
  <2>2. CASE ~Exists(s)
    BY <1>1, <1>3, <2>2, JobBecomes DEF BeginModule, WriteRun
  <2> QED
    BY <2>1, <2>2
<1>4. ASSUME StoreFindings(w)
      PROVE   \/ /\ Exists(s) /\ MovesTo(w, "settle")
                 /\ OneRow(s, m, [run[s][m] EXCEPT !.rows = @ + job[w].out.found])
              \/ run' = run /\ Forgets(w, "dead")
  <2>1. CASE Exists(s)
    <3>1. run' = [run EXCEPT ![s][m] = [run[s][m] EXCEPT !.rows = @ + job[w].out.found]]
      BY <1>1, <1>4, <2>1 DEF StoreFindings
    <3> QED
      BY <1>1, <1>4, <2>1, <3>1, JobBecomes, RowWrites DEF StoreFindings
  <2>2. CASE ~Exists(s)
    BY <1>1, <1>4, <2>2, JobBecomes DEF StoreFindings
  <2> QED
    BY <2>1, <2>2
<1>5. ASSUME SettleModule(w)
      PROVE   /\ Sets(w, "pubMod", job[w].todo, job[w].ok, job[w].bad, NoResult, job[w].verdict)
              /\ ~Exists(s) => run' = run
              /\ Exists(s) => OneRow(s, m,
                   [run[s][m] EXCEPT !.status = IF job[w].out.ok THEN "done" ELSE "failed",
                                     !.noted  = @ \/ ~job[w].out.ok \/ job[w].out.warn,
                                     !.count  = job[w].out.found])
  <2>1. Sets(w, "pubMod", job[w].todo, job[w].ok, job[w].bad, NoResult, job[w].verdict)
    BY <1>1, <1>5 DEF SettleModule, Sets, JobRecord
  <2>2. WriteRun(s, m,
                   [run[s][m] EXCEPT !.status = IF job[w].out.ok THEN "done" ELSE "failed",
                                     !.noted  = @ \/ ~job[w].out.ok \/ job[w].out.warn,
                                     !.count  = job[w].out.found])
    BY <1>5 DEF SettleModule
  <2> QED
    BY <2>1, <2>2, RowWrites DEF WriteRun
<1>6. ASSUME MarkRemainingSkipped(w)
      PROVE   /\ MovesTo(w, "finish")
              /\ \A t \in Scans \ {s} : run'[t] = run[t]
              /\ \A n \in Modules : run'[s][n] =
                   IF run[s][n].status \in {"queued", "running"}
                   THEN [run[s][n] EXCEPT !.status = "skipped", !.noted = TRUE]
                   ELSE run[s][n]
  BY <1>1, <1>6, JobBecomes DEF MarkRemainingSkipped
<1>7. ASSUME Finish(w)
      PROVE   /\ MovesTo(w, "pubEnd")
              /\ Exists(s) => scan'[s] = [scan[s] EXCEPT !.status = job[w].verdict]
              /\ ~Exists(s) => scan' = scan
              /\ \A t \in Scans \ {s} : scan'[t] = scan[t]
  BY <1>1, <1>7, JobBecomes DEF Finish
<1> QED
  BY <1>2, <1>3, <1>4, <1>5, <1>6, <1>7

\* While one loop steps no other process works, and the scan it executes is
\* its own.
LEMMA LoopContext ==
  ASSUME TypeOK, AtMostOneWorker, QueueInv, NEW w \in Workers, LoopStep(w)
  PROVE  /\ phase[w] = "up" /\ phase' = phase
         /\ \A v \in Workers \ {w} : /\ phase[v] \notin {"locked", "up"} /\ job'[v] = job[v]
                                     /\ ~Executing(v) /\ ~Executing(v)'
         /\ Executing(w) <=> job[w].pc \in Work
         /\ TypeOK' => (Executing(w)' <=> job'[w].pc \in Work)
         /\ job[w] \in JobRecord
         /\ job[w].pc \in Work \cup {"claim", "pubEnd", "retain"} => job[w].scan \in Scans
         /\ job[w].pc \in Work /\ Exists(job[w].scan) =>
              scan[job[w].scan].status = "running"
<1>1. /\ phase[w] = "up" /\ phase' = phase
      /\ \A v \in Workers \ {w} : job'[v] = job[v]
  BY LoopKinds DEF lockVars
<1>2. \A v \in Workers \ {w} : phase[v] \notin {"locked", "up"}
  BY <1>1 DEF AtMostOneWorker, Working
<1>3. \A v \in Workers \ {w} : ~Executing(v) /\ ~Executing(v)'
  BY <1>1, <1>2 DEF Executing
<1>4. /\ job[w] \in JobRecord
      /\ job[w].pc \in Work \cup {"claim", "pubEnd", "retain"} => job[w].scan \in Scans
  BY DEF TypeOK, LoopsOK, Job, JobRecord, Between, Work
<1>5. Executing(w) <=> job[w].pc \in Work
  <2>1. job[w].pc \in Pcs \ {"off", "recovered"}
    BY <1>1, <1>4 DEF QueueInv, LoopNeedsProcess, JobRecord
  <2> QED
    BY <1>1, <2>1 DEF Executing, Work, Pcs
<1>6. TypeOK' => (Executing(w)' <=> job'[w].pc \in Work)
  <2> SUFFICES ASSUME TypeOK' PROVE Executing(w)' <=> job'[w].pc \in Work
    OBVIOUS
  <2>1. QueueInv'
    BY LoopKeepsQueue
  <2>2. job'[w].pc \in Pcs \ {"off", "recovered"}
    BY <1>1, <2>1 DEF QueueInv, LoopNeedsProcess, TypeOK, LoopsOK, Job, JobRecord
  <2> QED
    BY <1>1, <2>2 DEF Executing, Work, Pcs
<1>7. job[w].pc \in Work /\ Exists(job[w].scan) => scan[job[w].scan].status = "running"
  BY <1>5 DEF QueueInv, ExecutesOwnClaim
<1> QED
  BY <1>1, <1>2, <1>3, <1>4, <1>5, <1>6, <1>7

\* What ModulesInv says of the loop that steps.
LEMMA LoopSituation ==
  ASSUME TypeOK, AtMostOneWorker, QueueInv, ModulesInv, NEW w \in Workers, LoopStep(w)
  PROVE  /\ job[w].pc # "dead"
         /\ job[w].pc \in Work /\ Exists(job[w].scan) => InProgress(w)
         /\ job[w].pc \notin InModule =>
              \A t \in Scans, m \in Modules : Status(t, m) # "running"
         /\ \A t \in Scans, m \in Modules :
              Status(t, m) = "running" => job[w].scan = t /\ m = NextModule(w)
         /\ job[w].pc \in {"begin"} \cup InModule \cup ModuleOver /\ Exists(job[w].scan) =>
              /\ NextModule(w) \in job[w].todo /\ NextModule(w) \in Modules
              /\ job[w].todo \subseteq scan[job[w].scan].selected
<1>1. phase[w] = "up" /\ (job[w].pc \in Work <=> Executing(w)) /\ job[w] \in JobRecord
  BY LoopContext
<1>2. job[w].pc # "dead"
  BY DEF LoopStep, ClaimRead, ClaimWrite, LoadScan, LoadScope, ValidateTarget, CancelCheck,
     BeginModule, ModuleEnds, StoreFindings, SettleModule, MarkRemainingSkipped, Finish,
     Retain, Publish, AfterPublish, At
<1>3. LoopInv(w)
  BY DEF ModulesInv
<1>4. job[w].pc \in Work /\ Exists(job[w].scan) => InProgress(w)
  BY <1>1, <1>3 DEF LoopInv
<1>5. \A t \in Scans, m \in Modules : Status(t, m) = "running" =>
        job[w].pc \in InModule /\ job[w].scan = t /\ m = NextModule(w)
  BY <1>1, <1>2, <1>3 DEF LoopInv, RunningIsCurrent
<1>6. ASSUME job[w].pc \in {"begin"} \cup InModule \cup ModuleOver, Exists(job[w].scan)
      PROVE  /\ NextModule(w) \in job[w].todo /\ NextModule(w) \in Modules
             /\ job[w].todo \subseteq scan[job[w].scan].selected
  <2>1. job[w].todo # {} /\ job[w].todo \subseteq scan[job[w].scan].selected
    BY <1>4, <1>6 DEF InProgress, InModule, ModuleOver, Work
  <2>2. job[w].todo \in SUBSET Modules
    BY <1>1 DEF JobRecord
  <2> QED
    BY <2>1, <2>2, LeastIn DEF NextModule
<1> QED
  BY <1>2, <1>4, <1>5, <1>6

-----------------------------------------------------------------------------
(* A scan whose cancellation was requested while it was queued *)

\* No step of a loop saves a doomed scan.
LEMMA LoopKeepsDoomed ==
  ASSUME TypeOK, AtMostOneWorker, QueueInv, ModulesInv, NEW w \in Workers, LoopStep(w),
         NEW t \in Scans, Doomed(t)
  PROVE  Doomed(t)'
<1> DEFINE s == job[w].scan
<1>0. TypeOK'
  BY RunnerTypeStep DEF Next
<1>1. /\ \A v \in Workers \ {w} : ~Executing(v)'
      /\ Executing(w) <=> job[w].pc \in Work
      /\ Executing(w)' <=> job'[w].pc \in Work
      /\ job[w].pc \in Work \cup {"claim"} => s \in Scans
  BY <1>0, LoopContext
<1>2. scan \in [Scans -> ScanRow]
  BY DEF TypeOK, RowsOK
<1>4. CASE scan[t].status = "deleted"
  <2>1. scan'[t].status = "deleted"
    BY <1>4, LoopKinds DEF Moves, Claims, Ends, Sweeps, Terminal, TerminalScan, Exists, ScanStatus
  <2> QED
    BY <2>1 DEF Doomed
<1>5. CASE scan[t].status # "deleted"
  <2>1. scan[t].cancel /\ scan[t].status \in {"queued", "running", "canceled", "failed"}
    BY <1>5 DEF Doomed
  <2>2. Exists(t)
    BY <2>1 DEF Exists, ScanStatus, TerminalScan
  <2>3. job[w].pc \in Work /\ s = t =>
          /\ \/ job[w].pc \in {"load", "scope", "pubStart", "validate", "check", "skip"}
             \/ job[w].pc = "finish" /\ job[w].verdict \in {"canceled", "failed"}
          /\ job[w].pc = "skip" => job[w].verdict = "canceled"
          /\ job[w].pc \in {"scope", "pubStart", "validate"} => job[w].verdict = "failed"
    BY <1>1, <1>5, <2>2 DEF Doomed, ModulesInv, LoopInv, InProgress
  \* It is enough to look at this loop, and at the row.
  <2>4. SUFFICES /\ scan'[t].status = "deleted" \/
                     (scan'[t].cancel /\ scan'[t].status \in {"queued", "running", "canceled", "failed"})
                 /\ job'[w].pc \in Work /\ job'[w].scan = t =>
                      \/ job'[w].pc \in {"load", "scope", "pubStart", "validate", "check", "skip"}
                      \/ job'[w].pc = "finish" /\ job'[w].verdict \in {"canceled", "failed"}
    BY <1>1 DEF Doomed
  <2> USE DEF MovesTo, Sets, Forgets, Work, At, dbVars
  <2>5. CASE ClaimRead(w)
    BY <2>1, <2>5, QuietSteps DEF ClaimRead
  <2>6. CASE ClaimWrite(w)
    <3>1. job'[w].pc \in {"load", "idle"}
      BY <2>6, <1>1, JobBecomes, ZenonT(40) DEF ClaimWrite, TypeOK, LoopsOK
    <3>2. scan'[t].cancel /\ scan'[t].status \in {"queued", "running", "canceled", "failed"}
      BY <1>1, <1>2, <2>1, <2>6 DEF ClaimWrite, ScanRow
    <3> QED
      BY <3>1, <3>2
  <2>7. CASE LoadScan(w)
    BY <2>1, <2>7, QuietSteps DEF LoadScan
  <2>8. CASE LoadScope(w)
    <3>1. MovesTo(w, "pubStart") \/ (~Exists(job[w].scan) /\ MovesTo(w, "finish"))
      BY <2>8, QuietSteps
    <3> QED
      BY <2>1, <2>2, <2>8, <3>1 DEF LoadScope
  <2>9. CASE ValidateTarget(w)
    BY <2>1, <2>3, <2>9, QuietSteps DEF ValidateTarget
  <2>10. CASE CancelCheck(w)
    BY <2>1, <2>10, QuietSteps, ZenonT(120) DEF CancelCheck
  <2>11. CASE BeginModule(w)
    BY <2>1, <2>3, <2>11, JobBecomes DEF BeginModule, TypeOK, LoopsOK
  <2>12. CASE ModuleEnds(w)
    BY <2>1, <2>3, <2>12, QuietSteps DEF ModuleEnds
  <2>13. CASE StoreFindings(w)
    BY <2>1, <2>3, <2>13, JobBecomes DEF StoreFindings, TypeOK, LoopsOK
  <2>14. CASE SettleModule(w)
    <3>1. job'[w].scan = s
      BY <2>14 DEF SettleModule, TypeOK, LoopsOK, Job, JobRecord
    <3> QED
      BY <2>1, <2>3, <2>14, <3>1 DEF SettleModule
  <2>15. CASE MarkRemainingSkipped(w)
    BY <2>1, <2>3, <2>15, JobBecomes, ZenonT(40) DEF MarkRemainingSkipped, TypeOK, LoopsOK
  <2>16. CASE Finish(w)
    <3>1. job[w].pc = "finish" /\ s \in Scans /\ job'[w].pc = "pubEnd"
      BY <1>1, <2>16, JobBecomes DEF Finish, TypeOK, LoopsOK
    <3>2. s # t => scan'[t] = scan[t]
      BY <1>2, <2>16, <3>1 DEF Finish
    <3>3. s = t => scan'[t] = [scan[t] EXCEPT !.status = job[w].verdict]
      BY <1>2, <2>2, <2>16, <3>1 DEF Finish
    <3>4. s = t => scan'[t].cancel /\ scan'[t].status \in {"canceled", "failed"}
      BY <1>2, <2>1, <2>3, <3>1, <3>3 DEF ScanRow
    <3> QED
      BY <2>1, <3>1, <3>2, <3>4
  <2>17. CASE Retain(w)
    <3>1. job'[w].pc = "idle"
      BY <2>17 DEF Retain, NoJob, TypeOK, LoopsOK
    <3>2. scan'[t] = scan[t] \/ scan'[t].status = "deleted"
      BY <2>17, RetentionSweeps DEF Retain, Sweeps, TypeOK
    <3> QED
      BY <2>1, <3>1, <3>2
  <2>18. CASE Publish(w)
    <3>1. job[w].pc \in DOMAIN AfterPublish /\ scan' = scan
      BY <2>18 DEF Publish
    <3>2. \/ job'[w].pc = "dead"
          \/ job'[w].pc = AfterPublish[job[w].pc] /\ job'[w].scan = s
      BY <2>18, QuietSteps
    <3> QED
      BY <2>1, <2>3, <3>1, <3>2 DEF AfterPublish
  <2> QED
    BY <2>5, <2>6, <2>7, <2>8, <2>9, <2>10, <2>11, <2>12, <2>13, <2>14, <2>15, <2>16,
       <2>17, <2>18 DEF LoopStep
<1> QED
  BY <1>4, <1>5

-----------------------------------------------------------------------------
(* The loops and the module runs *)

\* A row invariant is about the row and the runs of one scan, and survives a
\* request for its cancellation.
LEMMA RowStays ==
  ASSUME NEW t \in Scans, RowInv(t), run'[t] = run[t],
         scan'[t].status = scan[t].status, scan'[t].selected = scan[t].selected,
         scan[t].cancel => scan'[t].cancel, Doomed(t) => Doomed(t)'
  PROVE  RowInv(t)'
<1>1. RowsFollow(t)' /\ FindingsStored(t)'
  BY DEF RowInv, RowsFollow, FindingsStored, Exists, Status
<1>2. (Agrees(t, scan[t].status) /\ Explained(t, scan[t].status))'
  BY DEF RowInv, Agrees, Explained, Status
<1>3. NotedWasBegun(t)'
  BY DEF RowInv, NotedWasBegun, Status
<1> QED
  BY <1>1, <1>2, <1>3 DEF RowInv

\* Deleting a scan leaves nothing behind.
LEMMA DeletedRow ==
  ASSUME NEW t \in Scans, scan'[t] = Blank("deleted"), run'[t] = [m \in Modules |-> NoRun]
  PROVE  RowInv(t)'
BY DEF Blank, NoRun, RowInv, RowsFollow, FindingsStored, Agrees, Explained, NotedWasBegun,
   Status, Exists, ScanStatus, TerminalScan

\* When a loop steps, it is enough to look at that loop and at the rows.
LEMMA LoopGoal ==
  ASSUME TypeOK, AtMostOneWorker, QueueInv, ModulesInv, NEW w \in Workers, LoopStep(w),
         FreshLoop(w)', RunningIsCurrent(w)',
         job'[w].pc \in Work /\ scan'[job'[w].scan].status \in ScanStatus => InProgress(w)',
         \A t \in Scans : RowInv(t)'
  PROVE  ModulesInv'
<1>0. TypeOK'
  BY RunnerTypeStep DEF Next
<1>1. /\ \A v \in Workers \ {w} : /\ phase'[v] \notin {"locked", "up"}
                                  /\ job'[v] = job[v] /\ ~Executing(v)'
      /\ Executing(w)' <=> job'[w].pc \in Work
  BY <1>0, LoopContext
<1>2. LoopInv(w)'
  BY <1>1 DEF LoopInv, Exists
<1>3. ASSUME NEW v \in Workers \ {w} PROVE LoopInv(v)'
  <2>1. FreshLoop(v)'
    BY <1>1 DEF ModulesInv, LoopInv, FreshLoop
  <2>2. RunningIsCurrent(v)'
    BY <1>1 DEF RunningIsCurrent
  <2> QED
    BY <1>1, <2>1, <2>2 DEF LoopInv
<1> QED
  BY <1>2, <1>3 DEF ModulesInv

\* ... and at the loop alone, when it commits nothing.
LEMMA QuietGoal ==
  ASSUME TypeOK, AtMostOneWorker, QueueInv, ModulesInv, NEW w \in Workers, LoopStep(w),
         scan' = scan, run' = run, FreshLoop(w)',
         \/ job'[w].pc = "dead" \/ job[w].pc \notin InModule
         \/ /\ job'[w].pc \in InModule /\ job'[w].scan = job[w].scan
            /\ job'[w].todo = job[w].todo,
         job'[w].pc \in Work /\ Exists(job'[w].scan) => InProgress(w)'
  PROVE  ModulesInv'
<1>1. \A t \in Scans : RowInv(t)'
  BY LoopKeepsDoomed, RowStays DEF ModulesInv
<1>2. phase'[w] = "up"
  BY LoopContext
<1>3. RunningIsCurrent(w)'
  BY <1>2, LoopSituation DEF RunningIsCurrent, Status, NextModule
<1> QED
  BY <1>1, <1>3, LoopGoal DEF Exists

\* From the poll to the first look at the cancel request.
LEMMA DispatchKeepsModules ==
  ASSUME TypeOK, AtMostOneWorker, QueueInv, ModulesInv, NEW w \in Workers,
         ClaimRead(w) \/ LoadScan(w) \/ LoadScope(w) \/ ValidateTarget(w)
  PROVE  ModulesInv'
<1> USE DEF MovesTo, Sets, Forgets, Work, InModule, ModuleOver
<1>1. LoopStep(w) /\ scan' = scan /\ run' = run
  BY DEF LoopStep, ClaimRead, LoadScan, LoadScope, ValidateTarget, dbVars
<1>2. FreshLoop(w) /\ (job[w].pc \in Work /\ Exists(job[w].scan) => InProgress(w))
  BY <1>1, LoopSituation DEF ModulesInv, LoopInv
<1>3. CASE ClaimRead(w)
  <2>1. FreshLoop(w)' /\ job'[w].pc = "claim" /\ job[w].pc = "idle"
    BY <1>2, <1>3, QuietSteps DEF ClaimRead, At, FreshLoop, Between
  <2> QED
    BY <1>1, <2>1, QuietGoal
<1>4. CASE LoadScan(w)
  <2>1. job[w].pc = "load"
    BY <1>4 DEF LoadScan, At
  <2>2. CASE ~Exists(job[w].scan)
    <3>1. FreshLoop(w)' /\ job'[w].pc = "idle"
      BY <1>4, <2>2, QuietSteps DEF FreshLoop
    <3> QED
      BY <1>1, <2>1, <3>1, QuietGoal
  <2>3. CASE Exists(job[w].scan)
    <3>1. /\ job'[w].pc = "scope" /\ job'[w].scan = job[w].scan
          /\ job'[w].todo = scan'[job'[w].scan].selected
          /\ ~job'[w].ok /\ ~job'[w].bad /\ job'[w].out = NoResult /\ job'[w].verdict = "failed"
      BY <1>1, <1>2, <1>4, <2>1, <2>3, QuietSteps DEF FreshLoop
    <3>2. Settled(w)' = {}
      BY <3>1 DEF Settled
    <3>3. (Remembers(w) /\ InHand(w))'
      BY <3>1, <3>2 DEF Remembers, Recalls, InHand, NoResult
    <3>4. InProgress(w)' /\ FreshLoop(w)'
      BY <3>1, <3>3 DEF InProgress, FreshLoop, Between
    <3> QED
      BY <1>1, <2>1, <3>1, <3>4, QuietGoal
  <2> QED
    BY <2>2, <2>3
<1>5. ASSUME MovesTo(w, "pubStart") \/ MovesTo(w, "check"),
             job[w].pc \in {"scope", "validate"}
      PROVE  ModulesInv'
  <2>1. Settled(w)' = Settled(w)
    BY <1>1, <1>5 DEF Settled
  <2>2. Exists(job[w].scan) => InProgress(w)'
    <3> SUFFICES ASSUME Exists(job[w].scan) PROVE InProgress(w)'
      OBVIOUS
    <3>1. /\ job[w].todo \subseteq scan[job[w].scan].selected /\ job[w].out = NoResult
          /\ job[w].verdict = "failed" /\ Remembers(w)
      BY <1>2, <1>5 DEF InProgress
    <3>2. Remembers(w)'
      BY <1>1, <1>5, <2>1, <3>1, RecallsCarries DEF Remembers
    <3>3. InHand(w)'
      BY <1>5 DEF InHand
    <3> QED
      BY <1>1, <1>5, <3>1, <3>2, <3>3 DEF InProgress
  <2>3. FreshLoop(w)'
    BY <1>5 DEF FreshLoop, Between
  <2> QED
    BY <1>1, <1>5, <2>2, <2>3, QuietGoal
<1>6. CASE LoadScope(w)
  <2>1. job[w].pc = "scope"
    BY <1>6 DEF LoadScope, At
  <2>2. CASE ~Exists(job[w].scan) /\ MovesTo(w, "finish")
    <3>1. FreshLoop(w)'
      BY <2>2 DEF FreshLoop, Between
    <3> QED
      BY <1>1, <2>1, <2>2, <3>1, QuietGoal
  <2> QED
    BY <1>5, <1>6, <2>1, <2>2, QuietSteps
<1>7. CASE ValidateTarget(w)
  <2>1. job[w].pc = "validate"
    BY <1>7 DEF ValidateTarget, At
  \* A refused target fails the scan without a word about its modules.
  <2>2. CASE "refuse" \in Env /\ MovesTo(w, "finish")
    <3>1. FreshLoop(w)'
      BY <2>2 DEF FreshLoop, Between
    <3>2. Exists(job[w].scan) => job'[w].verdict = "failed"
      BY <1>2, <2>1, <2>2 DEF InProgress
    <3>3. Exists(job[w].scan) => InProgress(w)'
      BY <2>2, <3>2 DEF InProgress, Agrees, Explained
    <3> QED
      BY <1>1, <2>1, <2>2, <3>1, <3>3, QuietGoal
  <2>3. CASE Forgets(w, "dead")
    <3>1. FreshLoop(w)'
      BY <2>3 DEF FreshLoop
    <3> QED
      BY <1>1, <2>3, <3>1, QuietGoal
  <2> QED
    BY <1>5, <1>7, <2>1, <2>2, <2>3, QuietSteps
<1> QED
  BY <1>3, <1>4, <1>6, <1>7

\* The look at the cancel request, which also ends the scan.
LEMMA CancelCheckKeepsModules ==
  ASSUME TypeOK, AtMostOneWorker, QueueInv, ModulesInv, NEW w \in Workers, CancelCheck(w)
  PROVE  ModulesInv'
<1> USE DEF MovesTo, Sets, Work, InModule, ModuleOver
<1> DEFINE s == job[w].scan
<1>1. LoopStep(w) /\ scan' = scan /\ run' = run /\ job[w].pc = "check"
  BY DEF LoopStep, CancelCheck, dbVars, At
<1>2. Exists(s) => InProgress(w)
  BY <1>1, LoopSituation
<1>3. Exists(s) => /\ job[w].todo \subseteq scan[s].selected /\ job[w].out = NoResult
                   /\ job[w].verdict = "failed" /\ Remembers(w)
  BY <1>1, <1>2 DEF InProgress
<1>4. job'[w].pc \in {"skip", "finish", "begin"} /\ job'[w].scan = s
  BY QuietSteps
<1>5. FreshLoop(w)'
  BY <1>4 DEF FreshLoop, Between
<1>6. ASSUME Exists(s) PROVE InProgress(w)'
  <2>1. CASE job'[w].pc = "skip"
    BY <1>1, <2>1, QuietSteps DEF InProgress
  <2>2. CASE job'[w].pc = "begin"
    <3>1. MovesTo(w, "begin") /\ job[w].todo # {}
      BY <2>2, QuietSteps
    <3>2. Settled(w)' = Settled(w)
      BY <1>1, <3>1 DEF Settled
    <3>3. Remembers(w)'
      BY <1>1, <1>3, <1>6, <3>1, <3>2, RecallsCarries DEF Remembers
    <3>4. InHand(w)'
      BY <3>1 DEF InHand
    <3> QED
      BY <1>1, <1>3, <1>6, <3>1, <3>3, <3>4 DEF InProgress
  <2>3. CASE job'[w].pc = "finish"
    <3>1. job[w].todo = {} /\ job'[w].verdict = Verdict(w)
      BY <2>3, QuietSteps
    <3>2. Settled(w) = scan[s].selected
      BY <1>1, <3>1 DEF Settled
    <3>3. /\ \A m \in scan[s].selected : Status(s, m) \in {"done", "failed", "not_applicable"}
          /\ job[w].ok <=> \E m \in scan[s].selected : Status(s, m) = "done"
          /\ job[w].bad => \E m \in scan[s].selected :
               run[s][m].noted /\ Status(s, m) # "not_applicable"
          /\ ~job[w].bad => \A m \in scan[s].selected :
               /\ Status(s, m) # "failed"
               /\ Status(s, m) = "done" /\ run[s][m].noted => run[s][m].attempts > 1
      <4>1. Recalls(job[w], scan[s].selected, run[s]) /\ job[w].out = NoResult
        BY <1>3, <1>6, <3>2 DEF Remembers
      <4> HIDE DEF s
      <4> QED
        BY <1>1, <4>1, RecallsRows DEF Status
    <3>4. Agrees(s, Verdict(w)) /\ Explained(s, Verdict(w))
      <4>1. CASE ~job[w].ok
        BY <3>3, <4>1 DEF Verdict, Agrees, Explained
      <4>2. CASE job[w].ok /\ job[w].bad
        BY <3>3, <4>2 DEF Verdict, Agrees, Explained
      <4>3. CASE job[w].ok /\ ~job[w].bad
        BY <3>3, <4>3 DEF Verdict, Agrees, Explained
      <4> QED
        BY <4>1, <4>2, <4>3
    <3> HIDE DEF Work
    <3>5. (Agrees(job[w].scan, job[w].verdict) /\ Explained(job[w].scan, job[w].verdict))'
      BY <1>1, <1>4, <3>1, <3>4 DEF Agrees, Explained, Status
    <3> QED
      BY <2>3, <3>5 DEF InProgress
  <2> QED
    BY <1>4, <2>1, <2>2, <2>3
<1> QED
  BY <1>1, <1>4, <1>5, <1>6, QuietGoal

\* module.run returns or raises.
LEMMA ModuleEndsKeepsModules ==
  ASSUME TypeOK, AtMostOneWorker, QueueInv, ModulesInv, NEW w \in Workers, ModuleEnds(w)
  PROVE  ModulesInv'
<1> USE DEF Sets, Forgets, Work, InModule, ModuleOver
<1> DEFINE s == job[w].scan
<1>1. LoopStep(w) /\ scan' = scan /\ run' = run /\ job[w].pc = "module"
  BY DEF LoopStep, ModuleEnds, dbVars, At
<1>2. s \in Scans /\ run \in [Scans -> [Modules -> ModuleRunRow]]
  BY <1>1, LoopContext DEF TypeOK, RowsOK
<1>3. Exists(s) => /\ NextModule(w) \in Modules
                   /\ job[w].todo \subseteq scan[s].selected /\ job[w].todo # {}
                   /\ job[w].out = NoResult /\ job[w].verdict = "failed"
                   /\ Remembers(w) /\ InHand(w)
  BY <1>1, LoopSituation DEF InProgress
<1>4. CASE Forgets(w, "dead")
  <2>1. FreshLoop(w)'
    BY <1>4 DEF FreshLoop
  <2> QED
    BY <1>1, <1>4, <2>1, QuietGoal
<1>5. ASSUME job'[w].pc \in {"store", "settle"}, job'[w].scan = s, job'[w].todo = job[w].todo,
             job'[w].verdict = job[w].verdict, job'[w].pc = "store" => job'[w].out.ok,
             job'[w].pc = "settle" => job'[w].out.found = 0,
             Exists(s) => Remembers(w)'
      PROVE  ModulesInv'
  <2>1. FreshLoop(w)'
    BY <1>5 DEF FreshLoop, Between
  <2>2. ASSUME Exists(s) PROVE InHand(w)'
    <3>1. run[s][NextModule(w)] \in ModuleRunRow
      BY <1>2, <1>3, <2>2
    <3> QED
      BY <1>1, <1>3, <1>5, <2>2, <3>1 DEF InHand, NextModule, ModuleRunRow
  <2>3. Exists(s) => InProgress(w)'
    BY <1>1, <1>3, <1>5, <2>2 DEF InProgress
  <2> QED
    BY <1>1, <1>5, <2>1, <2>3, QuietGoal
<1>6. ASSUME NEW found \in 0..1, NEW warn \in BOOLEAN,
             Sets(w, IF found = 0 THEN "settle" ELSE "store", job[w].todo, TRUE,
                  job[w].bad \/ warn, [ok |-> TRUE, found |-> found, warn |-> warn],
                  job[w].verdict)
      PROVE  ModulesInv'
  <2>1. /\ job'[w].pc \in {"store", "settle"} /\ job'[w].scan = s
        /\ job'[w].todo = job[w].todo /\ job'[w].ok /\ (job'[w].bad <=> job[w].bad \/ warn)
        /\ job'[w].out.ok /\ job'[w].out.found = found /\ job'[w].out.warn = warn
        /\ job'[w].pc = "settle" => found = 0
    <3>1. /\ job'[w].scan = s /\ job'[w].todo = job[w].todo /\ job'[w].ok = TRUE
          /\ job'[w].bad = (job[w].bad \/ warn)
          /\ job'[w].out = [ok |-> TRUE, found |-> found, warn |-> warn]
          /\ job'[w].pc = IF found = 0 THEN "settle" ELSE "store"
      BY <1>6, Zenon
    <3>2. job'[w].ok /\ (job'[w].bad <=> job[w].bad \/ warn)
      BY <3>1, Zenon
    <3>3. job'[w].out.ok /\ job'[w].out.found = found /\ job'[w].out.warn = warn
      BY <3>1
    <3>4. job'[w].pc \in {"store", "settle"} /\ (job'[w].pc = "settle" => found = 0)
      BY <3>1
    <3> QED
      BY <3>1, <3>2, <3>3, <3>4
  <2>2. Settled(w)' = Settled(w)
    BY <1>1, <2>1 DEF Settled
  <2>3. Exists(s) => Remembers(w)'
    BY <1>1, <1>3, <2>1, <2>2, RecallsResult DEF Remembers
  <2> QED
    BY <1>5, <1>6, <2>1, <2>3
<1>7. CASE Sets(w, "settle", job[w].todo, job[w].ok, TRUE, job[w].out, job[w].verdict)
  <2>1. Settled(w)' = Settled(w)
    BY <1>1, <1>7 DEF Settled
  <2>2. Exists(s) => Remembers(w)'
    BY <1>1, <1>3, <1>7, <2>1, RecallsResult DEF Remembers
  <2>3. job[w].out = NoResult \/ ~Exists(s)
    BY <1>3
  <2>4. CASE Exists(s)
    BY <1>3, <1>5, <1>7, <2>2, <2>4 DEF NoResult
  \* The loop of a deleted scan goes on to its next publish.
  <2>5. CASE ~Exists(s)
    <3>1. FreshLoop(w)'
      BY <1>7 DEF FreshLoop, Between
    <3> QED
      BY <1>1, <1>7, <2>5, <3>1, QuietGoal
  <2> QED
    BY <2>4, <2>5
<1> QED
  BY <1>4, <1>6, <1>7, QuietSteps

\* After each event the loop goes on, and a module that ended is no longer to
\* do: the settled modules stay the same.
LEMMA PublishKeepsModules ==
  ASSUME TypeOK, AtMostOneWorker, QueueInv, ModulesInv, NEW w \in Workers, Publish(w)
  PROVE  ModulesInv'
<1> USE DEF Sets, Forgets, Work, InModule, ModuleOver
<1> DEFINE s == job[w].scan
<1>1. LoopStep(w) /\ scan' = scan /\ run' = run /\ job[w].pc \in DOMAIN AfterPublish
  BY DEF LoopStep, Publish, dbVars, At
<1>2. job[w].pc \in {"pubStart", "pubNA", "pubRun", "pubMod", "pubFoot", "pubEnd"}
  BY <1>1 DEF AfterPublish
<1>3. CASE Forgets(w, "dead")
  <2>1. FreshLoop(w)'
    BY <1>3 DEF FreshLoop
  <2> QED
    BY <1>1, <1>3, <2>1, QuietGoal
<1>4. CASE /\ Exists(s)
           /\ Sets(w, AfterPublish[job[w].pc],
                   IF job[w].pc \in {"pubNA", "pubFoot"}
                   THEN job[w].todo \ {NextModule(w)} ELSE job[w].todo,
                   job[w].ok, job[w].bad, job[w].out, job[w].verdict)
  <2>1. /\ job[w].pc = "pubStart" => job'[w].pc = "validate"
        /\ job[w].pc = "pubRun" => job'[w].pc = "module"
        /\ job[w].pc = "pubMod" => job'[w].pc = "pubFoot"
        /\ job[w].pc \in {"pubNA", "pubFoot"} => job'[w].pc = "check"
        /\ job[w].pc = "pubEnd" => job'[w].pc = "retain"
    BY <1>2, <1>4 DEF AfterPublish
  <2>2. FreshLoop(w)'
    BY <1>2, <2>1 DEF FreshLoop, Between
  <2>3. CASE job[w].pc = "pubEnd"
    BY <1>1, <2>1, <2>2, <2>3, QuietGoal
  <2>4. CASE job[w].pc # "pubEnd"
    <3>1. /\ job[w].todo \subseteq scan[s].selected
          /\ job[w].pc # "pubStart" =>
               job[w].todo # {} /\ NextModule(w) \in job[w].todo
          /\ job[w].out = NoResult /\ job[w].verdict = "failed"
          /\ Remembers(w) /\ InHand(w)
      BY <1>1, <1>2, <1>4, <2>4, LoopSituation DEF InProgress
    <3>2. Settled(w)' = Settled(w)
      <4>1. CASE job[w].pc \in {"pubNA", "pubFoot"}
        <5>1. job'[w].todo = job[w].todo \ {NextModule(w)} /\ job'[w].scan = s
          BY <1>4, <4>1
        <5>2. /\ Settled(w)' = scan[s].selected \ (job[w].todo \ {NextModule(w)})
              /\ Settled(w) = (scan[s].selected \ job[w].todo) \cup {NextModule(w)}
          BY <1>1, <2>1, <4>1, <5>1 DEF Settled
        <5> QED
          BY <3>1, <4>1, <5>2
      <4>2. CASE job[w].pc \notin {"pubNA", "pubFoot"}
        <5>1. job'[w].todo = job[w].todo /\ job'[w].scan = s
          BY <1>4, <4>2
        <5> QED
          BY <1>1, <1>2, <2>1, <2>4, <4>2, <5>1 DEF Settled, NextModule
      <4> QED
        BY <4>1, <4>2
    <3>3. /\ job'[w].scan = s /\ job'[w].ok = job[w].ok /\ job'[w].bad = job[w].bad
          /\ job'[w].out = NoResult /\ job'[w].verdict = "failed"
          /\ job'[w].todo \subseteq scan[s].selected
          /\ job'[w].pc # "check" => job'[w].todo = job[w].todo
      BY <1>2, <1>4, <2>1, <3>1
    <3>4. Remembers(w)'
      BY <1>1, <1>2, <2>1, <3>1, <3>2, <3>3, RecallsCarries DEF Remembers
    <3>5. InHand(w)'
      BY <1>1, <1>2, <2>1, <3>1, <3>3 DEF InHand, NextModule
    <3>6. InProgress(w)'
      BY <1>1, <1>2, <2>1, <2>4, <3>1, <3>3, <3>4, <3>5 DEF InProgress
    <3> QED
      BY <1>1, <1>2, <2>1, <2>2, <2>4, <3>3, <3>6, QuietGoal
  <2> QED
    BY <2>3, <2>4
<1> QED
  BY <1>3, <1>4, QuietSteps

\* A loop that writes the row of the module in hand: what has to be shown of
\* the new row, and of the loop.
LEMMA ModuleRowGoal ==
  ASSUME TypeOK, AtMostOneWorker, QueueInv, ModulesInv, NEW w \in Workers, LoopStep(w),
         job[w].pc \in {"begin"} \cup InModule, Exists(job[w].scan), scan' = scan,
         NEW r, OneRow(job[w].scan, NextModule(w), r),
         r.status \in ModuleStatus, r.rows >= r.count,
         r.status = "running" => r.attempts > 0 /\ job'[w].pc \in InModule,
         r.noted => r.attempts > 0 \/ NextModule(w) \in Inapplicable,
         job'[w].pc \in Work \ {"load"}, job'[w].scan = job[w].scan,
         job'[w].todo = job[w].todo, InProgress(w)'
  PROVE  ModulesInv'
<1> DEFINE s == job[w].scan
           m == NextModule(w)
<1>1. /\ phase'[w] = "up" /\ s \in Scans /\ scan[s].status = "running"
      /\ m \in Modules /\ m \in scan[s].selected
  BY LoopContext, LoopSituation DEF Work, InModule
<1>2. FreshLoop(w)'
  BY DEF FreshLoop, Between, Work
<1>3. RunningIsCurrent(w)'
  <2>1. NextModule(w)' = m
    BY DEF NextModule
  <2>2. ASSUME NEW t \in Scans, NEW n \in Modules, run'[t][n].status = "running"
        PROVE  t = s /\ n = m /\ r.status = "running"
    <3>1. \A u \in Scans, k \in Modules : run[u][k].status = "running" => u = s /\ k = m
      BY LoopSituation DEF Status
    <3>2. CASE t = s /\ n = m
      BY <2>2, <3>2 DEF OneRow
    <3>3. CASE ~(t = s /\ n = m)
      <4>1. run'[t][n] = run[t][n]
        BY <3>3 DEF OneRow
      <4> QED
        BY <2>2, <3>1, <3>3, <4>1
    <3> QED
      BY <3>2, <3>3
  <2>3. job'[w].pc # "dead"
    BY DEF Work
  <2> QED
    BY <1>1, <2>1, <2>2, <2>3 DEF RunningIsCurrent, Status
<1>4. ASSUME NEW t \in Scans PROVE RowInv(t)'
  <2>0. RowInv(t) /\ (Doomed(t) => Doomed(t)')
    BY LoopKeepsDoomed DEF ModulesInv
  <2>1. CASE t # s
    BY <2>0, <2>1, RowStays DEF OneRow
  <2>2. CASE t = s
    <3> HIDE DEF m
    <3>1. run'[s][m] = r /\ \A n \in Modules \ {m} : run'[s][n] = run[s][n]
      BY DEF OneRow, m
    <3>2. RowsFollow(s)'
      <4>1. scan[s].selected \subseteq Modules
        BY <1>1 DEF TypeOK, RowsOK, ScanRow
      <4>2. \A n \in scan[s].selected : run[s][n].status \in ModuleStatus
        BY <2>0, <2>2 DEF RowInv, RowsFollow, Status
      <4>3. \A n \in scan[s].selected : run'[s][n].status \in ModuleStatus
        BY <3>1, <4>1, <4>2
      <4> QED
        BY <4>3 DEF RowsFollow, Exists, Status
    <3>3. FindingsStored(s)'
      BY <1>1, <2>0, <2>2, <3>1 DEF RowInv, FindingsStored
    <3>4. (Agrees(s, scan[s].status) /\ Explained(s, scan[s].status))'
      BY <1>1 DEF Agrees, Explained
    <3>5. NotedWasBegun(s)'
      <4>1. \A n \in Modules :
              /\ run[s][n].status = "running" => run[s][n].attempts > 0
              /\ run[s][n].noted =>
                   run[s][n].attempts > 0 \/ n \in Inapplicable \/ Doomed(s)
        BY <2>0, <2>2 DEF RowInv, NotedWasBegun, Status
      <4> QED
        BY <1>1, <2>0, <2>2, <3>1, <4>1 DEF NotedWasBegun, Status, m
    <3> QED
      BY <2>2, <3>2, <3>3, <3>4, <3>5 DEF RowInv
  <2> QED
    BY <2>1, <2>2
<1> QED
  BY <1>2, <1>3, <1>4, LoopGoal

\* A module begins, or is set down as not applicable.
LEMMA BeginKeepsModules ==
  ASSUME TypeOK, AtMostOneWorker, QueueInv, ModulesInv, NEW w \in Workers, BeginModule(w)
  PROVE  ModulesInv'
<1> USE DEF MovesTo, Sets, InModule, ModuleOver
<1> DEFINE s == job[w].scan
           m == NextModule(w)
<1>1. LoopStep(w) /\ scan' = scan /\ job[w].pc = "begin"
  BY DEF LoopStep, BeginModule, At
<1>2. s \in Scans /\ run \in [Scans -> [Modules -> ModuleRunRow]]
  BY <1>1, LoopContext DEF TypeOK, RowsOK, Work
<1>3. Exists(s) => /\ m \in job[w].todo /\ m \in Modules /\ scan[s].status = "running"
                   /\ job[w].todo \subseteq scan[s].selected
                   /\ job[w].out = NoResult /\ job[w].verdict = "failed"
                   /\ Remembers(w)
  BY <1>1, LoopContext, LoopSituation DEF InProgress, Work
<1>4. /\ job'[w].pc \in {"pubNA", "pubRun"} /\ job'[w].scan = s /\ job'[w].todo = job[w].todo
      /\ job'[w].ok = job[w].ok /\ job'[w].bad = job[w].bad /\ job'[w].out = job[w].out
      /\ job'[w].verdict = job[w].verdict
  BY <1>2, <1>3, CommitSteps
<1>5. NextModule(w)' = m
  BY <1>4 DEF NextModule
<1>6. CASE ~Exists(s)
  <2>1. run' = run
    BY <1>2, <1>6, CommitSteps
  <2>2. FreshLoop(w)'
    BY <1>4 DEF FreshLoop, Between
  <2> QED
    BY <1>1, <1>4, <1>6, <2>1, <2>2, QuietGoal
<1>7. CASE Exists(s) /\ m \in Inapplicable
  <2> DEFINE r == [run[s][m] EXCEPT !.status = "not_applicable", !.noted = TRUE, !.count = 0]
  <2>1. job'[w].pc = "pubNA" /\ OneRow(s, m, r)
    BY <1>2, <1>3, <1>7, CommitSteps
  <2>2. r.status = "not_applicable" /\ r.count = 0 /\ r.rows \in Nat
    BY <1>2, <1>3, <1>7 DEF ModuleRunRow
  <2> HIDE DEF m
  <2>3. /\ Settled(w) = scan[s].selected \ job[w].todo
        /\ Settled(w)' = Settled(w) \cup {m} /\ m \notin Settled(w)
    BY <1>1, <1>3, <1>4, <1>5, <1>7, <2>1 DEF Settled
  <2>4. scan[s].selected \subseteq Modules
    BY <1>2 DEF TypeOK, RowsOK, ScanRow
  <2> HIDE DEF r
  <2>5. run'[s][m].status = "not_applicable" /\ \A n \in Settled(w) : run'[s][n] = run[s][n]
    BY <2>1, <2>2, <2>3, <2>4 DEF OneRow
  <2>6. Remembers(w)'
    <3>1. Recalls(job[w], Settled(w), run[s]) /\ job[w].pc # "settle"
      BY <1>1, <1>3, <1>7 DEF Remembers
    <3>2. job'[w].pc # "settle"
      BY <2>1
    <3>3. Recalls(job'[w], Settled(w) \cup {m}, run'[s])
      BY <1>4, <2>5, <3>1, <3>2, RecallsSkipped
    <3> QED
      BY <1>4, <2>3, <3>3 DEF Remembers
  <2>7. InHand(w)'
    BY <2>1 DEF InHand
  <2>8. InProgress(w)'
    BY <1>1, <1>3, <1>4, <1>7, <2>1, <2>6, <2>7 DEF InProgress
  <2>9. r.status \in ModuleStatus /\ r.status # "running" /\ r.rows >= r.count
    BY <2>2 DEF ModuleStatus, TerminalModule
  <2>10. job'[w].pc \in Work \ {"load"}
    BY <2>1 DEF Work
  <2> QED
    BY <1>1, <1>4, <1>7, <2>1, <2>8, <2>9, <2>10, ModuleRowGoal DEF m
<1>8. CASE Exists(s) /\ m \notin Inapplicable
  <2> DEFINE r == [run[s][m] EXCEPT !.status = "running", !.attempts = run[s][m].attempts + 1]
  <2>1. job'[w].pc = "pubRun" /\ OneRow(s, m, r)
    BY <1>2, <1>3, <1>8, CommitSteps
  <2>2. /\ r.status = "running" /\ r.count = run[s][m].count /\ r.rows = run[s][m].rows
        /\ r.attempts = run[s][m].attempts + 1 /\ run[s][m].attempts \in Nat
        /\ r.noted = run[s][m].noted
    BY <1>2, <1>3, <1>8 DEF ModuleRunRow
  \* The scan is not doomed, so a message is from an earlier attempt.
  <2>3. ~Doomed(s)
    <3>1. Executing(w)
      BY <1>1, LoopContext DEF Work
    <3> QED
      BY <1>1, <1>3, <1>8, <3>1 DEF Doomed
  <2>4. /\ run[s][m].rows >= run[s][m].count
        /\ run[s][m].noted => run[s][m].attempts > 0
    BY <1>2, <1>3, <1>8, <2>3 DEF ModulesInv, RowInv, FindingsStored, NotedWasBegun
  <2> HIDE DEF m, r
  <2>5. /\ Settled(w) = scan[s].selected \ job[w].todo
        /\ Settled(w)' = Settled(w) /\ m \notin Settled(w)
    BY <1>1, <1>3, <1>4, <1>5, <1>8, <2>1 DEF Settled
  <2>6. scan[s].selected \subseteq Modules
    BY <1>2 DEF TypeOK, RowsOK, ScanRow
  <2>7. run'[s][m] = r /\ \A n \in Settled(w) : run'[s][n] = run[s][n]
    BY <2>1, <2>5, <2>6 DEF OneRow
  <2>8. Remembers(w)'
    BY <1>1, <1>3, <1>4, <1>8, <2>1, <2>5, <2>7, RecallsCarries DEF Remembers
  <2>9. InHand(w)'
    BY <1>4, <1>5, <2>1, <2>2, <2>4, <2>7 DEF InHand
  <2>10. InProgress(w)'
    BY <1>1, <1>3, <1>4, <1>8, <2>1, <2>8, <2>9 DEF InProgress
  <2>11. /\ r.status \in ModuleStatus /\ r.rows >= r.count /\ r.attempts > 0
         /\ job'[w].pc \in InModule /\ job'[w].pc \in Work \ {"load"}
    BY <2>1, <2>2, <2>4 DEF ModuleStatus, Work
  <2> QED
    BY <1>1, <1>4, <1>8, <2>1, <2>10, <2>11, ModuleRowGoal DEF m
<1> QED
  BY <1>6, <1>7, <1>8

\* Findings are stored before they are reported.
LEMMA StoreKeepsModules ==
  ASSUME TypeOK, AtMostOneWorker, QueueInv, ModulesInv, NEW w \in Workers, StoreFindings(w)
  PROVE  ModulesInv'
<1> USE DEF MovesTo, Sets, Forgets, InModule, ModuleOver
<1> DEFINE s == job[w].scan
           m == NextModule(w)
<1>1. LoopStep(w) /\ scan' = scan /\ job[w].pc = "store"
  BY DEF LoopStep, StoreFindings, At
<1>2. /\ s \in Scans /\ run \in [Scans -> [Modules -> ModuleRunRow]]
      /\ job[w].out.found \in 0..1
  BY <1>1, LoopContext DEF TypeOK, RowsOK, Work, JobRecord
<1>3. Exists(s) => /\ m \in job[w].todo /\ m \in Modules
                   /\ job[w].todo \subseteq scan[s].selected
                   /\ job[w].out.ok /\ job[w].verdict = "failed"
                   /\ Remembers(w) /\ InHand(w)
  BY <1>1, LoopContext, LoopSituation DEF InProgress, Work
<1>4. CASE run' = run /\ Forgets(w, "dead")
  <2>1. FreshLoop(w)'
    BY <1>4 DEF FreshLoop
  <2> QED
    BY <1>1, <1>4, <2>1, QuietGoal DEF Work
<1>5. CASE /\ Exists(s) /\ MovesTo(w, "settle")
           /\ OneRow(s, m, [run[s][m] EXCEPT !.rows = @ + job[w].out.found])
  <2> DEFINE r == [run[s][m] EXCEPT !.rows = @ + job[w].out.found]
  <2>1. OneRow(s, m, r)
    BY <1>5
  <2>2. /\ r.status = run[s][m].status /\ r.count = run[s][m].count
        /\ r.rows = run[s][m].rows + job[w].out.found
        /\ r.attempts = run[s][m].attempts /\ r.noted = run[s][m].noted
        /\ run[s][m].rows \in Nat /\ run[s][m].count \in 0..1
    BY <1>2, <1>3, <1>5 DEF ModuleRunRow
  <2>3. run[s][m].rows >= run[s][m].count
    BY <1>2, <1>3, <1>5 DEF ModulesInv, RowInv, FindingsStored
  <2>4. run[s][m].status \in ModuleStatus
    BY <1>2, <1>3, <1>5 DEF ModulesInv, RowInv, RowsFollow, Status
  <2>5. run[s][m].attempts > 0 /\ (run[s][m].noted => run[s][m].attempts > 1)
    BY <1>1, <1>3, <1>5 DEF InHand
  <2>6. NextModule(w)' = m
    BY <1>5 DEF NextModule
  <2> HIDE DEF m, r
  <2>7. /\ Settled(w) = scan[s].selected \ job[w].todo
        /\ Settled(w)' = Settled(w) /\ m \notin Settled(w)
    BY <1>1, <1>3, <1>5 DEF Settled
  <2>8. scan[s].selected \subseteq Modules
    BY <1>2 DEF TypeOK, RowsOK, ScanRow
  <2>9. run'[s][m] = r /\ \A n \in Settled(w) : run'[s][n] = run[s][n]
    BY <2>1, <2>7, <2>8 DEF OneRow
  <2>10. Remembers(w)'
    BY <1>1, <1>3, <1>5, <2>7, <2>9, RecallsCarries DEF Remembers
  <2>11. InHand(w)'
    <3>1. job'[w].pc = "settle" /\ job'[w].scan = s /\ job'[w].out = job[w].out
      BY <1>5
    <3>2. run'[s][m].rows >= job[w].out.found
      BY <1>2, <2>2, <2>9
    <3>3. /\ NextModule(w)' = m /\ run'[s][m].attempts > 0
          /\ run'[s][m].noted => run'[s][m].attempts > 1
      BY <2>2, <2>5, <2>6, <2>9
    <3> QED
      BY <3>1, <3>2, <3>3 DEF InHand
  <2>12. InProgress(w)'
    BY <1>1, <1>3, <1>5, <2>10, <2>11 DEF InProgress
  <2>13. /\ r.status \in ModuleStatus /\ r.rows >= r.count /\ r.attempts > 0
         /\ job'[w].pc \in InModule /\ job'[w].pc \in Work \ {"load"}
         /\ job'[w].scan = s /\ job'[w].todo = job[w].todo
    <3>1. job'[w].pc = "settle" /\ job'[w].scan = s /\ job'[w].todo = job[w].todo
      BY <1>5
    <3> QED
      BY <1>2, <2>2, <2>3, <2>4, <2>5, <3>1 DEF Work
  <2> QED
    BY <1>1, <1>5, <2>1, <2>12, <2>13, ModuleRowGoal DEF m
<1> QED
  BY <1>2, <1>3, <1>4, <1>5, CommitSteps, ZenonT(40)

\* A module is settled: from then on it is among those the loop remembers.
LEMMA SettleKeepsModules ==
  ASSUME TypeOK, AtMostOneWorker, QueueInv, ModulesInv, NEW w \in Workers, SettleModule(w)
  PROVE  ModulesInv'
<1> USE DEF MovesTo, Sets, InModule, ModuleOver
<1> DEFINE s == job[w].scan
           m == NextModule(w)
           out == job[w].out
<1>1. LoopStep(w) /\ scan' = scan /\ job[w].pc = "settle"
  BY DEF LoopStep, SettleModule, At
<1>2. /\ s \in Scans /\ run \in [Scans -> [Modules -> ModuleRunRow]]
      /\ out.found \in 0..1 /\ out.ok \in BOOLEAN /\ out.warn \in BOOLEAN
  BY <1>1, LoopContext DEF TypeOK, RowsOK, Work, JobRecord
<1>3. Exists(s) => /\ m \in job[w].todo /\ m \in Modules
                   /\ job[w].todo \subseteq scan[s].selected
                   /\ job[w].verdict = "failed"
                   /\ Remembers(w) /\ InHand(w)
  BY <1>1, LoopContext, LoopSituation DEF InProgress, Work
<1>4. /\ job'[w].pc = "pubMod" /\ job'[w].scan = s /\ job'[w].todo = job[w].todo
      /\ job'[w].ok = job[w].ok /\ job'[w].bad = job[w].bad /\ job'[w].out = NoResult
      /\ job'[w].verdict = job[w].verdict
  BY <1>2, <1>3, CommitSteps
<1>5. NextModule(w)' = m
  BY <1>4 DEF NextModule
<1>6. CASE ~Exists(s)
  <2>1. run' = run
    BY <1>2, <1>6, CommitSteps
  <2>2. FreshLoop(w)'
    BY <1>4 DEF FreshLoop, Between
  <2>3. RunningIsCurrent(w)'
    <3>1. run[s] = [n \in Modules |-> NoRun]
      BY <1>2, <1>6 DEF ModulesInv, RowInv, RowsFollow
    <3>2. \A t \in Scans, n \in Modules : run[t][n].status # "running"
      BY <1>1, <3>1, LoopSituation DEF Status, NoRun
    <3> QED
      BY <2>1, <3>2 DEF RunningIsCurrent, Status
  <2>4. \A t \in Scans : RowInv(t)'
    BY <1>1, <2>1, LoopKeepsDoomed, RowStays DEF ModulesInv
  <2> QED
    BY <1>1, <1>4, <1>6, <2>2, <2>3, <2>4, LoopGoal DEF Exists
<1>7. CASE Exists(s)
  <2> DEFINE r == [run[s][m] EXCEPT !.status = IF out.ok THEN "done" ELSE "failed",
                                    !.noted  = @ \/ ~out.ok \/ out.warn,
                                    !.count  = out.found]
  <2>1. OneRow(s, m, r)
    BY <1>2, <1>3, <1>7, CommitSteps
  <2>2. /\ r.count = out.found /\ r.rows = run[s][m].rows /\ r.attempts = run[s][m].attempts
        /\ r.status = (IF out.ok THEN "done" ELSE "failed")
        /\ r.noted = (run[s][m].noted \/ ~out.ok \/ out.warn)
    BY <1>2, <1>3, <1>7 DEF ModuleRunRow
  <2>3. r.noted <=> run[s][m].noted \/ ~out.ok \/ out.warn
    BY <2>2, Zenon
  <2>4. /\ run[s][m].rows >= out.found
        /\ run[s][m].attempts > 0 /\ (run[s][m].noted => run[s][m].attempts > 1)
    BY <1>1, <1>3, <1>7 DEF InHand
  <2> HIDE DEF m, r
  <2>5. /\ Settled(w) = scan[s].selected \ job[w].todo
        /\ Settled(w)' = Settled(w) \cup {m} /\ m \notin Settled(w)
    BY <1>1, <1>3, <1>4, <1>5, <1>7 DEF Settled
  <2>6. scan[s].selected \subseteq Modules
    BY <1>2 DEF TypeOK, RowsOK, ScanRow
  <2>7. run'[s][m] = r /\ \A n \in Settled(w) : run'[s][n] = run[s][n]
    BY <2>1, <2>5, <2>6 DEF OneRow
  <2>8. Remembers(w)'
    <3>1. Recalls(job[w], Settled(w), run[s]) /\ job[w].pc = "settle"
      BY <1>1, <1>3, <1>7 DEF Remembers
    <3>2. /\ run'[s][m].status = (IF out.ok THEN "done" ELSE "failed")
          /\ run'[s][m].noted <=> run[s][m].noted \/ ~out.ok \/ out.warn
          /\ run[s][m].noted => run'[s][m].attempts > 1
      BY <2>2, <2>3, <2>4, <2>7
    <3>3. Recalls(job'[w], Settled(w) \cup {m}, run'[s])
      <4> DEFINE j == job[w]
                 k == job'[w]
                 R == run[s]
                 Q == run'[s]
                 T == Settled(w)
      <4>1. /\ Recalls(j, T, R) /\ k.ok = j.ok /\ k.bad = j.bad /\ k.out = NoResult
            /\ j.pc = "settle" /\ k.pc # "settle" /\ \A n \in T : Q[n] = R[n]
            /\ Q[m].status = (IF j.out.ok THEN "done" ELSE "failed")
            /\ Q[m].noted <=> R[m].noted \/ ~j.out.ok \/ j.out.warn
            /\ R[m].noted => Q[m].attempts > 1
        BY <1>4, <2>7, <3>1, <3>2
      <4> HIDE DEF j, k, R, Q, T
      <4>2. Recalls(k, T \cup {m}, Q)
        BY <4>1, RecallsSettled
      <4> QED
        BY <4>2 DEF k, Q, T
    <3> QED
      BY <1>4, <2>5, <3>3 DEF Remembers
  <2>9. InHand(w)'
    BY <1>4 DEF InHand
  <2>10. InProgress(w)'
    BY <1>1, <1>3, <1>4, <1>7, <2>8, <2>9 DEF InProgress
  <2>11. /\ r.status \in ModuleStatus /\ r.status # "running" /\ r.rows >= r.count
         /\ r.attempts > 0 /\ job'[w].pc \in Work \ {"load"}
    BY <1>4, <2>2, <2>4 DEF ModuleStatus, TerminalModule, Work
  <2> QED
    BY <1>1, <1>4, <1>7, <2>1, <2>10, <2>11, ModuleRowGoal DEF m
<1> QED
  BY <1>6, <1>7

\* A claim takes a queued scan, whose modules nobody has in hand.
LEMMA ClaimKeepsModules ==
  ASSUME TypeOK, AtMostOneWorker, QueueInv, ModulesInv, NEW w \in Workers, ClaimWrite(w)
  PROVE  ModulesInv'
<1> USE DEF MovesTo, Sets, Forgets
<1> DEFINE s == job[w].scan
<1>1. LoopStep(w) /\ run' = run /\ job[w].pc = "claim"
  BY DEF LoopStep, ClaimWrite, At
<1>2. s \in Scans /\ scan \in [Scans -> ScanRow] /\ job \in [Workers -> Job] /\ FreshLoop(w)
  BY <1>1, LoopContext DEF TypeOK, RowsOK, LoopsOK, ModulesInv, LoopInv
<1>3. CASE scan[s].status # "queued"
  <2>1. Forgets(w, "idle") /\ scan' = scan
    BY <1>2, <1>3, JobBecomes, ZenonT(40) DEF ClaimWrite
  <2>2. FreshLoop(w)'
    BY <2>1 DEF FreshLoop
  <2> QED
    BY <1>1, <2>1, <2>2, QuietGoal DEF InModule, Work
<1>4. CASE scan[s].status = "queued"
  <2>1. /\ MovesTo(w, "load") /\ scan'[s].status = "running"
        /\ \A t \in Scans \ {s} : scan'[t] = scan[t]
        /\ scan'[s].cancel = scan[s].cancel /\ scan'[s].selected = scan[s].selected
    <3>1. /\ scan' = [scan EXCEPT ![s].status = "running", ![s].owner = w]
          /\ Goto(w, "load")
      BY <1>4 DEF ClaimWrite
    <3>2. MovesTo(w, "load")
      BY <1>2, <3>1, JobBecomes
    <3> QED
      BY <1>2, <3>1, <3>2 DEF ScanRow
  <2>2. FreshLoop(w)' /\ InProgress(w)'
    BY <1>1, <1>2, <2>1 DEF FreshLoop, InProgress
  <2>3. RunningIsCurrent(w)'
    BY <1>1, LoopSituation DEF InModule, RunningIsCurrent, Status
  <2>4. ASSUME NEW t \in Scans PROVE RowInv(t)'
    <3>1. RowInv(t) /\ (Doomed(t) => Doomed(t)')
      BY <1>1, LoopKeepsDoomed DEF ModulesInv
    <3>2. CASE t # s
      BY <1>1, <2>1, <3>1, <3>2, RowStays
    <3>3. CASE t = s
      <4>1. RowsFollow(t)' /\ FindingsStored(t)'
        BY <1>1, <1>4, <2>1, <3>1, <3>3
           DEF RowInv, RowsFollow, FindingsStored, Exists, ScanStatus, Status
      <4>2. (Agrees(t, scan[t].status) /\ Explained(t, scan[t].status))'
        BY <2>1, <3>3 DEF Agrees, Explained
      <4>3. NotedWasBegun(t)'
        BY <1>1, <3>1, <3>3 DEF RowInv, NotedWasBegun, Status
      <4> QED
        BY <3>3, <4>1, <4>2, <4>3 DEF RowInv
    <3> QED
      BY <3>2, <3>3
  <2> QED
    BY <1>1, <2>2, <2>3, <2>4, LoopGoal
<1> QED
  BY <1>3, <1>4

\* A cancelled scan leaves no module open.
LEMMA SkipKeepsModules ==
  ASSUME TypeOK, AtMostOneWorker, QueueInv, ModulesInv, NEW w \in Workers,
         MarkRemainingSkipped(w)
  PROVE  ModulesInv'
<1> USE DEF MovesTo, Sets
<1> DEFINE s == job[w].scan
           Skipped(n) == [run[s][n] EXCEPT !.status = "skipped", !.noted = TRUE]
<1>1. LoopStep(w) /\ scan' = scan /\ job[w].pc = "skip"
  BY DEF LoopStep, MarkRemainingSkipped, At
<1>2. /\ s \in Scans /\ scan \in [Scans -> ScanRow] /\ job \in [Workers -> Job]
      /\ run \in [Scans -> [Modules -> ModuleRunRow]]
  BY <1>1, LoopContext DEF TypeOK, RowsOK, LoopsOK, Work
<1>3. Exists(s) => /\ scan[s].status = "running" /\ scan[s].cancel
                   /\ job[w].verdict = "canceled"
  BY <1>1, LoopContext, LoopSituation DEF InProgress, Work
<1>4. /\ MovesTo(w, "finish") /\ \A t \in Scans \ {s} : run'[t] = run[t]
      /\ \A n \in Modules : run'[s][n] =
           IF run[s][n].status \in {"queued", "running"} THEN Skipped(n) ELSE run[s][n]
  BY <1>2, JobBecomes DEF MarkRemainingSkipped
<1>5. \A n \in Modules :
        /\ Skipped(n).status = "skipped" /\ Skipped(n).rows = run[s][n].rows
        /\ Skipped(n).count = run[s][n].count /\ Skipped(n).attempts = run[s][n].attempts
  BY <1>2 DEF ModuleRunRow
<1> HIDE DEF Skipped
<1>6. FreshLoop(w)'
  BY <1>4 DEF FreshLoop, Between
<1>7. RunningIsCurrent(w)'
  BY <1>1, <1>2, <1>4, <1>5, LoopSituation DEF RunningIsCurrent, Status, InModule
<1>8. ASSUME Exists(s) PROVE \A n \in scan[s].selected : run'[s][n].status \in TerminalModule
  <2>1. scan[s].selected \subseteq Modules
    BY <1>2 DEF ScanRow
  <2>2. \A n \in scan[s].selected : run[s][n].status \in ModuleStatus
    BY <1>2, <1>8 DEF ModulesInv, RowInv, RowsFollow, Status
  <2> QED
    BY <1>4, <1>5, <2>1, <2>2 DEF ModuleStatus, TerminalModule
<1>9. Exists(s) => InProgress(w)'
  BY <1>1, <1>3, <1>4, <1>8 DEF InProgress, Agrees, Explained, Status
<1>10. ASSUME NEW t \in Scans PROVE RowInv(t)'
  <2>1. RowInv(t) /\ (Doomed(t) => Doomed(t)')
    BY <1>1, LoopKeepsDoomed DEF ModulesInv
  <2>2. CASE t # s
    BY <1>1, <1>4, <2>1, <2>2, RowStays
  <2>3. CASE t = s /\ ~Exists(s)
    <3>1. run[s] = [n \in Modules |-> NoRun]
      BY <2>1, <2>3 DEF RowInv, RowsFollow
    <3>2. \A n \in Modules : run'[s][n] = run[s][n]
      BY <1>4, <3>1 DEF NoRun
    <3>3. run'[s] = run[s]
      <4>1. run' \in [Scans -> [Modules -> ModuleRunRow]]
        BY <1>1, RunnerTypeStep DEF Next, TypeOK, RowsOK
      <4> QED
        BY <1>2, <3>2, <4>1
    <3> QED
      BY <1>1, <2>1, <2>3, <3>3, RowStays
  <2>4. CASE t = s /\ Exists(s)
    <3>1. Doomed(t)'
      <4>1. \A v \in Workers \ {w} : ~Executing(v)'
        BY <1>1, LoopContext
      <4> QED
        BY <1>1, <1>3, <1>4, <2>4, <4>1 DEF Doomed
    <3>2. RowsFollow(t)'
      BY <1>1, <1>8, <2>4 DEF RowsFollow, Exists, Status, ModuleStatus
    <3>3. FindingsStored(t)'
      BY <1>4, <1>5, <2>1, <2>4 DEF RowInv, FindingsStored
    <3>4. (Agrees(t, scan[t].status) /\ Explained(t, scan[t].status))'
      BY <1>1, <1>3, <2>4 DEF Agrees, Explained
    <3>5. NotedWasBegun(t)'
      <4>1. \A n \in Modules : run'[s][n].status = "running" => run'[s][n] = run[s][n]
        BY <1>4, <1>5
      <4> QED
        BY <2>1, <2>4, <3>1, <4>1 DEF RowInv, NotedWasBegun, Status
    <3> QED
      BY <2>4, <3>2, <3>3, <3>4, <3>5 DEF RowInv
  <2> QED
    BY <2>2, <2>3, <2>4
<1> QED
  BY <1>1, <1>4, <1>6, <1>7, <1>9, <1>10, LoopGoal DEF Exists

\* _finish writes a verdict that agrees with the modules.
LEMMA FinishKeepsModules ==
  ASSUME TypeOK, AtMostOneWorker, QueueInv, ModulesInv, NEW w \in Workers, Finish(w)
  PROVE  ModulesInv'
<1> USE DEF MovesTo, Sets
<1> DEFINE s == job[w].scan
<1>1. LoopStep(w) /\ run' = run /\ job[w].pc = "finish"
  BY DEF LoopStep, Finish, At
<1>2. /\ s \in Scans /\ scan \in [Scans -> ScanRow] /\ job \in [Workers -> Job]
      /\ job[w].verdict \in TerminalScan
  BY <1>1, LoopContext DEF TypeOK, RowsOK, LoopsOK, Work, JobRecord
<1>3. job'[w].pc = "pubEnd"
  BY <1>2, JobBecomes DEF Finish
<1>4. FreshLoop(w)'
  BY <1>3 DEF FreshLoop, Between
<1>5. CASE ~Exists(s)
  <2>1. scan' = scan
    BY <1>5 DEF Finish
  <2> QED
    BY <1>1, <1>3, <1>4, <2>1, QuietGoal DEF Work, InModule
<1>6. CASE Exists(s)
  <2>1. /\ scan'[s].status = job[w].verdict /\ scan'[s].cancel = scan[s].cancel
        /\ scan'[s].selected = scan[s].selected
        /\ \A t \in Scans \ {s} : scan'[t] = scan[t]
    BY <1>2, <1>6 DEF Finish, ScanRow
  <2>2. Agrees(s, job[w].verdict) /\ Explained(s, job[w].verdict)
    BY <1>1, <1>6, LoopSituation DEF InProgress, Work
  <2>3. RunningIsCurrent(w)'
    BY <1>1, LoopSituation DEF RunningIsCurrent, Status, InModule
  <2>4. ASSUME NEW t \in Scans PROVE RowInv(t)'
    <3>1. RowInv(t) /\ (Doomed(t) => Doomed(t)')
      BY <1>1, LoopKeepsDoomed DEF ModulesInv
    <3>2. CASE t # s
      BY <1>1, <2>1, <3>1, <3>2, RowStays
    <3>3. CASE t = s
      <4>1. RowsFollow(t)' /\ FindingsStored(t)'
        BY <1>1, <1>2, <1>6, <2>1, <3>1, <3>3
           DEF RowInv, RowsFollow, FindingsStored, Exists, ScanStatus, Status
      <4>2. (Agrees(t, scan[t].status) /\ Explained(t, scan[t].status))'
        BY <1>1, <2>1, <2>2, <3>3 DEF Agrees, Explained, Status
      <4>3. NotedWasBegun(t)'
        BY <1>1, <3>1, <3>3 DEF RowInv, NotedWasBegun, Status
      <4> QED
        BY <3>3, <4>1, <4>2, <4>3 DEF RowInv
    <3> QED
      BY <3>2, <3>3
  <2> QED
    BY <1>1, <1>3, <1>4, <2>3, <2>4, LoopGoal DEF Work
<1> QED
  BY <1>5, <1>6

\* What retention and delete_scan leave of the rows.
Cleared(gone) ==
  /\ scan' = ScansWithout(gone)
  /\ run' = RunsWithout(gone)

LEMMA ClearedRows ==
  ASSUME NEW gone, Cleared(gone), NEW t \in Scans, RowInv(t),
         t \notin gone /\ Doomed(t) => Doomed(t)'
  PROVE  RowInv(t)' /\ \A m \in Modules :
           run'[t][m].status = "running" => run[t][m].status = "running"
<1>1. CASE t \in gone
  <2>1. scan'[t] = Blank("deleted") /\ run'[t] = [m \in Modules |-> NoRun]
    BY <1>1 DEF Cleared, ScansWithout, RunsWithout
  <2>2. \A m \in Modules : run'[t][m].status # "running"
    BY <2>1 DEF NoRun
  <2> QED
    BY <2>1, <2>2, DeletedRow
<1>2. CASE t \notin gone
  <2>1. scan'[t] = scan[t] /\ run'[t] = run[t]
    BY <1>2 DEF Cleared, ScansWithout, RunsWithout
  <2>2. RowInv(t)'
    BY <1>2, <2>1, RowStays
  <2> QED
    BY <2>1, <2>2
<1> QED
  BY <1>1, <1>2

LEMMA RetainKeepsModules ==
  ASSUME TypeOK, AtMostOneWorker, QueueInv, ModulesInv, NEW w \in Workers, Retain(w)
  PROVE  ModulesInv'
<1>1. LoopStep(w) /\ Cleared(Swept) /\ job[w].pc = "retain" /\ Forgets(w, "idle")
  BY JobBecomes DEF LoopStep, Retain, RunRetention, Cleared, At, TypeOK, LoopsOK
<1>2. \A t \in Scans : RowInv(t)' /\ \A m \in Modules :
        run'[t][m].status = "running" => run[t][m].status = "running"
  BY <1>1, ClearedRows, LoopKeepsDoomed DEF ModulesInv
<1>3. FreshLoop(w)'
  BY <1>1 DEF FreshLoop, Forgets
<1>4. RunningIsCurrent(w)'
  BY <1>1, <1>2, LoopSituation DEF RunningIsCurrent, Status, InModule
<1> QED
  BY <1>1, <1>2, <1>3, <1>4, LoopGoal DEF Work, Forgets

LEMMA LoopKeepsModules ==
  ASSUME TypeOK, AtMostOneWorker, QueueInv, ModulesInv, NEW w \in Workers, LoopStep(w)
  PROVE  ModulesInv'
BY DispatchKeepsModules, ClaimKeepsModules, CancelCheckKeepsModules, BeginKeepsModules,
   ModuleEndsKeepsModules, StoreKeepsModules, SettleKeepsModules, SkipKeepsModules,
   FinishKeepsModules, RetainKeepsModules, PublishKeepsModules DEF LoopStep

LEMMA AgreesStays ==
  ASSUME NEW s, NEW verdict, Agrees(s, verdict),
         scan'[s].selected = scan[s].selected, scan[s].cancel => scan'[s].cancel,
         \A m \in scan[s].selected : run'[s][m] = run[s][m]
  PROVE  Agrees(s, verdict)'
BY DEF Agrees, Status

\* What the other steps leave of a loop that they do not move.
LEMMA LoopStays ==
  ASSUME NEW v \in Workers, LoopInv(v), job'[v] = job[v], phase'[v] = phase[v],
         \A t \in Scans, m \in Modules :
           run'[t][m].status = "running" => run[t][m].status = "running",
         Executing(v) /\ scan'[job[v].scan].status \in ScanStatus =>
           /\ Exists(job[v].scan)
           /\ scan'[job[v].scan].selected = scan[job[v].scan].selected
           /\ scan[job[v].scan].cancel => scan'[job[v].scan].cancel
           /\ run'[job[v].scan] = run[job[v].scan]
  PROVE  LoopInv(v)'
<1>1. FreshLoop(v)'
  BY DEF LoopInv, FreshLoop
<1>2. RunningIsCurrent(v)'
  BY DEF LoopInv, RunningIsCurrent, Status, NextModule
<1>3. ASSUME Executing(v)', Exists(job[v].scan)' PROVE InProgress(v)'
  <2> DEFINE s == job[v].scan
  <2>1. /\ InProgress(v) /\ s' = s
        /\ scan'[s].selected = scan[s].selected /\ run'[s] = run[s]
        /\ scan[s].cancel => scan'[s].cancel
    BY <1>3 DEF LoopInv, Executing, Exists
  <2>2. Settled(v)' = Settled(v) /\ NextModule(v)' = NextModule(v)
    BY <2>1 DEF Settled, NextModule
  <2>3. Remembers(v) => Remembers(v)'
    BY <2>1, <2>2, RecallsCarries DEF Remembers
  <2>4. InHand(v) => InHand(v)'
    BY <2>1, <2>2 DEF InHand
  <2>5. Agrees(s, job[v].verdict) => Agrees(s, job[v].verdict)'
    BY <2>1, AgreesStays
  <2>6. Explained(s, job[v].verdict) => Explained(s, job[v].verdict)'
    BY <2>1 DEF Explained, Status
  <2> QED
    BY <2>1, <2>3, <2>4, <2>5, <2>6 DEF InProgress
<1> QED
  BY <1>1, <1>2, <1>3 DEF LoopInv

\* A doomed scan stays one when no loop moves on with it.
LEMMA DoomedStays ==
  ASSUME NEW t \in Scans, Doomed(t),
         scan'[t].status \in {scan[t].status, "queued", "deleted"},
         scan[t].status = "deleted" => scan'[t].status = "deleted",
         scan[t].cancel => scan'[t].cancel \/ scan'[t].status = "deleted",
         \A v \in Workers : Executing(v)' => Executing(v) /\ job'[v] = job[v]
  PROVE  Doomed(t)'
BY DEF Doomed

\* Requests, and the passing of time.
LEMMA RequestsKeepModules ==
  ASSUME TypeOK, QueueInv, ModulesInv,
         \/ GrowOld \/ LapseStep
         \/ \E s \in Scans, sel \in SUBSET Modules : CreateScan(s, sel)
         \/ \E s \in Scans : DeleteScan(s)
         \/ \E w \in Workers, s \in Scans : CancelRead(w, s)
         \/ \E w \in Workers : CancelWrite(w)
  PROVE  ModulesInv' /\ \A t \in Scans : Doomed(t) => Doomed(t)'
<1>1. /\ scan \in [Scans -> ScanRow] /\ run \in [Scans -> [Modules -> ModuleRunRow]]
      /\ ask \in [Workers -> Scans \cup {NoScan}]
  BY DEF TypeOK, RowsOK, LoopsOK
<1>2. job' = job /\ phase' = phase
  BY DEF GrowOld, LapseStep, Lapse, CreateScan, DeleteScan, CancelRead, CancelWrite, lockVars
<1>3. \A v \in Workers : /\ Executing(v)' => Executing(v) /\ job'[v] = job[v]
                         /\ Executing(v) => /\ job[v].scan \in Scans
                                            /\ scan[job[v].scan].status # "none"
  <2> SUFFICES ASSUME NEW v \in Workers
               PROVE  /\ Executing(v)' => Executing(v) /\ job'[v] = job[v]
                      /\ Executing(v) => /\ job[v].scan \in Scans
                                         /\ scan[job[v].scan].status # "none"
    OBVIOUS
  <2>1. Executing(v) => job[v].pc \notin Between
    BY DEF Executing, Between, QueueInv, LoopNeedsProcess
  <2>2. job[v].pc \notin Between => job[v].scan \in Scans
    BY DEF TypeOK, LoopsOK, Job, JobRecord
  <2> QED
    BY <1>2, <2>1, <2>2 DEF Executing, QueueInv, ExecutesCreated
<1>4. \A v \in Workers : LoopInv(v)
  BY DEF ModulesInv
<1>5. ASSUME NEW s \in Scans, NEW sel \in SUBSET Modules, CreateScan(s, sel)
      PROVE  ModulesInv' /\ \A t \in Scans : Doomed(t) => Doomed(t)'
  <2>1. /\ scan[s].status = "none" /\ scan'[s].status = "queued" /\ scan'[s].selected = sel
        /\ \A t \in Scans \ {s} : scan'[t] = scan[t] /\ run'[t] = run[t]
    BY <1>1, <1>5 DEF CreateScan, Blank
  <2>2. \A m \in Modules : /\ run'[s][m].status = IF m \in sel THEN "queued" ELSE "none"
                           /\ run'[s][m].rows = 0 /\ run'[s][m].count = 0
                           /\ run'[s][m].noted = FALSE
    BY <1>1, <1>5 DEF CreateScan, NoRun
  <2>3. ASSUME NEW t \in Scans, Doomed(t) PROVE Doomed(t)'
    <3>1. t # s
      BY <2>1, <2>3 DEF Doomed
    <3> QED
      BY <1>3, <2>1, <2>3, <3>1, DoomedStays
  <2>4. \A v \in Workers : LoopInv(v)'
    <3>1. \A t \in Scans, m \in Modules :
            run'[t][m].status = "running" => run[t][m].status = "running"
      BY <2>1, <2>2
    <3> QED
      BY <1>2, <1>3, <1>4, <2>1, <3>1, LoopStays DEF Exists
  <2>5. ASSUME NEW t \in Scans PROVE RowInv(t)'
    <3>1. CASE t # s
      BY <2>1, <2>3, <3>1, RowStays DEF ModulesInv
    <3>2. CASE t = s
      <4>1. RowsFollow(t)'
        BY <2>1, <2>2, <3>2 DEF RowsFollow, Exists, Status, ScanStatus, ModuleStatus
      <4>2. FindingsStored(t)' /\ NotedWasBegun(t)'
        BY <2>2, <3>2 DEF FindingsStored, NotedWasBegun, Status
      <4>3. (Agrees(t, scan[t].status) /\ Explained(t, scan[t].status))'
        BY <2>1, <3>2 DEF Agrees, Explained
      <4> QED
        BY <4>1, <4>2, <4>3 DEF RowInv
    <3> QED
      BY <3>1, <3>2
  <2> QED
    BY <2>3, <2>4, <2>5 DEF ModulesInv
<1>6. ASSUME NEW s \in Scans, DeleteScan(s)
      PROVE  ModulesInv' /\ \A t \in Scans : Doomed(t) => Doomed(t)'
  <2>1. /\ Cleared({s}) /\ scan'[s].status = "deleted"
        /\ \A t \in Scans \ {s} : scan'[t] = scan[t] /\ run'[t] = run[t]
    BY <1>6 DEF DeleteScan, Cleared, ScansWithout, RunsWithout, Blank
  <2>2. \A t \in Scans : Doomed(t) => Doomed(t)'
    BY <1>3, <2>1, DoomedStays
  <2>3. \A t \in Scans : RowInv(t)' /\ \A m \in Modules :
          run'[t][m].status = "running" => run[t][m].status = "running"
    BY <2>1, <2>2, ClearedRows DEF ModulesInv
  <2>4. \A v \in Workers : LoopInv(v)'
    BY <1>2, <1>3, <1>4, <2>1, <2>3, LoopStays DEF Exists, ScanStatus, TerminalScan
  <2> QED
    BY <2>2, <2>3, <2>4 DEF ModulesInv
\* The rest writes cancel_requested at most.
<1>7. ASSUME run' = run,
             \A t \in Scans : /\ scan'[t].status = scan[t].status
                              /\ scan'[t].selected = scan[t].selected
                              /\ scan[t].cancel => scan'[t].cancel
      PROVE  ModulesInv' /\ \A t \in Scans : Doomed(t) => Doomed(t)'
  <2>1. \A t \in Scans : Doomed(t) => Doomed(t)'
    BY <1>3, <1>7, DoomedStays
  <2>2. \A t \in Scans : RowInv(t)'
    BY <1>7, <2>1, RowStays DEF ModulesInv
  <2>3. \A v \in Workers : LoopInv(v)'
    BY <1>2, <1>3, <1>4, <1>7, LoopStays DEF Exists
  <2> QED
    BY <2>1, <2>2, <2>3 DEF ModulesInv
<1>8. ASSUME NEW w \in Workers, CancelWrite(w)
      PROVE  ModulesInv' /\ \A t \in Scans : Doomed(t) => Doomed(t)'
  <2>1. ask[w] \in Scans
    BY <1>1, <1>8 DEF CancelWrite
  <2> QED
    BY <1>1, <1>7, <1>8, <2>1 DEF CancelWrite, ScanRow
<1>9. \/ GrowOld \/ LapseStep \/ \E w \in Workers, s \in Scans : CancelRead(w, s)
      => scan' = scan /\ run' = run
  BY DEF GrowOld, LapseStep, CancelRead, dbVars
<1> QED
  BY <1>5, <1>6, <1>7, <1>8, <1>9

\* The lock, the start of a process and its end.
LEMMA ProcessesKeepModules ==
  ASSUME TypeOK, AtMostOneWorker, QueueInv, ModulesInv, NEW w \in Workers,
         \/ LockStep(w) \/ StartStep(w)
         \/ Stop(w) \/ StopRaises(w) \/ ProcessDies(w)
  PROVE  ModulesInv' /\ \A t \in Scans : Doomed(t) => Doomed(t)'
<1>1. /\ scan \in [Scans -> ScanRow] /\ run \in [Scans -> [Modules -> ModuleRunRow]]
      /\ job \in [Workers -> Job] /\ phase \in [Workers -> Phases]
  BY DEF TypeOK, RowsOK, LoopsOK, LockTypeOK
<1>2. \A v \in Workers : LoopInv(v)
  BY DEF ModulesInv
<1>3. CASE LockStep(w)
  <2>1. scan' = scan /\ run' = run /\ job' = job
    BY <1>3 DEF LockStep, dbVars
  <2>2. /\ \A v \in Workers \ {w} : phase'[v] = phase[v]
        /\ \/ phase'[w] = phase[w]
           \/ phase[w] \notin {"locked", "up"} /\ phase'[w] # "up"
    BY <1>1, <1>3 DEF LockStep, AcquireReadNone, AcquireReadStale, AcquireRefused,
       AcquireInsert, AcquireTakeOver, Beat, ReleaseDelete, Enter
  <2>3. \A v \in Workers : Executing(v)' => Executing(v) /\ job'[v] = job[v]
    BY <2>1, <2>2 DEF Executing
  <2>4. \A t \in Scans : Doomed(t) => Doomed(t)'
    BY <2>1, <2>3, DoomedStays
  <2>5. \A t \in Scans : RowInv(t)'
    BY <2>1, <2>4, RowStays DEF ModulesInv
  <2>6. ASSUME NEW v \in Workers PROVE LoopInv(v)'
    <3>1. CASE phase'[v] = phase[v]
      BY <1>2, <2>1, <3>1, LoopStays DEF Exists
    <3>2. CASE phase[v] \notin {"locked", "up"} /\ phase'[v] # "up"
      <4>1. job'[v].pc = "off"
        BY <2>1, <3>2 DEF QueueInv, LoopNeedsProcess
      <4>2. FreshLoop(v)' /\ RunningIsCurrent(v)' /\ ~Executing(v)'
        BY <1>2, <2>1, <3>2, <4>1 DEF LoopInv, FreshLoop, RunningIsCurrent, Executing
      <4> QED
        BY <4>2 DEF LoopInv
    <3> QED
      BY <2>2, <3>1, <3>2
  <2> QED
    BY <2>4, <2>5, <2>6 DEF ModulesInv
<1>4. CASE Stop(w) \/ StopRaises(w) \/ ProcessDies(w)
  <2>1. /\ scan' = scan /\ run' = run /\ phase'[w] \notin {"locked", "up"}
        /\ job' = [job EXCEPT ![w] = NoJob("off")]
        /\ \A v \in Workers \ {w} : phase'[v] = phase[v] /\ job'[v] = job[v]
    BY <1>1, <1>4 DEF Stop, StopRaises, ProcessDies, ReleaseRead, Crash, Enter,
       ForgetProcess, dbVars
  <2>2. \A v \in Workers : Executing(v)' => Executing(v) /\ job'[v] = job[v]
    BY <2>1 DEF Executing
  <2>3. \A t \in Scans : Doomed(t) => Doomed(t)'
    BY <2>1, <2>2, DoomedStays
  <2>4. \A t \in Scans : RowInv(t)'
    BY <2>1, <2>3, RowStays DEF ModulesInv
  <2>5. LoopInv(w)'
    <3>1. Forgets(w, "off")
      BY <1>1, <2>1, JobBecomes
    <3>2. FreshLoop(w)' /\ RunningIsCurrent(w)' /\ ~Executing(w)'
      BY <2>1, <3>1 DEF FreshLoop, Forgets, RunningIsCurrent, Executing
    <3> QED
      BY <3>2 DEF LoopInv
  <2>6. ASSUME NEW v \in Workers \ {w} PROVE LoopInv(v)'
    BY <1>2, <2>1, LoopStays DEF Exists
  <2> QED
    BY <2>3, <2>4, <2>5, <2>6 DEF ModulesInv
\* No other process works while one starts.
<1>5. CASE StartStep(w)
  <2>1. phase[w] = "locked" /\ \A v \in Workers \ {w} : phase[v] \notin {"locked", "up"}
    BY <1>5 DEF StartStep, RecoverInterrupted, StartLoop, BecomeUp, AtMostOneWorker, Working
  <2>2. \A v \in Workers \ {w} : phase'[v] = phase[v] /\ job'[v] = job[v]
    BY <1>1, <1>5 DEF StartStep, RecoverInterrupted, StartLoop, BecomeUp, Enter, Goto, lockVars
  <2>3. ASSUME NEW v \in Workers \ {w} PROVE LoopInv(v)' /\ ~Executing(v)'
    <3>1. FreshLoop(v)'
      BY <1>2, <2>2 DEF LoopInv, FreshLoop
    <3> QED
      BY <2>1, <2>2, <3>1 DEF LoopInv, RunningIsCurrent, Executing
  <2>4. CASE RecoverInterrupted(w)
    <3>1. job[w].pc = "off" /\ Goto(w, "recovered") /\ phase' = phase
      BY <2>4 DEF RecoverInterrupted, lockVars
    <3>2. FreshLoop(w)' /\ job'[w].pc = "recovered"
      BY <1>1, <1>2, <3>1, JobBecomes DEF MovesTo, Sets, LoopInv, FreshLoop, Between
    <3>3. \A t \in Scans :
            /\ scan[t].status = "running" => scan'[t] = Requeued(t)
            /\ scan[t].status # "running" => scan'[t] = scan[t]
      BY <2>4 DEF RecoverInterrupted
    <3>4. \A t \in Scans, m \in Modules :
            /\ run[t][m].status = "running" =>
                 run'[t][m] = [run[t][m] EXCEPT !.status = "interrupted", !.noted = TRUE]
            /\ run[t][m].status # "running" => run'[t][m] = run[t][m]
      BY <2>4 DEF RecoverInterrupted
    <3>5. \A t \in Scans : scan[t].status = "running" =>
            /\ scan'[t].status = "queued" /\ scan'[t].selected = scan[t].selected
            /\ scan'[t].cancel = scan[t].cancel
      BY <1>1, <3>3 DEF Requeued, ScanRow
    <3>6. \A t \in Scans, m \in Modules : run[t][m].status = "running" =>
            /\ run'[t][m].status = "interrupted" /\ run'[t][m].attempts = run[t][m].attempts
            /\ run'[t][m].rows = run[t][m].rows /\ run'[t][m].count = run[t][m].count
      <4> TAKE t \in Scans, m \in Modules
      <4>1. HAVE run[t][m].status = "running"
      <4>2. run[t][m] \in ModuleRunRow
        BY <1>1
      <4>3. run'[t][m] = [run[t][m] EXCEPT !.status = "interrupted", !.noted = TRUE]
        BY <3>4, <4>1
      <4> QED
        BY <4>2, <4>3 DEF ModuleRunRow
    <3>7. LoopInv(w)' /\ ~Executing(w)'
      <4>1. \A t \in Scans, m \in Modules : run'[t][m].status # "running"
        BY <3>4, <3>6, ZenonT(40)
      <4> QED
        BY <2>1, <3>1, <3>2, <4>1 DEF LoopInv, RunningIsCurrent, Status, Executing
    <3>8. \A t \in Scans : Doomed(t) => Doomed(t)'
      BY <2>3, <3>3, <3>5, <3>7, DoomedStays
    <3>9. ASSUME NEW t \in Scans PROVE RowInv(t)'
      <4>1. RowInv(t) /\ scan[t].selected \subseteq Modules
        BY <1>1 DEF ModulesInv, ScanRow
      <4>2. RowsFollow(t)'
        <5>1. CASE ~Exists(t)
          <6>1. run[t] = [m \in Modules |-> NoRun] /\ scan'[t] = scan[t]
            BY <3>3, <4>1, <5>1 DEF RowInv, RowsFollow, Exists, ScanStatus
          <6>2. \A m \in Modules : run'[t][m] = run[t][m]
            <7>1. \A m \in Modules : run[t][m].status # "running"
              BY <6>1 DEF NoRun
            <7> QED
              BY <3>4, <7>1
          <6>3. run'[t] = [m \in Modules |-> run'[t][m]]
            BY <1>1, <2>4 DEF RecoverInterrupted
          <6> QED
            BY <5>1, <6>1, <6>2, <6>3 DEF RowsFollow, Exists
        <5>2. CASE Exists(t)
          <6>1. scan'[t].status \in ScanStatus /\ scan'[t].selected = scan[t].selected
            BY <3>3, <3>5, <5>2 DEF Exists, ScanStatus
          <6>2. \A m \in scan[t].selected : run'[t][m].status \in ModuleStatus
            BY <3>4, <3>6, <4>1, <5>2
               DEF RowInv, RowsFollow, Status, ModuleStatus, TerminalModule
          <6> QED
            BY <6>1, <6>2 DEF RowsFollow, Exists, Status
        <5> QED
          BY <5>1, <5>2
      <4>3. FindingsStored(t)'
        BY <3>4, <3>6, <4>1 DEF RowInv, FindingsStored
      <4>4. NotedWasBegun(t)'
        BY <3>4, <3>6, <3>8, <4>1 DEF RowInv, NotedWasBegun, Status
      <4>5. CASE scan[t].status = "running"
        <5>1. (Agrees(t, scan[t].status) /\ Explained(t, scan[t].status))'
          BY <3>5, <4>5 DEF Agrees, Explained
        <5> QED
          BY <4>2, <4>3, <4>4, <5>1 DEF RowInv
      <4>6. CASE scan[t].status # "running"
        <5>1. scan'[t] = scan[t]
          BY <3>3, <4>6
        <5>2. (Agrees(t, scan[t].status) /\ Explained(t, scan[t].status))'
          <6>1. \A m \in scan[t].selected :
                  run[t][m].status # "running" => run'[t][m] = run[t][m]
            BY <3>4, <4>1
          <6>2. \A m \in scan[t].selected : run[t][m].status \in TerminalModule =>
                  run'[t][m] = run[t][m]
            BY <6>1 DEF TerminalModule
          <6>3. /\ "done" \in TerminalModule /\ "failed" \in TerminalModule
                /\ "not_applicable" \in TerminalModule
            BY DEF TerminalModule
          <6>4. Agrees(t, scan[t].status)'
            BY <4>1, <5>1, <6>2, <6>3 DEF RowInv, Agrees, Status
          <6>5. Explained(t, scan[t].status)'
            BY <4>1, <5>1, <6>2, <6>3 DEF RowInv, Explained, Agrees, Status
          <6> QED
            BY <6>4, <6>5
        <5> QED
          BY <4>2, <4>3, <4>4, <5>2 DEF RowInv
      <4> QED
        BY <4>5, <4>6
    <3> QED
      BY <2>3, <3>7, <3>8, <3>9 DEF ModulesInv
  <2>5. CASE StartLoop(w)
    <3>1. /\ job[w].pc = "recovered" /\ Goto(w, "idle") /\ phase'[w] = "up" /\ Cleared(Swept)
      BY <1>1, <2>5 DEF StartLoop, BecomeUp, Enter, RunRetention, Cleared
    <3>2. FreshLoop(w)' /\ job'[w].pc = "idle"
      BY <1>1, <1>2, <3>1, JobBecomes DEF MovesTo, Sets, LoopInv, FreshLoop, Between
    <3>3. \A v \in Workers : ~Executing(v)'
      BY <2>3, <3>2 DEF Executing
    <3>4. \A t \in Scans : scan'[t] = scan[t] \/ scan'[t].status = "deleted"
      BY <2>5, RetentionSweeps DEF StartLoop, Sweeps, TypeOK
    <3>5. \A t \in Scans : Doomed(t) => Doomed(t)'
      BY <3>3, <3>4, DoomedStays
    <3>6. \A t \in Scans : RowInv(t)' /\ \A m \in Modules :
            run'[t][m].status = "running" => run[t][m].status = "running"
      BY <3>1, <3>5, ClearedRows DEF ModulesInv
    <3>7. \A t \in Scans, m \in Modules : run[t][m].status # "running"
      BY <1>2, <2>1, <3>1 DEF LoopInv, RunningIsCurrent, Status
    <3>8. LoopInv(w)'
      BY <3>2, <3>3, <3>6, <3>7 DEF LoopInv, RunningIsCurrent, Status
    <3> QED
      BY <2>3, <3>5, <3>6, <3>8 DEF ModulesInv
  <2> QED
    BY <1>5, <2>4, <2>5 DEF StartStep
<1> QED
  BY <1>3, <1>4, <1>5

\* Every step preserves the invariant of the module runs, and no step saves a
\* doomed scan.
LEMMA ModulesStep ==
  TypeOK /\ AtMostOneWorker /\ QueueInv /\ ModulesInv /\ [Next]_vars
    => ModulesInv' /\ \A t \in Scans : Doomed(t) => Doomed(t)'
<1>1. SUFFICES ASSUME TypeOK, AtMostOneWorker, QueueInv, ModulesInv, [Next]_vars
               PROVE  ModulesInv' /\ \A t \in Scans : Doomed(t) => Doomed(t)'
  OBVIOUS
<1>2. CASE UNCHANGED vars
  <2>1. scan' = scan /\ run' = run /\ job' = job /\ phase' = phase
    BY <1>2 DEF vars, dbVars, lockVars
  <2>2. \A t \in Scans : Doomed(t) => Doomed(t)'
    BY <2>1, DoomedStays DEF Executing
  <2>3. \A t \in Scans : RowInv(t)'
    BY <1>1, <2>1, <2>2, RowStays DEF ModulesInv
  <2>4. \A v \in Workers : LoopInv(v)'
    BY <1>1, <2>1, LoopStays DEF ModulesInv, Exists
  <2> QED
    BY <2>2, <2>3, <2>4 DEF ModulesInv
<1>3. CASE Next
  BY <1>1, <1>3, RequestsKeepModules, ProcessesKeepModules, LoopKeepsModules, LoopKeepsDoomed
     DEF Next
<1> QED
  BY <1>1, <1>2, <1>3

\* What the rows of the modules say of a scan, for any number of processes,
\* scans and modules, and through any crash, deletion, cancellation and re-run,
\* while the lock keeps the processes apart.
THEOREM ModulesInvHolds ==
  ASSUME ~RacingStarts, ~LiveLapses
  PROVE  Spec => []ModulesInv
<1>1. Init => ModulesInv
  <2> SUFFICES ASSUME Init PROVE ModulesInv
    OBVIOUS
  <2>1. \A w \in Workers : LoopInv(w)
    BY DEF Init, LockInit, NoJob, NoRun, LoopInv, FreshLoop, RunningIsCurrent, Executing, Status
  <2>2. \A s \in Scans : RowInv(s)
    BY DEF Init, Blank, NoRun, RowInv, RowsFollow, FindingsStored, Agrees, Explained,
       NotedWasBegun, Exists, ScanStatus, TerminalScan, Status
  <2> QED
    BY <2>1, <2>2 DEF ModulesInv
<1> QED
  BY <1>1, ModulesStep, RunnerTypeCorrect, QueueInvHolds, OneProcessRunsTheQueue, PTL DEF Spec

\* A module row says running only while the loop that began it is there to
\* settle it: recover_interrupted leaves none behind.
THEOREM NoModuleIsOrphaned ==
  ASSUME ~RacingStarts, ~LiveLapses
  PROVE  Spec => []NoOrphanedModule
<1>1. TypeOK /\ ModulesInv => NoOrphanedModule
  <2> SUFFICES ASSUME TypeOK, ModulesInv, NEW w \in Workers, NEW s \in Scans,
                      NEW m \in Modules, phase[w] = "up", job[w].pc # "dead",
                      run[s][m].status = "running"
               PROVE  Executing(w) /\ job[w].scan = s /\ m \in job[w].todo
    BY DEF NoOrphanedModule
  <2>1. job[w].pc \in InModule /\ job[w].scan = s /\ m = NextModule(w) /\ Executing(w)
    BY DEF ModulesInv, LoopInv, RunningIsCurrent, Status, InModule, Executing
  \* A deleted scan has no rows.
  <2>2. Exists(s)
    BY DEF ModulesInv, RowInv, RowsFollow, NoRun
  <2>3. job[w].todo # {}
    BY <2>1, <2>2 DEF ModulesInv, LoopInv, InProgress, InModule
  <2>4. job[w].todo \in SUBSET Modules
    BY DEF TypeOK, LoopsOK, Job, JobRecord
  <2> QED
    BY <2>1, <2>3, <2>4, LeastIn DEF NextModule
<1> QED
  BY <1>1, ModulesInvHolds, RunnerTypeCorrect, PTL

\* The status that _finish wrote agrees with the module runs, whatever crashes
\* and re-runs came before it and whatever requests come after it.
THEOREM VerdictsMatchModules ==
  ASSUME ~RacingStarts, ~LiveLapses
  PROVE  Spec => []VerdictMatchesModules
<1>1. ModulesInv => VerdictMatchesModules
  BY DEF ModulesInv, RowInv, VerdictMatchesModules
<1> QED
  BY <1>1, ModulesInvHolds, PTL

\* No findings are lost between _store_findings and the row that reports them.
THEOREM ReportedFindingsAreStored ==
  ASSUME ~RacingStarts, ~LiveLapses
  PROVE  Spec => []DoneFindingsStored
<1>1. ModulesInv => DoneFindingsStored
  BY DEF ModulesInv, RowInv, FindingsStored, DoneFindingsStored
<1> QED
  BY <1>1, ModulesInvHolds, PTL

\* A scan that was cancelled while it was queued never completes: the worker
\* looks at the request before it begins a module, and recovery keeps it.
THEOREM QueuedCancelIsKept ==
  ASSUME ~RacingStarts, ~LiveLapses
  PROVE  Spec => QueuedCancelSticks
<1>1. ASSUME NEW s \in Scans
      PROVE  Spec => [](scan[s].status = "queued" /\ scan[s].cancel => []~Completed(s))
  <2>1. QueueInv /\ scan[s].status = "queued" /\ scan[s].cancel => Doomed(s)
    BY DEF Doomed, QueueInv, ExecutesOwnClaim, Exists, ScanStatus
  <2>2. TypeOK /\ AtMostOneWorker /\ QueueInv /\ ModulesInv /\ [Next]_vars /\ Doomed(s)
          => Doomed(s)'
    BY ModulesStep
  <2>3. Doomed(s) => ~Completed(s)
    BY DEF Doomed, Completed
  <2> QED
    BY <2>1, <2>2, <2>3, RunnerTypeCorrect, OneProcessRunsTheQueue, QueueInvHolds,
       ModulesInvHolds, PTL DEF Spec
<1> QED
  BY <1>1 DEF QueuedCancelSticks

-----------------------------------------------------------------------------
(* The order of the queue *)

\* Ids are given in order, and a loop that is about to claim holds the oldest
\* queued scan, although it read it a step ago.
NumberedInOrder ==
  \A s, t \in Scans : t < s /\ scan[s].status # "none" => scan[t].status # "none"

ClaimsOldest ==
  \A w \in Workers : phase[w] = "up" /\ job[w].pc = "claim" =>
    scan[job[w].scan].status # "none" /\ \A t \in Queued : job[w].scan <= t

OrderInv == NumberedInOrder /\ ClaimsOldest


\* What a step may do to the statuses of the scans.
SameStages == \A t \in Scans : scan'[t].status = scan[t].status

OnlyThis(s) == \A t \in Scans \ {s} : scan'[t].status = scan[t].status

Submits(s) ==
  /\ OnlyThis(s)
  /\ scan[s].status = "none" /\ scan'[s].status = "queued"
  /\ \A t \in Scans : t < s => scan[t].status # "none"

Deletes(s) == OnlyThis(s) /\ scan[s].status # "none" /\ scan'[s].status = "deleted"

Recovers(w) ==
  /\ phase[w] = "locked"
  /\ \A t \in Scans : scan'[t].status = IF scan[t].status = "running" THEN "queued"
                                                                   ELSE scan[t].status

StepEffect ==
  \/ SameStages \/ Sweeps
  \/ \E s \in Scans : Submits(s) \/ Deletes(s)
  \/ \E w \in Workers : Recovers(w) \/ (phase[w] = "up" /\ (Claims(w) \/ Ends(w)))

\* Every step of the processes has one of these effects.
LEMMA EffectOfStep == TypeOK /\ Next => StepEffect
<1> SUFFICES ASSUME TypeOK, Next PROVE StepEffect
  OBVIOUS
<1>1. scan \in [Scans -> ScanRow] /\ RowsOK
  BY DEF TypeOK, RowsOK
<1>2. UNCHANGED scan => StepEffect
  BY DEF StepEffect, SameStages
<1>3. ASSUME NEW s \in Scans, NEW sel \in SUBSET Modules, CreateScan(s, sel) PROVE StepEffect
  <2>1. Submits(s)
    BY <1>1, <1>3 DEF CreateScan, Blank, Submits, OnlyThis
  <2> QED
    BY <2>1 DEF StepEffect
<1>4. ASSUME NEW s \in Scans, DeleteScan(s) PROVE StepEffect
  <2>1. Deletes(s)
    BY <1>1, <1>4 DEF DeleteScan, ScansWithout, Blank, Deletes, OnlyThis, Exists,
       ScanStatus, TerminalScan
  <2> QED
    BY <2>1 DEF StepEffect
<1>5. ASSUME NEW w \in Workers, CancelWrite(w) PROVE StepEffect
  <2>1. SameStages
    BY <1>1, <1>5 DEF CancelWrite, ScanRow, SameStages
  <2> QED
    BY <2>1 DEF StepEffect
<1>6. ASSUME NEW w \in Workers, RecoverInterrupted(w) PROVE StepEffect
  <2>1. Recovers(w)
    BY <1>1, <1>6 DEF RecoverInterrupted, Requeued, ScanRow, Recovers
  <2> QED
    BY <2>1 DEF StepEffect
<1>7. ASSUME NEW w \in Workers, StartLoop(w) PROVE StepEffect
  BY <1>1, <1>7, RetentionSweeps DEF StartLoop, StepEffect
<1>8. ASSUME NEW w \in Workers, LoopStep(w) PROVE StepEffect
  BY <1>2, <1>8, LoopKinds DEF StepEffect, Moves
<1>9. ASSUME NEW w \in Workers, NEW s \in Scans, CancelRead(w, s) PROVE UNCHANGED scan
  BY <1>9 DEF CancelRead, dbVars
<1>10. ASSUME NEW w \in Workers,
              LockStep(w) \/ Stop(w) \/ StopRaises(w) \/ ProcessDies(w)
       PROVE  UNCHANGED scan
  BY <1>10 DEF LockStep, Stop, StopRaises, ProcessDies, dbVars
<1>11. GrowOld \/ LapseStep => UNCHANGED scan
  BY DEF GrowOld, LapseStep, dbVars
<1> QED
  BY <1>2, <1>3, <1>4, <1>5, <1>6, <1>7, <1>8, <1>9, <1>10, <1>11 DEF Next, StartStep

\* What a step may do to a loop that is about to claim: it was not there, and
\* has just read the oldest queued scan, or it keeps the scan it read.
ClaimKept(w) ==
  phase'[w] = "up" /\ job'[w].pc = "claim" =>
    \/ phase[w] = "up" /\ job[w].pc = "claim" /\ job'[w].scan = job[w].scan
    \/ UNCHANGED scan /\ job'[w].scan \in Queued /\ \A t \in Queued : job'[w].scan <= t

LEMMA ClaimOfStep == TypeOK /\ QueueInv /\ Next => \A w \in Workers : ClaimKept(w)
<1> SUFFICES ASSUME TypeOK, QueueInv, Next, NEW v \in Workers PROVE ClaimKept(v)
  OBVIOUS
<1>1. job \in [Workers -> Job] /\ phase \in [Workers -> Phases]
  BY DEF TypeOK, LoopsOK, LockTypeOK
<1>2. ASSUME phase'[v] = "up" => phase[v] = "up",
             job'[v] = job[v] \/ job'[v].pc # "claim"
      PROVE  ClaimKept(v)
  BY <1>2 DEF ClaimKept
<1>3. ASSUME UNCHANGED <<phase, job>> PROVE ClaimKept(v)
  BY <1>2, <1>3
<1>4. ASSUME NEW w \in Workers, LoopStep(w) PROVE ClaimKept(v)
  <2>1. phase' = phase /\ \A u \in Workers \ {w} : job'[u] = job[u]
    BY <1>4, LoopKinds DEF lockVars
  <2>2. CASE v # w
    BY <1>2, <2>1, <2>2
  <2>3. CASE v = w /\ ClaimRead(w)
    BY <1>1, <2>3 DEF ClaimRead, ClaimKept, dbVars, Queued, Job, JobRecord
  <2>4. CASE v = w /\ ~ ClaimRead(w)
    <3>1. job'[w].pc # "claim"
      <4> SUFFICES ASSUME job'[w].pc = "claim" PROVE FALSE
        OBVIOUS
      <4>1. phase[w] = "up" /\ job[w].pc \in Rest /\ job[w] \in JobRecord
        BY <1>1, <1>4, LoopKinds DEF Moves, Claims, Ends, Work, Rest, Job
      <4>2. ClaimWrite(w) \/ Publish(w) \/ Retain(w)
        BY <1>4, <2>4, <4>1 DEF LoopStep, At, Rest, LoadScan, LoadScope, ValidateTarget,
           CancelCheck, BeginModule, ModuleEnds, StoreFindings, SettleModule,
           MarkRemainingSkipped, Finish
      <4>3. CASE ClaimWrite(w)
        BY <1>1, <4>1, <4>3 DEF ClaimWrite, Goto, NoJob, JobRecord
      <4>4. CASE Publish(w)
        <5>1. job[w].pc = "pubEnd"
          BY <4>1, <4>4 DEF Publish, AfterPublish, At, Rest
        <5>2. Published(w) \/ Die(w)
          BY <4>4 DEF Publish
        <5> QED
          BY <1>1, <4>1, <5>1, <5>2 DEF Published, AfterPublish, Die, NoJob, JobRecord
      <4>5. CASE Retain(w)
        BY <1>1, <4>1, <4>5 DEF Retain, NoJob, JobRecord
      <4> QED
        BY <4>2, <4>3, <4>4, <4>5
    <3> QED
      BY <1>2, <2>1, <2>4, <3>1
  <2> QED
    BY <2>2, <2>3, <2>4
<1>5. ASSUME NEW w \in Workers, LockStep(w) PROVE ClaimKept(v)
  <2>1. job' = job /\ (phase'[v] = "up" => phase[v] = "up")
    BY <1>1, <1>5 DEF LockStep, AcquireReadNone, AcquireReadStale, AcquireRefused,
       AcquireInsert, AcquireTakeOver, Beat, ReleaseDelete, Enter
  <2> QED
    BY <1>2, <2>1
<1>6. ASSUME NEW w \in Workers, RecoverInterrupted(w) \/ StartLoop(w) PROVE ClaimKept(v)
  <2>1. job'[v] = job[v] \/ job'[v].pc # "claim"
    BY <1>1, <1>6 DEF RecoverInterrupted, StartLoop, Goto, Job, JobRecord
  <2>2. v # w => (phase'[v] = "up" => phase[v] = "up")
    BY <1>1, <1>6 DEF RecoverInterrupted, StartLoop, BecomeUp, Enter, lockVars
  <2>3. v = w => job'[v].pc # "claim"
    BY <1>1, <1>6 DEF RecoverInterrupted, StartLoop, Goto, Job, JobRecord
  <2> QED
    BY <1>2, <2>1, <2>2, <2>3 DEF ClaimKept
<1>7. ASSUME NEW w \in Workers, Stop(w) \/ StopRaises(w) \/ ProcessDies(w) PROVE ClaimKept(v)
  <2>1. /\ job'[v] = job[v] \/ job'[v].pc # "claim"
        /\ phase'[v] = "up" => phase[v] = "up"
    BY <1>1, <1>7 DEF Stop, StopRaises, ProcessDies, ReleaseRead, Crash, Enter,
       ForgetProcess, NoJob
  <2> QED
    BY <1>2, <2>1
<1>8. ASSUME GrowOld \/ LapseStep \/ (\E w \in Workers : CancelWrite(w))
             \/ (\E s \in Scans : DeleteScan(s))
             \/ (\E s \in Scans, sel \in SUBSET Modules : CreateScan(s, sel))
             \/ (\E w \in Workers, s \in Scans : CancelRead(w, s))
      PROVE  UNCHANGED <<phase, job>>
  BY <1>8 DEF GrowOld, LapseStep, Lapse, CancelWrite, DeleteScan, CreateScan, CancelRead,
     lockVars
<1> QED
  BY <1>3, <1>4, <1>5, <1>6, <1>7, <1>8 DEF Next, StartStep

\* The order of submission is kept, and so is the claim: a scan that comes
\* between its read and its update is a newer one.
LEMMA OrderStep ==
  TypeOK /\ AtMostOneWorker /\ QueueInv /\ OrderInv /\ [Next]_vars => OrderInv'
<1>1. CASE UNCHANGED vars
  BY <1>1 DEF vars, dbVars, lockVars, OrderInv, NumberedInOrder, ClaimsOldest, Queued
<1>2. ASSUME TypeOK, AtMostOneWorker, QueueInv, OrderInv, Next PROVE OrderInv'
  <2>1. StepEffect /\ \A w \in Workers : ClaimKept(w)
    BY <1>2, EffectOfStep, ClaimOfStep
  <2>2. \A w \in Workers : phase[w] = "up" /\ job[w].pc = "claim" => job[w].scan \in Scans
    BY <1>2 DEF TypeOK, LoopsOK, Job, JobRecord, Between
  <2>3. /\ \A s \in Scans : scan[s].status # "none" => scan'[s].status # "none"
        /\ \A s \in Scans : scan[s].status = "none" /\ scan'[s].status # "none" => Submits(s)
    <3> USE DEF Submits, OnlyThis
    <3>1. CASE SameStages \/ Sweeps
      BY <3>1 DEF SameStages, Sweeps, Terminal, TerminalScan
    <3>2. ASSUME NEW s \in Scans, Submits(s) \/ Deletes(s) PROVE <2>3!:
      BY <3>2 DEF Deletes
    <3>3. ASSUME NEW w \in Workers, Recovers(w) \/ Claims(w) PROVE <2>3!:
      BY <3>3 DEF Recovers, Claims
    <3>4. ASSUME NEW w \in Workers, Ends(w) PROVE <2>3!:
      BY <3>4 DEF Ends, Exists, ScanStatus, TerminalScan
    <3> QED
      BY <2>1, <3>1, <3>2, <3>3, <3>4 DEF StepEffect
  <2>4. NumberedInOrder'
    BY <1>2, <2>3 DEF OrderInv, NumberedInOrder, Submits
  <2>5. ASSUME NEW w \in Workers, phase'[w] = "up", job'[w].pc = "claim"
        PROVE  /\ scan'[job'[w].scan].status # "none"
               /\ \A t \in Queued' : job'[w].scan <= t
    <3>1. CASE UNCHANGED scan /\ job'[w].scan \in Queued /\ \A t \in Queued : job'[w].scan <= t
      BY <3>1 DEF Queued
    <3>2. CASE phase[w] = "up" /\ job[w].pc = "claim" /\ job'[w].scan = job[w].scan
      <4>1. /\ job[w].scan \in Scans /\ scan[job[w].scan].status # "none"
            /\ \A t \in Queued : job[w].scan <= t
        BY <1>2, <2>2, <3>2 DEF OrderInv, ClaimsOldest
      \* Nobody recovers while w is up, so a scan that is queued now was
      \* queued before, or is new.
      <4>2. \A v \in Workers : ~ Recovers(v)
        BY <1>2, <3>2 DEF Recovers, AtMostOneWorker, Working
      <4>3. \A t \in Scans : scan'[t].status = "queued" => scan[t].status = "queued" \/ Submits(t)
        BY <2>1, <4>2 DEF StepEffect, SameStages, Sweeps, Submits, Deletes, OnlyThis,
           Claims, Ends, Terminal, TerminalScan
      <4>4. \A t \in Scans : Submits(t) => job[w].scan <= t
        <5> SUFFICES ASSUME NEW t \in Scans, Submits(t) PROVE job[w].scan <= t
          OBVIOUS
        <5>1. scan[t].status = "none"
          BY DEF Submits
        <5>2. ~ (t < job[w].scan)
          BY <1>2, <4>1, <5>1 DEF OrderInv, NumberedInOrder
        <5> QED
          BY <4>1, <5>2, ScanRunnerAssumption DEF Scans
      <4> QED
        BY <2>3, <3>2, <4>1, <4>3, <4>4 DEF Queued
    <3> QED
      BY <2>1, <2>5, <3>1, <3>2 DEF ClaimKept
  <2> QED
    BY <2>4, <2>5 DEF OrderInv, ClaimsOldest
<1> QED
  BY <1>1, <1>2

\* OrderInv in every reachable state, as long as the lock does its work.
THEOREM OrderInvHolds ==
  ASSUME ~RacingStarts, ~LiveLapses
  PROVE  Spec => []OrderInv
<1>1. Init => OrderInv
  BY DEF Init, LockInit, Blank, OrderInv, NumberedInOrder, ClaimsOldest
<1> QED
  BY <1>1, OrderStep, RunnerTypeCorrect, OneProcessRunsTheQueue, QueueInvHolds, PTL DEF Spec

-----------------------------------------------------------------------------
(* The refinement *)

\* How a status maps to a stage, and back.
LEMMA Staging ==
  \A x \in ScanStatus \cup {"none", "deleted"} :
    /\ StageOf(x) = "none" <=> x = "none"
    /\ StageOf(x) = "waiting" <=> x = "queued"
    /\ StageOf(x) = "working" <=> x = "running"
    /\ StageOf(x) = "over" <=> x \in TerminalScan
    /\ StageOf(x) = "removed" <=> x = "deleted"
BY DEF StageOf, ScanStatus, TerminalScan

LEMMA StageStep ==
  TypeOK /\ TypeOK' /\ QueueInv /\ OrderInv /\ [Next]_vars => [Queue!QueueNext]_Stage
<1>1. CASE UNCHANGED vars
  BY <1>1 DEF vars, dbVars, Stage
<1>2. ASSUME TypeOK, TypeOK', QueueInv, OrderInv, Next
      PROVE  Queue!QueueNext \/ UNCHANGED Stage
  <2> DEFINE old(t) == scan[t].status
             new(t) == scan'[t].status
  <2>1. \A t \in Scans : /\ old(t) \in ScanStatus \cup {"none", "deleted"}
                         /\ new(t) \in ScanStatus \cup {"none", "deleted"}
    BY <1>2 DEF TypeOK, RowsOK, ScanRow
  <2>2. /\ Stage = [t \in Scans |-> StageOf(old(t))]
        /\ Stage' = [t \in Scans |-> StageOf(new(t))]
    BY DEF Stage
  <2>3. StepEffect
    BY <1>2, EffectOfStep
  <2>4. CASE SameStages
    BY <2>2, <2>4 DEF SameStages
  <2>5. CASE Sweeps
    <3> DEFINE gone == {t \in Scans : Terminal(t) /\ new(t) = "deleted"}
    <3>1. \A t \in gone : Stage[t] # "none"
      BY <2>1, <2>2, Staging DEF Terminal, TerminalScan
    <3>2. Stage' = [t \in Scans |-> IF t \in gone THEN "removed" ELSE Stage[t]]
      BY <2>1, <2>2, <2>5, Staging DEF Sweeps
    <3>3. Queue!Remove(gone)
      BY <3>1, <3>2 DEF Queue!Remove
    <3> QED
      BY <3>3 DEF Queue!QueueNext
  <2>6. ASSUME NEW s \in Scans, Submits(s) PROVE Queue!QueueNext
    <3>1. Stage' = [Stage EXCEPT ![s] = "waiting"]
      BY <2>1, <2>2, <2>6, Staging DEF Submits, OnlyThis
    <3>2. Stage[s] = "none" /\ \A t \in Scans : t < s => Stage[t] # "none"
      BY <2>1, <2>2, <2>6, Staging DEF Submits
    <3> QED
      BY <3>1, <3>2 DEF Queue!QueueNext, Queue!Submit
  <2>7. ASSUME NEW s \in Scans, Deletes(s) PROVE Queue!QueueNext
    <3>1. Stage' = [t \in Scans |-> IF t \in {s} THEN "removed" ELSE Stage[t]]
      BY <2>1, <2>2, <2>7, Staging DEF Deletes, OnlyThis
    <3>2. Stage[s] # "none"
      BY <2>1, <2>2, <2>7, Staging DEF Deletes
    <3>3. Queue!Remove({s})
      BY <3>1, <3>2 DEF Queue!Remove
    <3> QED
      BY <3>3 DEF Queue!QueueNext
  <2>8. ASSUME NEW w \in Workers, Recovers(w) PROVE Queue!QueueNext
    <3>1. Stage' = [t \in Scans |-> IF Stage[t] = "working" THEN "waiting" ELSE Stage[t]]
      BY <2>1, <2>2, <2>8, Staging DEF Recovers
    <3> QED
      BY <3>1 DEF Queue!QueueNext, Queue!PutBack
  \* A loop that claims executes nothing, so nothing is running.
  <2>9. ASSUME NEW w \in Workers, phase[w] = "up", Claims(w) PROVE Queue!QueueNext
    <3> DEFINE s == job[w].scan
    <3>1. s \in Scans /\ job[w].pc = "claim" /\ old(s) = "queued" /\ new(s) = "running"
      BY <2>9 DEF Claims
    <3>2. Stage' = [Stage EXCEPT ![s] = "working"]
      BY <2>1, <2>2, <2>9, <3>1, Staging DEF Claims
    <3>3. \A t \in Scans : old(t) # "running"
      BY <1>2, <2>9, <3>1 DEF QueueInv, NoOrphanedScan, Executing
    <3>4. \A t \in Scans : old(t) = "queued" => s <= t
      BY <1>2, <2>9, <3>1 DEF OrderInv, ClaimsOldest, Queued
    <3>5. Queue!In("working") = {}
      BY <2>1, <2>2, <3>3, Staging DEF Queue!In
    <3>6. s \in Queue!In("waiting") /\ \A t \in Queue!In("waiting") : s <= t
      BY <2>1, <2>2, <3>1, <3>4, Staging DEF Queue!In
    <3>7. Queue!TakeUp(s)
      BY <3>2, <3>5, <3>6 DEF Queue!TakeUp
    <3> QED
      BY <3>1, <3>7 DEF Queue!QueueNext
  <2>10. ASSUME NEW w \in Workers, phase[w] = "up", Ends(w)
         PROVE  Queue!QueueNext \/ UNCHANGED Stage
    <3> DEFINE s == job[w].scan
    <3>1. s \in Scans
      BY <2>10 DEF Ends
    <3>2. CASE ~ Exists(s)
      BY <2>2, <2>10, <3>1, <3>2 DEF Ends
    <3>3. CASE Exists(s)
      <4>1. old(s) = "running" /\ new(s) \in TerminalScan
        BY <1>2, <2>10, <3>3 DEF Ends, QueueInv, ExecutesOwnClaim, Executing
      <4>2. Stage' = [Stage EXCEPT ![s] = "over"]
        BY <2>1, <2>2, <2>10, <3>1, <4>1, Staging DEF Ends
      <4>3. Stage[s] = "working"
        BY <2>1, <2>2, <3>1, <4>1, Staging
      <4>4. Queue!Conclude(s)
        BY <4>2, <4>3 DEF Queue!Conclude
      <4> QED
        BY <3>1, <4>4 DEF Queue!QueueNext
    <3> QED
      BY <3>2, <3>3
  <2> QED
    BY <2>3, <2>4, <2>5, <2>6, <2>7, <2>8, <2>9, <2>10 DEF StepEffect
<1> QED
  BY <1>1, <1>2

\* ScanRunner implements ScanQueue: scans are taken up in the order of their
\* creation, one at a time, and end once (claim_next_scan, _finish,
\* recover_interrupted), for any number of processes, scans and modules.
THEOREM RunnerImplementsQueue ==
  ASSUME ~RacingStarts, ~LiveLapses
  PROVE  Spec => ImplementsQueue
<1>1. Init => Queue!QueueInit
  BY Staging DEF Init, Blank, Queue!QueueInit, Stage
<1> QED
  BY <1>1, StageStep, RunnerTypeCorrect, QueueInvHolds, OrderInvHolds, PTL
     DEF Spec, ImplementsQueue, Queue!QueueSpec
=============================================================================
