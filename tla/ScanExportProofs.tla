--------------------------- MODULE ScanExportProofs ---------------------------
(***************************************************************************)
(* What a view shows, for every number of processes, scans and modules.    *)
(*                                                                         *)
(* The views only read, so ExportSpec implements Spec and everything that  *)
(* ScanRunnerProofs proves holds while they are read.  What is new is how  *)
(* the tables move between two reads: a scan that exists keeps its modules *)
(* and loses no findings, and a finished one keeps its status.             *)
(***************************************************************************)
EXTENDS ScanExport, ScanRunnerProofs

-----------------------------------------------------------------------------
(* The invariant of the views *)

ShownRow == [status : ModuleStatus \cup {"none"}, count : Nat, noted : BOOLEAN, again : BOOLEAN]
ShownTables == [scan : ScanStatus \cup {"none", "deleted"}, runs : ShownRow,
                total : Nat, findings : Nat]
PageRecord == [limit : Nat, offset : Nat]
ViewRecord ==
  [by : Workers \cup {NoWorker}, request : Requests \cup {"none"}, page : PageRecord,
   scan : Scans \cup {NoScan}, module : Modules \cup {0}, at : 0..3,
   shown : ShownTables]

ViewTypeOK ==
  /\ view \in ViewRecord
  /\ view # NoView =>
       /\ view.by \in Workers /\ view.request \in Requests
       /\ view.page \in PagesOf(view.request)
       /\ view.scan \in Scans /\ view.module \in Modules
       /\ view.at \in 1..Len(Reads(view.request))
       /\ scan[view.scan].status # "none"

\* A finished scan that was read is still as it was read.
ScanIsAsRead ==
  /\ view.module \in scan[view.scan].selected
  /\ view.request = "export_scan" /\ view.shown.scan \in TerminalScan =>
       scan[view.scan].status = view.shown.scan

\* What was read of the module after that agrees with it, and the findings
\* that were promised are there for the reads to come.
RestIsRead ==
  LET v == view.shown
      rows == run[view.scan][view.module].rows
  IN /\ view.request = "export_scan" /\ view.at > 1 =>
          /\ v.scan \in TerminalScan /\ (v.scan = "failed" => "refuse" \notin Env) =>
               v.runs.status \in TerminalModule
          /\ v.scan = "completed" /\ v.runs.status = "done" /\ v.runs.noted => v.runs.again
          /\ rows >= v.runs.count
          /\ view.at > 2 => v.findings >= v.runs.count
     /\ view.request = "list_findings" =>
          rows >= v.total /\ (view.at > 1 => v.findings >= OnPage(v.total, view.page))

ViewInv == view # NoView /\ Exists(view.scan) => ScanIsAsRead /\ RestIsRead

-----------------------------------------------------------------------------
(* The pages *)

LEMMA PageTypes == NoPage \in PageRecord /\ \A request : PagesOf(request) \subseteq PageRecord
BY PagesAssumption DEF NoPage, PagesOf, PageRecord

\* A page of more rows holds no fewer of them.
LEMMA PageGrows ==
  ASSUME NEW page \in PageRecord, NEW n \in Nat, NEW m \in Nat, n <= m
  PROVE  OnPage(n, page) \in Nat /\ OnPage(m, page) >= OnPage(n, page)
<1>1. page.limit \in Nat /\ page.offset \in Nat
  BY DEF PageRecord
<1>2. CASE page.limit = 0
  BY <1>2 DEF OnPage
<1>3. CASE page.limit # 0
  BY <1>1, <1>3 DEF OnPage
<1> QED BY <1>2, <1>3

\* An export lists every row.
LEMMA WholePage == \A n : OnPage(n, NoPage) = n
BY DEF OnPage, NoPage

-----------------------------------------------------------------------------
(* The tables between two reads *)

\* A row that was read before comes from a scan that existed then, with the
\* same modules and no more findings than now.
Grows(s) ==
  scan[s].status # "none" =>
    /\ scan'[s].status # "none"
    /\ scan'[s].status \in ScanStatus =>
         /\ Exists(s) /\ scan'[s].selected = scan[s].selected
         /\ \A m \in Modules : run'[s][m].rows >= run[s][m].rows

LEMMA RowsOfOthers ==
  ASSUME NEW s \in Scans, scan'[s] = scan[s], RowsOK, run'[s] = run[s]
  PROVE  Grows(s)
<1>1. \A m \in Modules : run[s][m].rows \in Nat
  BY DEF RowsOK, ModuleRunRow
<1> QED
  BY <1>1 DEF Grows, Exists

\* Every write of a module run keeps its findings or adds to them.
LEMMA OneWriteGrows ==
  ASSUME RowsOK, NEW t, NEW n, NEW r, scan' = scan,
         run' = [run EXCEPT ![t][n] = r],
         t \in Scans /\ n \in Modules => r.rows >= run[t][n].rows,
         NEW s \in Scans
  PROVE  Grows(s)
<1>1. \A m \in Modules : run[s][m].rows \in Nat /\ (run'[s][m] = run[s][m] \/
                          (t = s /\ n = m /\ run'[s][m] = r))
  BY DEF RowsOK, ModuleRunRow
<1> QED
  BY <1>1 DEF Grows, Exists

LEMMA ClearedGrows ==
  ASSUME RowsOK, NEW gone, Cleared(gone), NEW s \in Scans
  PROVE  Grows(s)
<1>1. CASE s \in gone
  <2>1. scan'[s].status = "deleted"
    BY <1>1 DEF Cleared, ScansWithout, Blank
  <2> QED
    BY <2>1 DEF Grows, ScanStatus, TerminalScan
<1>2. CASE s \notin gone
  BY <1>2, RowsOfOthers DEF Cleared, ScansWithout, RunsWithout
<1> QED
  BY <1>1, <1>2

LEMMA RequestsGrow ==
  ASSUME TypeOK, NEW s \in Scans,
         \/ \E t \in Scans, sel \in SUBSET Modules : CreateScan(t, sel)
         \/ \E t \in Scans : DeleteScan(t)
         \/ \E w \in Workers : CancelWrite(w)
  PROVE  Grows(s)
<1>0. RowsOK /\ scan \in [Scans -> ScanRow] /\ run \in [Scans -> [Modules -> ModuleRunRow]]
  BY DEF TypeOK, RowsOK
<1>1. ASSUME NEW t \in Scans, NEW sel \in SUBSET Modules, CreateScan(t, sel)
      PROVE  Grows(s)
  <2>1. scan[t].status = "none"
    BY <1>1 DEF CreateScan
  <2>2. s # t => scan'[s] = scan[s] /\ run'[s] = run[s]
    BY <1>0, <1>1 DEF CreateScan
  <2>3. CASE s = t
    BY <2>1, <2>3 DEF Grows
  <2> QED
    BY <1>0, <2>2, <2>3, RowsOfOthers
<1>2. ASSUME NEW t \in Scans, DeleteScan(t) PROVE Grows(s)
  BY <1>0, <1>2, ClearedGrows DEF DeleteScan, Cleared
<1>3. ASSUME NEW w \in Workers, CancelWrite(w) PROVE Grows(s)
  <2>1. run' = run /\ scan'[s].status = scan[s].status /\ scan'[s].selected = scan[s].selected
    BY <1>0, <1>3 DEF CancelWrite, ScanRow
  <2>2. \A m \in Modules : run[s][m].rows \in Nat
    BY <1>0 DEF ModuleRunRow
  <2> QED
    BY <2>1, <2>2 DEF Grows, Exists
<1> QED
  BY <1>1, <1>2, <1>3

LEMMA LoopGrows ==
  ASSUME TypeOK, NEW s \in Scans, NEW w \in Workers, LoopStep(w)
  PROVE  Grows(s)
<1> DEFINE t == job[w].scan
           n == NextModule(w)
<1>0. RowsOK /\ scan \in [Scans -> ScanRow] /\ run \in [Scans -> [Modules -> ModuleRunRow]]
  BY DEF TypeOK, RowsOK
<1>1. CASE UNCHANGED <<scan, run>>
  BY <1>0, <1>1, RowsOfOthers
<1>2. \A x \in Scans, m \in Modules : run[x][m] \in ModuleRunRow
  BY <1>0
<1>3. ASSUME NEW r, WriteRun(t, n, r), scan' = scan,
             t \in Scans /\ n \in Modules => r.rows >= run[t][n].rows
      PROVE  Grows(s)
  <2>1. CASE Exists(t)
    BY <1>0, <1>3, <2>1, OneWriteGrows DEF WriteRun
  <2>2. CASE ~Exists(t)
    BY <1>1, <1>3, <2>2 DEF WriteRun
  <2> QED
    BY <2>1, <2>2
<1>4. CASE BeginModule(w)
  <2> DEFINE a == [run[t][n] EXCEPT !.status = "not_applicable", !.noted = TRUE, !.count = 0]
             b == [run[t][n] EXCEPT !.status = "running", !.attempts = run[t][n].attempts + 1]
  <2>1. t \in Scans /\ n \in Modules =>
          a.rows >= run[t][n].rows /\ b.rows >= run[t][n].rows
    BY <1>2 DEF ModuleRunRow
  <2>2. scan' = scan /\ (WriteRun(t, n, a) \/ WriteRun(t, n, b))
    BY <1>4 DEF BeginModule
  <2> HIDE DEF a, b, t, n
  <2> QED
    BY <1>3, <2>1, <2>2
<1>5. CASE StoreFindings(w)
  <2> DEFINE r == [run[t][n] EXCEPT !.rows = @ + job[w].out.found]
  <2>1. job[w].out.found \in Nat
    BY DEF TypeOK, LoopsOK, Job, JobRecord
  <2>2. t \in Scans /\ n \in Modules => r.rows >= run[t][n].rows
    BY <1>2, <2>1 DEF ModuleRunRow
  <2>3. scan' = scan /\ (run' = run \/ run' = [run EXCEPT ![t][n] = r])
    BY <1>5 DEF StoreFindings
  <2> HIDE DEF r, t, n
  <2> QED
    BY <1>0, <1>1, <2>2, <2>3, OneWriteGrows
<1>6. CASE SettleModule(w)
  <2> DEFINE out == job[w].out
             r == [run[t][n] EXCEPT !.status = IF out.ok THEN "done" ELSE "failed",
                                    !.noted  = @ \/ ~out.ok \/ out.warn,
                                    !.count  = out.found]
  <2>1. t \in Scans /\ n \in Modules => r.rows >= run[t][n].rows
    BY <1>2 DEF ModuleRunRow
  <2>2. scan' = scan /\ WriteRun(t, n, r)
    BY <1>6 DEF SettleModule
  <2> HIDE DEF r, t, n
  <2> QED
    BY <1>3, <2>1, <2>2
<1>7. CASE MarkRemainingSkipped(w)
  <2>1. ASSUME NEW m \in Modules
        PROVE  run[s][m].rows \in Nat /\ run'[s][m].rows = run[s][m].rows
    <3>1. \/ run'[s][m] = run[s][m]
          \/ run'[s][m] = [run[s][m] EXCEPT !.status = "skipped", !.noted = TRUE]
      BY <1>0, <1>7 DEF MarkRemainingSkipped
    <3>2. run[s][m] \in ModuleRunRow
      BY <1>0
    <3> QED
      BY <3>1, <3>2 DEF ModuleRunRow
  <2>2. scan' = scan
    BY <1>7 DEF MarkRemainingSkipped
  <2> QED
    BY <2>1, <2>2 DEF Grows, Exists
<1>8. CASE ClaimWrite(w) \/ Finish(w)
  <2>1. \A m \in Modules : run[s][m].rows \in Nat /\ run' = run
    BY <1>2, <1>8 DEF ClaimWrite, Finish, ModuleRunRow
  <2>2. CASE ClaimWrite(w)
    <3>1. \/ scan'[s] = scan[s]
          \/ /\ scan[s].status = "queued"
             /\ scan'[s] = [scan[s] EXCEPT !.status = "running", !.owner = w]
      BY <1>0, <2>2 DEF ClaimWrite
    <3>2. \/ scan'[s] = scan[s]
          \/ /\ scan[s].status = "queued" /\ scan'[s].status = "running"
             /\ scan'[s].selected = scan[s].selected
      BY <1>0, <3>1 DEF ScanRow
    <3> QED
      BY <2>1, <3>2 DEF Grows, Exists, ScanStatus
  <2>3. CASE Finish(w)
    <3>1. job[w].verdict \in TerminalScan
      BY DEF TypeOK, LoopsOK, Job, JobRecord
    <3>2. \/ scan'[s] = scan[s]
          \/ Exists(s) /\ scan'[s] = [scan[s] EXCEPT !.status = job[w].verdict]
      BY <1>0, <2>3 DEF Finish
    <3>3. \/ scan'[s] = scan[s]
          \/ /\ Exists(s) /\ scan'[s].status \in TerminalScan
             /\ scan'[s].selected = scan[s].selected
      BY <1>0, <3>1, <3>2 DEF ScanRow
    <3> QED
      BY <2>1, <3>3 DEF Grows, Exists, TerminalScan
  <2> QED
    BY <1>8, <2>2, <2>3
<1>9. CASE Retain(w)
  BY <1>0, <1>9, ClearedGrows DEF Retain, RunRetention, Cleared
<1>10. ClaimRead(w) \/ LoadScan(w) \/ LoadScope(w) \/ ValidateTarget(w) \/ CancelCheck(w)
         \/ ModuleEnds(w) \/ Publish(w) => UNCHANGED <<scan, run>>
  BY DEF ClaimRead, LoadScan, LoadScope, ValidateTarget, CancelCheck, ModuleEnds, Publish, dbVars
<1> QED
  BY <1>1, <1>4, <1>5, <1>6, <1>7, <1>8, <1>9, <1>10 DEF LoopStep

LEMMA RunnerGrows ==
  ASSUME TypeOK, [Next]_vars, NEW s \in Scans
  PROVE  Grows(s)
<1>0. RowsOK /\ scan \in [Scans -> ScanRow] /\ run \in [Scans -> [Modules -> ModuleRunRow]]
  BY DEF TypeOK, RowsOK
<1>1. CASE UNCHANGED <<scan, run>>
  BY <1>0, <1>1, RowsOfOthers
<1>2. ASSUME NEW w \in Workers, RecoverInterrupted(w) PROVE Grows(s)
  <2>1. ASSUME NEW m \in Modules
        PROVE  run[s][m].rows \in Nat /\ run'[s][m].rows = run[s][m].rows
    <3>1. \/ run'[s][m] = run[s][m]
          \/ run'[s][m] = [run[s][m] EXCEPT !.status = "interrupted", !.noted = TRUE]
      BY <1>2 DEF RecoverInterrupted
    <3>2. run[s][m] \in ModuleRunRow
      BY <1>0
    <3> QED
      BY <3>1, <3>2 DEF ModuleRunRow
  <2>2. \/ scan'[s] = scan[s]
        \/ /\ scan[s].status = "running" /\ scan'[s].status = "queued"
           /\ scan'[s].selected = scan[s].selected
    BY <1>0, <1>2 DEF RecoverInterrupted, Requeued, ScanRow
  <2> QED
    BY <2>1, <2>2 DEF Grows, Exists, ScanStatus
<1>3. ASSUME NEW w \in Workers, StartLoop(w) PROVE Grows(s)
  BY <1>0, <1>3, ClearedGrows DEF StartLoop, RunRetention, Cleared
<1>4. UNCHANGED vars => UNCHANGED <<scan, run>>
  BY DEF vars, dbVars
<1>5. GrowOld \/ LapseStep \/ (\E w \in Workers, t \in Scans : CancelRead(w, t))
        \/ (\E w \in Workers : LockStep(w) \/ Stop(w) \/ StopRaises(w) \/ ProcessDies(w))
        => UNCHANGED <<scan, run>>
  BY DEF GrowOld, LapseStep, CancelRead, LockStep, Stop, StopRaises, ProcessDies, dbVars
<1> QED
  BY <1>1, <1>2, <1>3, <1>4, <1>5, RequestsGrow, LoopGrows DEF Next, StartStep

-----------------------------------------------------------------------------
(* The reads *)

LEMMA ReadsInOrder ==
  /\ Reads("export_scan")[1] = "scan" /\ Reads("export_scan")[2] = "runs"
  /\ Reads("export_scan")[3] = "findings" /\ Len(Reads("export_scan")) = 3
  /\ Reads("list_findings")[1] = "total" /\ Reads("list_findings")[2] = "findings"
  /\ Len(Reads("list_findings")) = 2
BY DEF Reads

\* What one read makes of a view.
LEMMA OneRead ==
  ASSUME TypeOK, NEW v \in ViewRecord, v.scan \in Scans, v.module \in Modules,
         v.at \in 0..2, NEW table, table = Reads(v.request)[v.at + 1],
         table \in {"scan", "runs", "total", "findings"},
         ReadTable(v), table = "scan" => Exists(v.scan)
  PROVE  /\ view' \in ViewRecord
         /\ view'.by = v.by /\ view'.request = v.request /\ view'.scan = v.scan
         /\ view'.module = v.module /\ view'.page = v.page /\ view'.at = v.at + 1
         /\ view'.shown.scan = IF table = "scan" THEN scan[v.scan].status ELSE v.shown.scan
         /\ view'.shown.runs = IF table = "runs" THEN Shown(run[v.scan][v.module])
                                                 ELSE v.shown.runs
         /\ view'.shown.total = IF table = "total" THEN run[v.scan][v.module].rows
                                                   ELSE v.shown.total
         /\ view'.shown.findings =
              IF table = "findings" THEN OnPage(run[v.scan][v.module].rows, v.page)
                                    ELSE v.shown.findings
<1> DEFINE row == run[v.scan][v.module]
           found == Found(table, v)
<1>1. row \in ModuleRunRow /\ scan[v.scan] \in ScanRow
  BY DEF TypeOK, RowsOK
<1>2. view' = [v EXCEPT !.at = @ + 1, !.shown[table] = found]
  BY DEF ReadTable
<1>3. /\ table = "scan" => found = scan[v.scan].status
      /\ table = "runs" => found = Shown(row)
      /\ table = "total" => found = row.rows
      /\ table = "findings" => found = OnPage(row.rows, v.page)
  BY DEF Found
<1>4. /\ Shown(row) \in ShownRow /\ row.rows \in Nat /\ OnPage(row.rows, v.page) \in Nat
      /\ table = "scan" => scan[v.scan].status \in ScanStatus
  <2>1. row.rows \in Nat /\ v.page \in PageRecord
    BY <1>1 DEF ModuleRunRow, ViewRecord
  <2>2. OnPage(row.rows, v.page) \in Nat
    BY <2>1, PageGrows
  <2>3. Shown(row) \in ShownRow /\ (table = "scan" => scan[v.scan].status \in ScanStatus)
    BY <1>1 DEF Shown, ShownRow, ModuleRunRow, Exists
  <2> QED
    BY <2>1, <2>2, <2>3
<1> HIDE DEF found, row
<1>5. v.shown \in ShownTables
  BY DEF ViewRecord
<1> DEFINE shown == [v.shown EXCEPT ![table] = found]
<1>6. /\ shown \in ShownTables
      /\ shown.scan = IF table = "scan" THEN scan[v.scan].status ELSE v.shown.scan
      /\ shown.runs = IF table = "runs" THEN Shown(row) ELSE v.shown.runs
      /\ shown.total = IF table = "total" THEN row.rows ELSE v.shown.total
      /\ shown.findings = IF table = "findings" THEN OnPage(row.rows, v.page)
                                              ELSE v.shown.findings
  <2> USE <1>3, <1>4, <1>5 DEF ShownTables
  <2>1. CASE table = "scan"      BY <2>1
  <2>2. CASE table = "runs"      BY <2>2
  <2>3. CASE table = "total"     BY <2>3
  <2>4. CASE table = "findings"  BY <2>4
  <2> QED BY <2>1, <2>2, <2>3, <2>4
<1>7. view' = [by |-> v.by, request |-> v.request, page |-> v.page, scan |-> v.scan,
               module |-> v.module, at |-> v.at + 1, shown |-> shown]
  BY <1>2 DEF ViewRecord
<1> HIDE DEF shown
<1>8. view' \in ViewRecord
  BY <1>6, <1>7 DEF ViewRecord
<1> QED
  BY <1>6, <1>7, <1>8 DEF row

-----------------------------------------------------------------------------
(* The views *)

LEMMA ExportStepIsRunnerStep == [ExportNext]_exportVars => [Next]_vars
BY DEF ExportNext, exportVars, OpenView, ReadNext, SendView

\* Reading changes nothing: what holds of the runner holds while its scans are
\* read.
THEOREM ViewsOnlyRead == ExportSpec => Spec
<1>1. ExportInit => Init
  BY DEF ExportInit
<1> QED
  BY <1>1, ExportStepIsRunnerStep, PTL DEF ExportSpec, Spec

\* What a step does to the view.
LEMMA ViewMoves ==
  ASSUME ViewTypeOK, [ExportNext]_exportVars
  PROVE  \/ view' = NoView
         \/ view' = view /\ view # NoView /\ [Next]_vars
         \/ /\ view = NoView /\ UNCHANGED vars
            /\ \E w \in Workers, request \in Requests, s \in Scans, m \in Modules :
                 OpenView(w, request, s, m)
         \/ view # NoView /\ ReadNext
<1>1. CASE UNCHANGED exportVars
  BY <1>1 DEF exportVars
<1>2. CASE ~Complete /\ Next /\ KeepView
  BY <1>2 DEF KeepView
<1>3. ASSUME NEW w \in Workers, NEW request \in Requests, NEW s \in Scans, NEW m \in Modules,
             OpenView(w, request, s, m)
      PROVE  view = NoView /\ UNCHANGED vars
  BY <1>3 DEF OpenView
<1>4. (ReadNext => view # NoView) /\ (SendView => view' = NoView)
  BY DEF ReadNext, SendView
<1> QED
  BY <1>1, <1>2, <1>3, <1>4 DEF ExportNext

LEMMA UnreadShows == Unread \in ShownTables
BY DEF Unread, Shown, NoRun, ShownTables, ShownRow

\* The first read of a request.
LEMMA FirstRead ==
  ASSUME TypeOK, NEW w \in Workers, NEW request \in Requests, NEW s \in Scans,
         NEW m \in Modules, OpenView(w, request, s, m)
  PROVE  /\ view' \in ViewRecord /\ view'.by = w /\ view'.request = request
         /\ view'.scan = s /\ view'.module = m /\ view'.at = 1
         /\ view'.page \in PagesOf(request)
         /\ request = "export_scan" => view'.shown.scan = scan[s].status
         /\ request = "list_findings" => view'.shown.total = run[s][m].rows
         /\ Exists(s) /\ m \in scan[s].selected /\ UNCHANGED vars
<1>0. PICK page \in PagesOf(request) :
        ReadTable([NoView EXCEPT !.by = w, !.request = request, !.page = page,
                                 !.scan = s, !.module = m])
  BY DEF OpenView
<1> DEFINE v == [NoView EXCEPT !.by = w, !.request = request, !.page = page,
                               !.scan = s, !.module = m]
<1>1. Exists(s) /\ m \in scan[s].selected /\ UNCHANGED vars /\ ReadTable(v)
  BY <1>0 DEF OpenView
<1>2. /\ v.by = w /\ v.request = request /\ v.scan = s /\ v.module = m /\ v.at = 0
      /\ v.page = page /\ v \in ViewRecord
  <2>1. NoView \in ViewRecord /\ NoView.at = 0 /\ page \in PageRecord
    BY UnreadShows, PageTypes DEF NoView, ViewRecord
  <2> QED
    BY <2>1 DEF ViewRecord
<1> HIDE DEF v
<1>3. CASE request = "export_scan"
  <2> DEFINE table == "scan"
  <2>1. table = Reads(v.request)[v.at + 1]
    BY <1>2, <1>3, ReadsInOrder
  <2>2. /\ view' \in ViewRecord /\ view'.by = v.by /\ view'.request = v.request
        /\ view'.scan = v.scan /\ view'.module = v.module /\ view'.at = v.at + 1
        /\ view'.page = v.page /\ view'.shown.scan = scan[v.scan].status
    BY <1>1, <1>2, <2>1, OneRead
  <2> QED
    BY <1>1, <1>2, <1>3, <2>2
<1>4. CASE request = "list_findings"
  <2> DEFINE table == "total"
  <2>1. table = Reads(v.request)[v.at + 1]
    BY <1>2, <1>4, ReadsInOrder
  <2>2. /\ view' \in ViewRecord /\ view'.by = v.by /\ view'.request = v.request
        /\ view'.scan = v.scan /\ view'.module = v.module /\ view'.at = v.at + 1
        /\ view'.page = v.page /\ view'.shown.total = run[v.scan][v.module].rows
    BY <1>1, <1>2, <2>1, OneRead
  <2> QED
    BY <1>1, <1>2, <1>4, <2>2
<1> QED
  BY <1>3, <1>4 DEF Requests

\* The later ones: the modules and then the findings of an export, the page of
\* a list that was counted.
LEMMA LaterRead ==
  ASSUME TypeOK, ViewTypeOK, view # NoView, ReadNext
  PROVE  /\ view' \in ViewRecord /\ view'.by = view.by /\ view'.request = view.request
         /\ view'.scan = view.scan /\ view'.module = view.module
         /\ view'.page = view.page /\ view'.at = view.at + 1 /\ UNCHANGED vars
         /\ \/ /\ view.request = "export_scan" /\ view.at = 1
               /\ view'.shown.scan = view.shown.scan
               /\ view'.shown.runs = Shown(run[view.scan][view.module])
            \/ /\ view.request = "export_scan" /\ view.at = 2
               /\ view'.shown.scan = view.shown.scan /\ view'.shown.runs = view.shown.runs
               /\ view'.shown.findings = run[view.scan][view.module].rows
            \/ /\ view.request = "list_findings" /\ view.at = 1
               /\ view'.shown.total = view.shown.total
               /\ view'.shown.findings =
                    OnPage(run[view.scan][view.module].rows, view.page)
<1>1. /\ view \in ViewRecord /\ view.scan \in Scans /\ view.module \in Modules
      /\ view.at # Len(Reads(view.request)) /\ ReadTable(view) /\ UNCHANGED vars
      /\ view.request \in Requests /\ view.at \in 1..Len(Reads(view.request))
  BY DEF ViewTypeOK, ReadNext, Complete
<1>2. \/ view.request = "export_scan" /\ view.at \in {1, 2}
      \/ view.request = "list_findings" /\ view.at = 1
  <2>1. CASE view.request = "export_scan"
    <3>1. view.at \in 1..3 /\ view.at # 3
      BY <1>1, <2>1, ReadsInOrder
    <3> QED
      BY <2>1, <3>1
  <2>2. CASE view.request = "list_findings"
    <3>1. view.at \in 1..2 /\ view.at # 2
      BY <1>1, <2>2, ReadsInOrder
    <3> QED
      BY <2>2, <3>1
  <2> QED
    BY <1>1, <2>1, <2>2 DEF Requests
<1>3. CASE view.request = "export_scan" /\ view.at = 1
  <2> DEFINE table == "runs"
  <2>1. table = Reads(view.request)[view.at + 1]
    BY <1>3, ReadsInOrder
  <2> QED
    BY <1>1, <1>3, <2>1, OneRead
<1>4. CASE view.request = "export_scan" /\ view.at = 2
  <2> DEFINE table == "findings"
  <2>1. table = Reads(view.request)[view.at + 1] /\ view.page = NoPage
    BY <1>1, <1>4, ReadsInOrder DEF ViewTypeOK, PagesOf
  <2> QED
    BY <1>1, <1>4, <2>1, OneRead, WholePage
<1>5. CASE view.request = "list_findings" /\ view.at = 1
  <2> DEFINE table == "findings"
  <2>1. table = Reads(view.request)[view.at + 1]
    BY <1>5, ReadsInOrder
  <2> QED
    BY <1>1, <1>5, <2>1, OneRead
<1> QED
  BY <1>2, <1>3, <1>4, <1>5

LEMMA ViewTypeStep ==
  TypeOK /\ ViewTypeOK /\ [ExportNext]_exportVars => ViewTypeOK'
<1> SUFFICES ASSUME TypeOK, ViewTypeOK, [ExportNext]_exportVars PROVE ViewTypeOK'
  OBVIOUS
<1>1. CASE view' = NoView
  BY <1>1, UnreadShows, PageTypes DEF ViewTypeOK, NoView, ViewRecord
<1>2. CASE view' = view /\ view # NoView /\ [Next]_vars
  BY <1>2, RunnerGrows DEF ViewTypeOK, Grows
<1>3. ASSUME NEW w \in Workers, NEW request \in Requests, NEW s \in Scans, NEW m \in Modules,
             OpenView(w, request, s, m)
      PROVE  ViewTypeOK'
  <2>1. /\ view' \in ViewRecord /\ view'.by = w /\ view'.request = request
        /\ view'.scan = s /\ view'.module = m /\ view'.at = 1
        /\ view'.page \in PagesOf(request)
        /\ scan[s].status # "none" /\ scan' = scan
    BY <1>3, FirstRead DEF Exists, ScanStatus, TerminalScan, vars, dbVars
  <2>2. 1 \in 1..Len(Reads(request))
    BY ReadsInOrder DEF Requests
  <2> QED
    BY <2>1, <2>2 DEF ViewTypeOK
<1>4. CASE view # NoView /\ ReadNext
  <2>1. /\ view' \in ViewRecord /\ view'.by = view.by /\ view'.request = view.request
        /\ view'.scan = view.scan /\ view'.module = view.module /\ view'.at = view.at + 1
        /\ view'.page = view.page
        /\ view.at + 1 \in 1..Len(Reads(view.request)) /\ scan' = scan
    BY <1>4, LaterRead, ReadsInOrder DEF vars, dbVars
  <2> QED
    BY <1>4, <2>1 DEF ViewTypeOK
<1> QED
  BY <1>1, <1>2, <1>3, <1>4, ViewMoves

\* The reads of a view agree with each other: the scan is read before what it
\* was computed from, a module before the findings it counts.
LEMMA ViewStep ==
  TypeOK /\ QueueInv /\ ModulesInv /\ ViewTypeOK /\ ViewInv /\ [ExportNext]_exportVars
    => ViewInv'
<1> SUFFICES ASSUME TypeOK, QueueInv, ModulesInv, ViewTypeOK, ViewInv,
                    [ExportNext]_exportVars
             PROVE  ViewInv'
  OBVIOUS
<1> DEFINE s == view.scan
           m == view.module
<1>1. CASE view' = NoView
  BY <1>1 DEF ViewInv
\* The worker went on between two reads.
<1>2. CASE view' = view /\ view # NoView /\ [Next]_vars
  <2> SUFFICES ASSUME Exists(s)' PROVE (ScanIsAsRead /\ RestIsRead)'
    BY <1>2 DEF ViewInv
  <2>1. s \in Scans /\ m \in Modules /\ scan[s].status # "none" /\ view \in ViewRecord
    BY <1>2 DEF ViewTypeOK
  <2>2. /\ Exists(s) /\ scan'[s].selected = scan[s].selected
        /\ run'[s][m].rows >= run[s][m].rows
    BY <1>2, <2>1, RunnerGrows DEF Grows, Exists
  <2>3. ScanIsAsRead /\ RestIsRead
    BY <1>2, <2>2 DEF ViewInv
  <2>4. scan[s].status \in TerminalScan => scan'[s].status = scan[s].status
    BY <1>2, <2>1, FinishedStep DEF KeepsFinished, Terminal, Exists, ScanStatus, TerminalScan
  <2>5. ScanIsAsRead'
    BY <1>2, <2>2, <2>3, <2>4 DEF ScanIsAsRead
  <2>6. run[s][m].rows \in Nat /\ run'[s][m].rows \in Nat
    BY <1>2, <2>1, RunnerTypeStep DEF TypeOK, RowsOK, ModuleRunRow
  <2>7. view.shown.runs.count \in Nat /\ view.shown.total \in Nat
    BY <2>1 DEF ViewRecord, ShownTables, ShownRow
  <2>8. RestIsRead'
    BY <1>2, <2>2, <2>3, <2>6, <2>7 DEF RestIsRead
  <2> QED
    BY <2>5, <2>8
<1>3. ASSUME NEW w \in Workers, NEW request \in Requests, NEW t \in Scans, NEW n \in Modules,
             OpenView(w, request, t, n)
      PROVE  ViewInv'
  <2>1. /\ view'.request = request /\ view'.scan = t /\ view'.module = n /\ view'.at = 1
        /\ request = "export_scan" => view'.shown.scan = scan[t].status
        /\ request = "list_findings" => view'.shown.total = run[t][n].rows
        /\ n \in scan[t].selected /\ scan' = scan /\ run' = run
    BY <1>3, FirstRead DEF vars, dbVars
  <2>2. ScanIsAsRead'
    BY <2>1 DEF ScanIsAsRead
  <2>3. run[t][n].rows \in Nat
    BY DEF TypeOK, RowsOK, ModuleRunRow
  <2>4. RestIsRead'
    BY <2>1, <2>3 DEF RestIsRead
  <2> QED
    BY <2>2, <2>4 DEF ViewInv
<1>4. CASE view # NoView /\ ReadNext
  <2> SUFFICES ASSUME Exists(s)' PROVE (ScanIsAsRead /\ RestIsRead)'
    BY <1>4, LaterRead DEF ViewInv
  <2>1. /\ s \in Scans /\ m \in Modules /\ view \in ViewRecord /\ scan' = scan /\ run' = run
        /\ Exists(s) /\ ScanIsAsRead /\ RestIsRead
    BY <1>4, LaterRead DEF ViewTypeOK, ViewInv, vars, dbVars, Exists
  <2>2. run[s][m] \in ModuleRunRow /\ scan[s] \in ScanRow /\ m \in scan[s].selected
    BY <2>1 DEF TypeOK, RowsOK, ScanIsAsRead
  <2>3. RowInv(s)
    BY <2>1 DEF ModulesInv
  <2>4. view'.request = view.request /\ view'.scan = s /\ view'.module = m
    BY <1>4, LaterRead
  \* The modules are read after the scan: they are settled if it is.
  <2>5. CASE view.request = "export_scan" /\ view.at = 1
    <3>1. /\ view'.at = 2 /\ view'.shown.scan = view.shown.scan
          /\ view'.shown.runs = Shown(run[s][m])
      BY <1>4, <2>5, LaterRead
    <3>2. ScanIsAsRead'
      BY <2>1, <2>4, <3>1 DEF ScanIsAsRead
    <3>3. /\ view'.shown.runs.status = run[s][m].status
          /\ view'.shown.runs.count = run[s][m].count
          /\ view'.shown.runs.noted = run[s][m].noted
          /\ view'.shown.runs.again = (run[s][m].attempts > 1)
      BY <3>1 DEF Shown
    <3>3b. view'.shown.runs.again <=> run[s][m].attempts > 1
      BY <3>3, Zenon
    <3>4. view.shown.scan \in TerminalScan => scan[s].status = view.shown.scan
      BY <2>1, <2>5 DEF ScanIsAsRead
    <3>5. view.shown.scan \in TerminalScan /\ (view.shown.scan = "failed" => "refuse" \notin Env)
            => run[s][m].status \in TerminalModule
      BY <2>2, <2>3, <3>4 DEF RowInv, Agrees, Status, TerminalScan, TerminalModule
    <3>6. view.shown.scan = "completed" /\ run[s][m].status = "done" /\ run[s][m].noted
            => run[s][m].attempts > 1
      BY <2>2, <2>3, <3>4 DEF RowInv, Explained, Status, TerminalScan
    <3>7. run[s][m].rows >= run[s][m].count
      BY <2>1, <2>3 DEF RowInv, FindingsStored
    <3>8. RestIsRead'
      BY <2>1, <2>4, <2>5, <3>1, <3>3, <3>5, <3>6, <3>7, <3>3b DEF RestIsRead
    <3> QED
      BY <3>2, <3>8
  <2>6. CASE view.request = "export_scan" /\ view.at = 2
    <3>1. /\ view'.at = 3 /\ view'.shown.scan = view.shown.scan
          /\ view'.shown.runs = view.shown.runs /\ view'.shown.findings = run[s][m].rows
      BY <1>4, <2>6, LaterRead
    <3>2. ScanIsAsRead'
      BY <2>1, <2>4, <3>1 DEF ScanIsAsRead
    <3>3. RestIsRead'
      BY <2>1, <2>4, <2>6, <3>1 DEF RestIsRead
    <3> QED
      BY <3>2, <3>3
  <2>7. CASE view.request = "list_findings" /\ view.at = 1
    <3>1. /\ view'.at = 2 /\ view'.shown.total = view.shown.total
          /\ view'.shown.findings = OnPage(run[s][m].rows, view.page)
          /\ view'.page = view.page
      BY <1>4, <2>7, LaterRead
    <3>2. ScanIsAsRead'
      BY <2>1, <2>4, <2>7 DEF ScanIsAsRead
    <3>3. OnPage(run[s][m].rows, view.page) >= OnPage(view.shown.total, view.page)
      <4>1. /\ view.page \in PageRecord /\ view.shown.total \in Nat /\ run[s][m].rows \in Nat
            /\ view.shown.total <= run[s][m].rows
        BY <2>1, <2>2, <2>7 DEF ViewRecord, ShownTables, ModuleRunRow, RestIsRead
      <4> QED
        BY <4>1, PageGrows
    <3>4. RestIsRead'
      BY <2>1, <2>4, <2>7, <3>1, <3>3 DEF RestIsRead
    <3> QED
      BY <3>2, <3>4
  <2> QED
    BY <1>4, <2>5, <2>6, <2>7, LaterRead
<1> QED
  BY <1>1, <1>2, <1>3, <1>4, ViewMoves

LEMMA ViewInvHolds ==
  ASSUME ~RacingStarts, ~LiveLapses
  PROVE  ExportSpec => [](ViewTypeOK /\ ViewInv)
<1>1. ExportInit => ViewTypeOK /\ ViewInv
  BY UnreadShows, PageTypes DEF ExportInit, ViewTypeOK, ViewInv, NoView, ViewRecord
<1> QED
  BY <1>1, ViewTypeStep, ViewStep, ViewsOnlyRead, RunnerTypeCorrect, QueueInvHolds,
     ModulesInvHolds, PTL DEF ExportSpec

-----------------------------------------------------------------------------
(* What a complete view shows *)

\* An export that shows a finished scan shows its modules settled, however the
\* worker wrote between its reads.
THEOREM FinishedViewsAreSettled ==
  ASSUME ~RacingStarts, ~LiveLapses
  PROVE  ExportSpec => []FinishedViewIsSettled
<1>1. ViewTypeOK /\ ViewInv => FinishedViewIsSettled
  BY ReadsInOrder DEF FinishedViewIsSettled, Whole, Complete, ViewInv, RestIsRead
<1> QED
  BY <1>1, ViewInvHolds, PTL

\* An export lists the findings that its modules count, and a page of
\* list_findings what its limit and offset leave of the total before it.
THEOREM PromisedFindingsAreShown ==
  ASSUME ~RacingStarts, ~LiveLapses
  PROVE  ExportSpec => []PromisedFindingsShown
<1>1. ViewTypeOK /\ ViewInv => PromisedFindingsShown
  BY ReadsInOrder DEF PromisedFindingsShown, Whole, Complete, ViewInv, RestIsRead
<1> QED
  BY <1>1, ViewInvHolds, PTL

\* A reason next to a module that is done, in a scan without warnings, is from
\* an earlier run of it.
THEOREM ReasonsAreExplained ==
  ASSUME ~RacingStarts, ~LiveLapses
  PROVE  ExportSpec => []ReasonIsExplained
<1>1. ViewTypeOK /\ ViewInv => ReasonIsExplained
  BY ReadsInOrder DEF ReasonIsExplained, Whole, Complete, ViewInv, RestIsRead
<1> QED
  BY <1>1, ViewInvHolds, PTL
=============================================================================
