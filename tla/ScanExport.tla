------------------------------ MODULE ScanExport ------------------------------
(***************************************************************************)
(* The endpoints that show a scan while the worker writes it: get_scan,    *)
(* list_findings and export_scan.  Each reads several tables, and the      *)
(* driver opens no transaction for a SELECT, so every read sees the        *)
(* database as it is by then.                                              *)
(*                                                                         *)
(* A view is what one request shows of one module of the scan: the rows of *)
(* different modules are read by the same SELECT and never compared; of a  *)
(* list it is the page that a request filtered by the module gets.         *)
(* get_scan makes the first two reads of an export, and no more.  The      *)
(* wording of the JSON and Markdown reports is left out; scope and ledger  *)
(* are read but not shown next to anything of the modules.                 *)
(***************************************************************************)
EXTENDS ScanRunner, Sequences

CONSTANT Pages   \* limit and offset of the lists that clients ask for

ASSUME PagesAssumption == Pages \subseteq [limit : Nat \ {0}, offset : Nat]

VARIABLE view

exportVars == <<vars, view>>

Requests == {"list_findings", "export_scan"}

\* Mutants: the modules are read before their scan, or after their findings.
Reads_RunsFirst(request) ==
  IF request = "list_findings" THEN <<"total", "findings">>
                               ELSE <<"runs", "scan", "findings">>

Reads_FindingsFirst(request) ==
  IF request = "list_findings" THEN <<"findings", "total">>
                               ELSE <<"scan", "findings", "runs">>

\* The tables that each request reads, in this order.  list_findings looks for
\* the scan first and shows nothing of it.
Reads(request) ==
  IF request = "list_findings" THEN <<"total", "findings">>
                               ELSE <<"scan", "runs", "findings">>

\* An export has no page.
NoPage == [limit |-> 0, offset |-> 0]
PagesOf(request) == IF request = "list_findings" THEN Pages ELSE {NoPage}

\* How many of n rows the SELECT returns, with its limit and offset if any.
OnPage(n, page) ==
  CASE page.limit = 0 -> n
    [] page.limit # 0 /\ n <= page.offset -> 0
    [] page.limit # 0 /\ n > page.offset /\ n <= page.offset + page.limit -> n - page.offset
    [] OTHER -> page.limit

\* What a module's row shows of it.
Shown(r) == [status |-> r.status, count |-> r.count, noted |-> r.noted,
             again |-> r.attempts > 1]

Unread == [scan |-> "none", runs |-> Shown(NoRun), total |-> 0, findings |-> 0]
NoView == [by |-> NoWorker, request |-> "none", page |-> NoPage, scan |-> NoScan,
           module |-> 0, at |-> 0, shown |-> Unread]

ExportInit == Init /\ view = NoView

\* What a SELECT finds now: the total counts every row, whatever the page.
Found(table, v) ==
  LET r == run[v.scan][v.module]
  IN  CASE table = "scan" -> scan[v.scan].status
        [] table = "runs" -> Shown(r)
        [] table = "total" -> r.rows
        [] table = "findings" -> OnPage(r.rows, v.page)

\* A scan that is missing ends the request with ScanNotFoundError; rows that
\* went with the scan after that are just not shown.
ReadTable(v) ==
  LET table == Reads(v.request)[v.at + 1]
  IN  view' = IF table = "scan" /\ ~ Exists(v.scan) THEN NoView
              ELSE [v EXCEPT !.at = @ + 1, !.shown[table] = Found(table, v)]

OpenView(w, request, s, m) ==
  /\ view = NoView
  /\ phase[w] = "up"
  /\ Exists(s) /\ m \in scan[s].selected
  /\ \E page \in PagesOf(request) :
       ReadTable([NoView EXCEPT !.by = w, !.request = request, !.page = page,
                                !.scan = s, !.module = m])
  /\ UNCHANGED vars

Complete == view # NoView /\ view.at = Len(Reads(view.request))

ReadNext == view # NoView /\ ~ Complete /\ ReadTable(view) /\ UNCHANGED vars

\* A request ends when it has read all, and with the process that serves it.
SendView == Complete /\ view' = NoView /\ UNCHANGED vars

KeepView ==
  view' = IF view # NoView /\ phase'[view.by] # "up" THEN NoView ELSE view

\* The worker goes on while a view is read.  Once it is complete nothing that
\* happens can change it.
ExportNext ==
  \/ ~ Complete /\ Next /\ KeepView
  \/ \E w \in Workers, request \in Requests, s \in Scans, m \in Modules :
       OpenView(w, request, s, m)
  \/ ReadNext \/ SendView

ExportSpec == ExportInit /\ [][ExportNext]_exportVars

-----------------------------------------------------------------------------
(* Properties *)

\* The view is complete and nobody deleted the scan while it was read.
Whole(request) == Complete /\ view.request = request /\ Exists(view.scan)

\* A view that shows a finished scan shows its module settled, however the
\* worker wrote between the reads: the tables are read in the reverse of the
\* order in which execute_scan commits them (get_scan, _load_export_inputs).
\* A scan refused at dispatch is the exception, its modules were never begun.
FinishedViewIsSettled ==
  Whole("export_scan") /\ view.shown.scan \in TerminalScan
  /\ (view.shown.scan = "failed" => "refuse" \notin Env)
  => view.shown.runs.status \in TerminalModule

\* What was promised is shown.  An export lists at least the finding_count of
\* a module; a page that list_findings reads after it counted the total holds
\* every row that its limit and offset leave of that total.  A restart that
\* runs the module again takes nothing away.
PromisedFindingsShown ==
  /\ Whole("export_scan") => view.shown.findings >= view.shown.runs.count
  /\ Whole("list_findings") =>
       view.shown.findings >= OnPage(view.shown.total, view.page)

\* The reason printed next to a module that is done is about this run of it: a
\* scan that completed without warnings shows one only for a module that was
\* begun before, and interrupted by a restart or failed then, whose old message
\* _set_module_status leaves in place.
ReasonIsExplained ==
  Whole("export_scan") /\ view.shown.scan = "completed"
  /\ view.shown.runs.status = "done" /\ view.shown.runs.noted
  => view.shown.runs.again
=============================================================================
