--------------------------- MODULE ScanGuardProofs ---------------------------
(***************************************************************************)
(* ScanGuard keeps what it promises for any address space, any tables that *)
(* satisfy ScopeRulesAssumption, any profiles, names and number of scans.  *)
(***************************************************************************)
EXTENDS ScanGuard, TLAPS

-----------------------------------------------------------------------------
(* The inductive invariant: what the properties rest on between the steps   *)

\* A profile that is saved can be loaded and enforced: ScopeProfile.create
\* does not raise at dispatch, where nothing would catch it.
SavedScopesLoad == \A i \in ScopeIds : Saved(i) => ValidProfile(scopes[i].row)

\* Of the scan that is executed: its row was inserted, its profile is one it
\* was dispatched under and can be enforced, its target was validated.
JobInv ==
  job.pc \notin {"idle", "dead"} =>
    /\ scans[job.scan].status # "none"
    /\ ValidProfile(job.row) /\ job.row \in authorised[job.scan]
    /\ job.pc = "running" => TargetAdmitted(job.row, job.target.kind, job.cand)

\* The id of a request is still free: no scan that was deleted comes back.
RequestInv == req.pc # "idle" => scans[req.scan].status = "none"

\* Every connection passed the check, and belongs to the scan that runs.
ConnInv ==
  \A c \in Pairs : conn[c] # "idle" =>
    job.pc = "running" /\ c[1] \in job.cand /\ Admits(job.row, c[1])

GuardInv ==
  /\ TypeOK /\ ScopeOfScanExists /\ SavedScopesLoad /\ JobInv /\ RequestInv /\ ConnInv
  /\ AllowedWasAuthorised /\ HeldIsRecorded

-----------------------------------------------------------------------------
(* The rules *)

\* A network that passes _validate_network admits each of its addresses,
\* although the library judges it by its ends: it lies in one entry of the
\* profile, the entry in one allowed range, and such a range is local and free
\* of multicast and unspecified addresses.
LEMMA NetworkSafe ==
  ASSUME NEW row \in Row, ValidProfile(row), NEW n, NetworkAdmitted(row, n), NEW a \in n
  PROVE  Admits(row, a)
<1>1. PICK e \in row.entries : n \subseteq e
  BY DEF NetworkAdmitted, ContainsNetwork, NetworkWithinAllowed
<1>2. PICK r \in AllowedRangesFor(row.optins) : e \subseteq r
  BY <1>1 DEF ValidProfile, NetworkWithinAllowed
<1>3. row.optins \subseteq OptIns
  BY DEF Row
<1>4. r \in AllowedRangesFor(OptIns)
  BY <1>2, <1>3 DEF AllowedRangesFor
<1>5. PICK l \in LocalRanges : r \subseteq l
  BY <1>4, ScopeRulesAssumption
<1>6. \A c \in SpecialClasses : r \cap c = {}
  BY <1>4, ScopeRulesAssumption
<1>7. a \notin Untouchable
  BY DEF NetworkAdmitted, NetworkAlwaysDenied
<1>8. ~ IsAlwaysDenied(a)
  BY <1>1, <1>2, <1>5, <1>6, <1>7 DEF IsAlwaysDenied
<1>9. ContainsAddress(row, a)
  BY <1>1 DEF ContainsAddress
<1> QED BY <1>8, <1>9 DEF Admits

\* A validated target admits every address it has, whatever its kind.
LEMMA TargetSafe ==
  ASSUME NEW row \in Row, ValidProfile(row), NEW kind, NEW cand,
         TargetAdmitted(row, kind, cand), NEW a \in cand
  PROVE  Admits(row, a)
BY NetworkSafe DEF TargetAdmitted, AddressesAdmitted

\* A target or a name stands for a set of addresses.
LEMMA Classified ==
  ASSUME TypeOK, NEW target \in Targets \cup {NoTarget}
  PROVE  Classify(target) \subseteq Addresses
<1>1. CASE target \in Targets
  BY <1>1, ScanGuardAssumption DEF Classify, TypeOK, Kind
<1>2. CASE target = NoTarget
  BY <1>2 DEF Classify, NoTarget
<1> QED BY <1>1, <1>2

-----------------------------------------------------------------------------
(* Types *)

\* The part of TypeOK about the scans.
ScansOK ==
  /\ scans \in [Scans -> ScanRow]
  /\ \A s \in Scans : Exists(s) => scans[s].scope \in ScopeIds /\ scans[s].target \in Targets

\* The status of one scan is written: only a scan with a row can get one that
\* says so.
LEMMA StatusType ==
  ASSUME ScansOK, NEW s \in Scans, NEW st \in {"refused", "deleted", "running", "over"},
         st \in {"refused", "deleted"} \/ Exists(s),
         scans' = [scans EXCEPT ![s].status = st]
  PROVE  ScansOK'
<1>1. scans[s] \in ScanRow
  BY DEF ScansOK
<1>2. [scans[s] EXCEPT !.status = st] \in ScanRow
  BY <1>1 DEF ScanRow
<1>3. scans' \in [Scans -> ScanRow]
  BY <1>2 DEF ScansOK
<1>4. \A u \in Scans : /\ scans'[u].scope = scans[u].scope /\ scans'[u].target = scans[u].target
                         /\ u # s => scans'[u] = scans[u]
  BY <1>1 DEF ScansOK, ScanRow
<1>5. scans'[s].status = st
  BY <1>1 DEF ScansOK, ScanRow
<1> QED BY <1>3, <1>4, <1>5 DEF ScansOK, Exists

LEMMA EntryType ==
  ASSUME NEW s \in Scans \cup {NoScan}, NEW d \in SUBSET Addresses,
         NEW p \in Ports \cup {NoPort},
         NEW o \in {"validated", "rejected", "connected", "connect_failed"}
  PROVE  Entry(s, d, p, o) \in LedgerRow
BY DEF Entry, LedgerRow

LEMMA ValidatedType ==
  ASSUME NEW s \in Scans \cup {NoScan}, NEW kind, NEW cand \in SUBSET Addresses
  PROVE  ValidatedEntries(s, kind, cand) \subseteq LedgerRow
BY EntryType DEF ValidatedEntries, Destinations

LEMMA DenyType ==
  ASSUME NEW s \in Scans \cup {NoScan}, NEW row, NEW kind, NEW cand \in SUBSET Addresses,
         NEW new \in DenyEntries(s, row, kind, cand)
  PROVE  new \subseteq LedgerRow
<1>1. RefusedAt(row, kind, cand) \subseteq SUBSET Addresses
  BY DEF RefusedAt
<1>2. CASE cand = {}
  BY <1>2 DEF DenyEntries
<1>3. CASE cand # {}
  <2>1. PICK d \in RefusedAt(row, kind, cand) : new = {Entry(s, d, NoPort, "rejected")}
    BY <1>3 DEF DenyEntries
  <2> QED BY <1>1, <2>1, EntryType
<1> QED BY <1>2, <1>3

LEMMA InitType == Init => TypeOK
<1> SUFFICES ASSUME Init PROVE TypeOK
  OBVIOUS
<1>1. NoRow \in Row
  BY DEF NoRow, Row
<1>2. changes \in 0..MaxChanges
  BY ScanGuardAssumption DEF Init
<1>3. /\ scopes \in [ScopeIds -> [state : {"unused", "saved", "gone"}, row : Row]]
      /\ scans \in [Scans -> ScanRow] /\ \A s \in Scans : ~ Exists(s)
  BY <1>1 DEF Init, ScanRow, Exists
<1>4. req \in RequestRecord /\ job \in JobRecord /\ req.pc = "idle" /\ job.pc = "idle"
  BY <1>1 DEF Init, NoReq, Idle, RequestRecord, JobRecord
<1>5. dns \in [Hosts -> SUBSET Addresses] /\ conn \in [Pairs -> Stages]
  BY ScanGuardAssumption DEF Init, Stages
<1> QED BY <1>2, <1>3, <1>4, <1>5 DEF Init, TypeOK

LEMMA EditType == ASSUME TypeOK, Edit PROVE TypeOK'
<1> USE DEF TypeOK, ScansOK, Exists, tableVars
<1>1. ASSUME NEW i \in ScopeIds, NEW row \in Payloads, CreateScope(i, row) PROVE TypeOK'
  BY <1>1, ScanGuardAssumption DEF CreateScope
<1>2. ASSUME NEW i \in ScopeIds, NEW row \in Payloads, UpdateScope(i, row) PROVE TypeOK'
  BY <1>2, ScanGuardAssumption DEF UpdateScope
<1>3. ASSUME NEW i \in ScopeIds, DeleteScopeRead(i) PROVE TypeOK'
  BY <1>3 DEF DeleteScopeRead
<1>4. ASSUME DeleteScopeCommit PROVE TypeOK'
  BY <1>4 DEF DeleteScopeCommit
<1>5. ASSUME NEW h \in Hosts, NEW answer \in Answers, Rebind(h, answer) PROVE TypeOK'
  BY <1>5, ScanGuardAssumption DEF Rebind
<1>6. ASSUME NEW s \in Scans, DeleteScan(s) PROVE TypeOK'
  <2>1. ScansOK'
    BY <1>6, StatusType DEF DeleteScan
  <2> QED BY <1>6, <2>1 DEF DeleteScan
<1> QED BY <1>1, <1>2, <1>3, <1>4, <1>5, <1>6 DEF Edit

LEMMA RequestType == ASSUME TypeOK, Request PROVE TypeOK'
<1> USE DEF TypeOK, ScansOK, Exists, tableVars
<1>0. NoReq \in RequestRecord /\ NoReq.pc = "idle"
  BY DEF NoReq, RequestRecord, NoRow, Row
<1>1. ASSUME NEW s \in Scans, NEW i \in ScopeIds, NEW target \in Targets,
             RequestLoad(s, i, target)
      PROVE  TypeOK'
  BY <1>1 DEF RequestLoad, RequestRecord
<1>2. ASSUME RequestResolve PROVE TypeOK'
  <2>1. Classify(req.target) \subseteq Addresses
    BY Classified DEF RequestRecord
  <2>2. req' \in RequestRecord /\ req'.scan = req.scan /\ req'.scope = req.scope /\ req'.target = req.target
    BY <1>2, <2>1 DEF RequestResolve, RequestRecord
  <2> QED BY <1>2, <2>2 DEF RequestResolve
<1>3. ASSUME RequestValidated PROVE TypeOK'
  <2>1. req' \in RequestRecord /\ req'.scan = req.scan /\ req'.scope = req.scope /\ req'.target = req.target
    BY <1>3 DEF RequestValidated, RequestRecord
  <2> QED BY <1>3, <2>1 DEF RequestValidated
<1>6. ASSUME RequestRecords PROVE TypeOK'
  <2>1. ValidatedEntries(NoScan, req.target.kind, req.cand) \subseteq LedgerRow
    BY ValidatedType DEF RequestRecord
  <2> QED BY <1>6, <2>1 DEF RequestRecords
<1>4. ASSUME RequestRefused PROVE TypeOK'
  <2>1. PICK new \in DenyEntries(NoScan, req.row, req.target.kind, req.cand) :
          ledger' = ledger \cup new
    BY <1>4 DEF RequestRefused
  <2>2. new \subseteq LedgerRow
    BY DenyType DEF RequestRecord
  <2>3. req.scan \in Scans /\ scans' = [scans EXCEPT ![req.scan].status = "refused"]
    BY <1>4 DEF RequestRefused, RequestRecord
  <2>4. ScansOK'
    BY <2>3, StatusType
  <2> QED BY <1>0, <1>4, <2>1, <2>2, <2>4 DEF RequestRefused
<1>5. ASSUME RequestInsert PROVE TypeOK'
  <2>1. ScansOK'
    <3>1. req.scan \in Scans /\ req.scope \in ScopeIds /\ req.target \in Targets
      BY <1>5 DEF RequestInsert, RequestRecord
    <3>2. CASE Saved(req.scope)
      BY <1>5, <3>1, <3>2 DEF RequestInsert, ScanRow
    <3>3. CASE ~ Saved(req.scope)
      BY <1>5, <3>1, <3>3 DEF RequestInsert, ScanRow
    <3> QED BY <3>2, <3>3
  <2> QED BY <1>0, <1>5, <2>1 DEF RequestInsert
<1> QED BY <1>1, <1>2, <1>3, <1>4, <1>5, <1>6 DEF Request

LEMMA IdleType ==
  ASSUME NEW p \in {"idle", "loaded", "dead"}
  PROVE  /\ Idle(p) \in JobRecord
         /\ Idle(p).pc = p /\ Idle(p).scan = NoScan /\ Idle(p).cand = {}
BY DEF Idle, JobRecord, NoRow, Row

\* The two ways in which execute_scan lets go of its scan.
LEMMA EndType ==
  ASSUME TypeOK, job.pc \notin {"idle", "dead"}, (Exists(job.scan) /\ Finish) \/ LoseScan
  PROVE  /\ ScansOK'
         /\ job' \in JobRecord /\ job'.pc \in {"idle", "dead"}
<1>1. CASE Exists(job.scan) /\ Finish
  BY <1>1, IdleType, StatusType DEF Finish, TypeOK, ScansOK
<1>2. CASE LoseScan
  BY <1>2, IdleType DEF LoseScan, TypeOK, ScansOK, Exists
<1> QED BY <1>1, <1>2

LEMMA ExecuteType == ASSUME TypeOK, Execute PROVE TypeOK'
<1> USE DEF TypeOK, ScansOK, Exists, tableVars
<1>1. ASSUME NEW s \in Scans, Dispatch(s) PROVE TypeOK'
  <2>1. scans[s].scope \in ScopeIds /\ scans[s].target \in Targets
    BY <1>1 DEF Dispatch, Exists, ScanRow
  <2>2. ScansOK'
    BY <1>1, StatusType DEF Dispatch
  <2>3. job' \in JobRecord /\ job'.scan = s /\ job'.target \in Targets
    BY <1>1, <2>1, IdleType DEF Dispatch, JobRecord
  <2>4. authorised' \in [Scans -> SUBSET Row]
    BY <1>1, <2>1 DEF Dispatch
  <2> QED BY <1>1, <2>2, <2>3, <2>4 DEF Dispatch
<1>2. ASSUME DispatchResolve PROVE TypeOK'
  <2>1. Classify(job.target) \subseteq Addresses
    BY Classified DEF JobRecord
  <2>2. job' \in JobRecord /\ job'.scan = job.scan /\ job'.target = job.target
    BY <1>2, <2>1 DEF DispatchResolve, JobRecord
  <2> QED BY <1>2, <2>2 DEF DispatchResolve
<1>3. ASSUME DispatchValidated PROVE TypeOK'
  <2>1. CASE LoseScan
    BY <1>3, <2>1, EndType DEF DispatchValidated, LoseScan
  <2>2. CASE ~ LoseScan
    <3>1. job' \in JobRecord /\ job'.scan = job.scan /\ job'.target = job.target
      BY <1>3, <2>2 DEF DispatchValidated, JobRecord
    <3> QED BY <1>3, <2>2, <3>1 DEF DispatchValidated
  <2> QED BY <2>1, <2>2
<1>4. ASSUME DispatchRefused PROVE TypeOK'
  <2>1. CASE LoseScan
    BY <1>4, <2>1, EndType DEF DispatchRefused, LoseScan
  <2>2. CASE ~ LoseScan
    <3>1. PICK new \in DenyEntries(job.scan, job.row, job.target.kind, job.cand) :
            ledger' = ledger \cup new
      BY <1>4, <2>2 DEF DispatchRefused
    <3>2. new \subseteq LedgerRow
      BY DenyType DEF JobRecord
    <3>3. Exists(job.scan) /\ Finish
      BY <1>4, <2>2 DEF DispatchRefused
    <3> QED BY <1>4, <3>1, <3>2, <3>3, EndType DEF DispatchRefused
  <2> QED BY <2>1, <2>2
<1>5. ASSUME DispatchRecords PROVE TypeOK'
  <2>1. ValidatedEntries(job.scan, job.target.kind, job.cand) \subseteq LedgerRow
    BY ValidatedType DEF JobRecord
  <2> QED BY <1>5, <2>1 DEF DispatchRecords
<1> QED BY <1>1, <1>2, <1>3, <1>4, <1>5 DEF Execute

LEMMA AroundType == ASSUME TypeOK, ScanEnds \/ LoopDies \/ Restart PROVE TypeOK'
<1> USE DEF TypeOK, ScansOK, Exists, tableVars
<1>0. Settled \in [Pairs -> {"idle"}]
  BY DEF Settled
<1>. {"idle"} \subseteq Stages
  BY DEF Stages
<1>1. CASE ScanEnds
  <2>1. ((Exists(job.scan) /\ Finish) \/ LoseScan) /\ ledger' = ledger
    BY <1>1 DEF ScanEnds, LoseScan
  <2> QED BY <1>0, <1>1, <2>1, EndType DEF ScanEnds
<1>2. CASE LoopDies
  BY <1>0, <1>2, IdleType DEF LoopDies
<1>3. CASE Restart
  <2>1. ScansOK'
    BY <1>3 DEF Restart, ScanRow
  <2> QED BY <1>0, <1>3, <2>1, IdleType, ScanGuardAssumption DEF Restart
<1> QED BY <1>1, <1>2, <1>3

\* A connection moves on, and leaves at most one more row in the ledger.
LEMMA ConnectKinds ==
  ASSUME NEW a \in Addresses, NEW p \in Ports, ConnectStep(a, p)
  PROVE  /\ UNCHANGED <<scopes, scans, dns, changes, req, del, job, authorised>>
         /\ \/ conn' = conn
            \/ \E st \in Stages :
                 /\ conn' = [conn EXCEPT ![<<a, p>>] = st]
                 /\ conn[<<a, p>>] # "idle" \/ (job.pc = "running" /\ MayConnect(a))
                 /\ st = "held" => Entry(job.scan, {a}, p, "connected") \in ledger'
         /\ \/ ledger' = ledger
            \/ /\ Exists(job.scan)
               /\ \E o \in {"rejected", "connected", "connect_failed"} :
                    /\ ledger' = ledger \cup {Entry(job.scan, {a}, p, o)}
                    /\ o # "rejected" => conn[<<a, p>>] # "idle"
<1> USE DEF tableVars, Stages
<1>1. CASE ConnectDenied(a, p)  BY <1>1 DEF ConnectDenied
<1>2. CASE ConnectAdmitted(a, p) \/ ConnectBegins(a, p) \/ ConnectAbandoned(a, p)
  BY <1>2 DEF ConnectAdmitted, ConnectBegins, ConnectAbandoned
<1>3. CASE ConnectAnswered(a, p)  BY <1>3 DEF ConnectAnswered, Failed
<1>4. CASE RecordOpened(a, p)  BY <1>4 DEF RecordOpened
<1>5. CASE RecordInterrupted(a, p)  BY <1>5 DEF RecordInterrupted
<1>6. CASE RecordFailed(a, p)  BY <1>6 DEF RecordFailed, Failed
<1>7. CASE RecordLost(a, p)  BY <1>7 DEF RecordLost, Failed
<1>8. CASE Close(a, p)  BY <1>8 DEF Close
<1> QED BY <1>1, <1>2, <1>3, <1>4, <1>5, <1>6, <1>7, <1>8 DEF ConnectStep

LEMMA ConnectType ==
  ASSUME TypeOK, NEW a \in Addresses, NEW p \in Ports, ConnectStep(a, p)
  PROVE  TypeOK'
<1>1. conn' \in [Pairs -> Stages]
  BY ConnectKinds DEF TypeOK, Pairs
<1>2. ledger' \subseteq LedgerRow
  <2>1. CASE ledger' = ledger
    BY <2>1 DEF TypeOK
  <2>2. ASSUME Exists(job.scan), NEW o \in {"rejected", "connected", "connect_failed"},
               ledger' = ledger \cup {Entry(job.scan, {a}, p, o)}
        PROVE  ledger' \subseteq LedgerRow
    BY <2>2, EntryType DEF TypeOK, Exists
  <2> QED BY <2>1, <2>2, ConnectKinds
<1> QED BY <1>1, <1>2, ConnectKinds DEF TypeOK, Exists

LEMMA TypeStep == TypeOK /\ [Next]_vars => TypeOK'
<1> SUFFICES ASSUME TypeOK, [Next]_vars PROVE TypeOK'
  OBVIOUS
<1>1. CASE UNCHANGED vars
  BY <1>1 DEF TypeOK, Exists, vars, tableVars
<1>2. ASSUME NEW a \in Tried, NEW p \in Ports, ConnectStep(a, p) PROVE TypeOK'
  BY <1>2, ConnectType, ScanGuardAssumption
<1> QED BY <1>1, <1>2, EditType, RequestType, ExecuteType, AroundType DEF Next


-----------------------------------------------------------------------------
(* What a step does to scans and profiles *)

\* A scan that has a row had it before, with the same profile, or it is being
\* inserted under a profile that is there; an id that was used stays used.
ScanMove(s) ==
  /\ Exists(s)' => \/ Exists(s) /\ scans'[s].scope = scans[s].scope
                   \/ scans[s].status = "none" /\ Saved(scans'[s].scope) /\ scopes' = scopes
  /\ scans[s].status # "none" => scans'[s].status # "none"
  /\ scans[s].status = "none" /\ scans'[s].status # "none" => req'.pc = "idle"

LEMMA Written ==
  ASSUME TypeOK, NEW s \in Scans, NEW st \in {"refused", "deleted", "running", "over"},
         scans' = [scans EXCEPT ![s].status = st]
  PROVE  /\ scans'[s].status = st
         /\ \A u \in Scans : scans'[u].scope = scans[u].scope
         /\ \A u \in Scans : u # s => scans'[u] = scans[u]
<1>1. scans[s] \in ScanRow /\ scans \in [Scans -> ScanRow]
  BY DEF TypeOK
<1> QED BY <1>1 DEF ScanRow

LEMMA ScanMoves ==
  ASSUME TypeOK, RequestInv, [Next]_vars, NEW u \in Scans
  PROVE  ScanMove(u)
<1> USE DEF ScanMove
<1>1. ASSUME scans' = scans PROVE ScanMove(u)
  BY <1>1 DEF Exists
<1>2. ASSUME NEW s \in Scans, NEW st \in {"refused", "deleted", "running", "over"},
             scans' = [scans EXCEPT ![s].status = st],
             st = "refused" => s = req.scan /\ req'.pc = "idle",
             st # "refused" => Exists(s)
      PROVE  ScanMove(u)
  <2>1. CASE u # s
    BY <1>2, <2>1, Written DEF Exists
  <2>2. CASE u = s
    BY <1>2, <2>2, Written DEF Exists
  <2> QED BY <2>1, <2>2
<1>3. ASSUME Edit PROVE ScanMove(u)
  <2>1. scans' = scans \/ \E s \in Scans : DeleteScan(s)
    BY <1>3 DEF Edit, CreateScope, UpdateScope, DeleteScopeRead, DeleteScopeCommit, Rebind, tableVars
  <2>2. ASSUME NEW s \in Scans, DeleteScan(s) PROVE ScanMove(u)
    BY <1>2, <2>2 DEF DeleteScan
  <2> QED BY <1>1, <2>1, <2>2
<1>4. ASSUME Request PROVE ScanMove(u)
  <2>1. scans' = scans \/ RequestRefused \/ RequestInsert
    BY <1>4 DEF Request, RequestLoad, RequestResolve, RequestRecords, RequestValidated, tableVars
  <2>2. CASE RequestRefused
    BY <1>2, <2>2 DEF RequestRefused, TypeOK, NoReq
  <2>3. CASE RequestInsert
    <3>1. req.scan \in Scans /\ scans[req.scan].status = "none" /\ req'.pc = "idle" /\ scopes' = scopes
      BY <2>3 DEF RequestInsert, RequestInv, NoReq, TypeOK
    <3>2. CASE u # req.scan
      BY <2>3, <3>1, <3>2 DEF RequestInsert, Exists, TypeOK
    <3>3. CASE u = req.scan /\ Saved(req.scope)
      BY <2>3, <3>1, <3>3 DEF RequestInsert, Exists, TypeOK
    <3>4. CASE u = req.scan /\ ~ Saved(req.scope)
      <4>1. scans[u] \in ScanRow /\ scans'[u] = [scans[u] EXCEPT !.status = "refused"]
        BY <2>3, <3>1, <3>4 DEF RequestInsert, TypeOK
      <4>2. scans'[u].status = "refused"
        BY <4>1 DEF ScanRow
      <4> QED BY <3>1, <3>4, <4>2 DEF Exists
    <3> QED BY <3>2, <3>3, <3>4
  <2> QED BY <1>1, <2>1, <2>2, <2>3
<1>5. ASSUME Finish, Exists(job.scan) PROVE ScanMove(u)
  BY <1>2, <1>5 DEF Finish, Exists
<1>6. ASSUME Execute PROVE ScanMove(u)
  <2>1. scans' = scans \/ (Exists(job.scan) /\ Finish) \/ \E s \in Scans : Dispatch(s)
    BY <1>6 DEF Execute, DispatchResolve, DispatchRecords, DispatchValidated, DispatchRefused, LoseScan, tableVars
  <2>2. ASSUME NEW s \in Scans, Dispatch(s) PROVE ScanMove(u)
    BY <1>2, <2>2 DEF Dispatch, Exists
  <2> QED BY <1>1, <1>5, <2>1, <2>2
<1>7. ASSUME ScanEnds \/ LoopDies PROVE ScanMove(u)
  BY <1>1, <1>5, <1>7 DEF ScanEnds, LoopDies, LoseScan, tableVars
<1>8. ASSUME Restart PROVE ScanMove(u)
  <2>1. scans[u] \in ScanRow
    BY DEF TypeOK
  <2>2. scans'[u] = IF scans[u].status = "running" THEN [scans[u] EXCEPT !.status = "queued"] ELSE scans[u]
    BY <1>8 DEF Restart
  <2> QED BY <2>1, <2>2 DEF Exists, ScanRow
<1>9. ASSUME NEW a \in Tried, NEW p \in Ports, ConnectStep(a, p) PROVE ScanMove(u)
  BY <1>1, <1>9, ConnectKinds, ScanGuardAssumption
<1> QED BY <1>1, <1>3, <1>4, <1>6, <1>7, <1>8, <1>9 DEF Next, vars, tableVars

\* A profile is deleted only while no scan uses it, and saved only when it was
\* validated.
LEMMA ScopeMoves ==
  ASSUME TypeOK, SavedScopesLoad, [Next]_vars, NEW i \in ScopeIds
  PROVE  /\ Saved(i) /\ ~ Saved(i)' => Uses(i) = {} /\ scans' = scans
         /\ Saved(i)' => ValidProfile(scopes'[i].row)
<1> USE DEF SavedScopesLoad, Saved
<1>1. CASE scopes' = scopes
  BY <1>1
<1>2. ASSUME NEW j \in ScopeIds, NEW row \in Payloads, CreateScope(j, row) \/ UpdateScope(j, row)
      PROVE  (Saved(i)' /\ ValidProfile(scopes'[i].row)) \/ scopes'[i] = scopes[i]
  <2>1. ValidProfile(row) /\ scopes' = [scopes EXCEPT ![j] = [state |-> "saved", row |-> row]]
    BY <1>2 DEF CreateScope, UpdateScope
  <2> QED BY <2>1 DEF TypeOK
<1>3. CASE DeleteScopeCommit
  <2>1. CASE scopes' = scopes
    BY <2>1
  <2>2. CASE Uses(del) = {} /\ scopes' = [scopes EXCEPT ![del].state = "gone"]
    <3>1. del \in ScopeIds /\ scans' = scans
      BY <1>3 DEF DeleteScopeCommit, TypeOK
    <3>2. CASE i = del
      BY <2>2, <3>1, <3>2 DEF TypeOK
    <3>3. CASE i # del
      BY <2>2, <3>1, <3>3 DEF TypeOK
    <3> QED BY <3>2, <3>3
  <2> QED BY <1>3, <2>1, <2>2 DEF DeleteScopeCommit
<1>4. \/ scopes' = scopes \/ DeleteScopeCommit
      \/ \E j \in ScopeIds, row \in Payloads : CreateScope(j, row) \/ UpdateScope(j, row)
  <2>1. ASSUME Edit PROVE <1>4!:
    BY <2>1 DEF Edit, DeleteScopeRead, Rebind, DeleteScan, tableVars
  <2>2. ASSUME Request \/ Execute \/ ScanEnds \/ LoopDies \/ Restart PROVE scopes' = scopes
    BY <2>2 DEF Request, RequestLoad, RequestResolve, RequestRecords, RequestValidated, RequestRefused,
                RequestInsert, Execute, Dispatch, DispatchResolve, DispatchRecords, DispatchValidated,
                DispatchRefused, ScanEnds, LoopDies, Restart, tableVars
  <2>3. ASSUME NEW a \in Tried, NEW p \in Ports, ConnectStep(a, p) PROVE scopes' = scopes
    BY <2>3, ConnectKinds, ScanGuardAssumption
  <2> QED BY <2>1, <2>2, <2>3 DEF Next, vars, tableVars
<1> QED BY <1>1, <1>2, <1>3, <1>4

LEMMA ScopeStep ==
  ASSUME TypeOK, TypeOK', RequestInv, ScopeOfScanExists, SavedScopesLoad, [Next]_vars
  PROVE  ScopeOfScanExists' /\ SavedScopesLoad'
<1>1. SavedScopesLoad'
  BY ScopeMoves DEF SavedScopesLoad
<1>2. ASSUME NEW s \in Scans, Exists(s)' PROVE Saved(scans[s].scope)' 
  <2>1. scans'[s].scope \in ScopeIds
    BY <1>2 DEF TypeOK
  <2>2. CASE Exists(s) /\ scans'[s].scope = scans[s].scope
    <3>1. s \in Uses(scans[s].scope)
      BY <2>2 DEF Uses
    <3> QED BY <1>2, <2>1, <2>2, <3>1, ScopeMoves DEF ScopeOfScanExists, Saved
  <2>3. CASE Saved(scans'[s].scope) /\ scopes' = scopes
    BY <2>3 DEF Saved
  <2> QED BY <1>2, <2>2, <2>3, ScanMoves DEF ScanMove
<1> QED BY <1>1, <1>2 DEF ScopeOfScanExists
-----------------------------------------------------------------------------
(* The request, the job and the connections *)

LEMMA RequestStep ==
  ASSUME TypeOK, TypeOK', RequestInv, [Next]_vars
  PROVE  RequestInv'
<1> SUFFICES ASSUME req'.pc # "idle" PROVE scans'[req'.scan].status = "none"
  BY DEF RequestInv
<1>1. \/ req' = req
      \/ req.pc # "idle" /\ req'.scan = req.scan
      \/ scans' = scans /\ scans[req'.scan].status = "none"
  <2>1. ASSUME Edit \/ Execute \/ ScanEnds \/ LoopDies \/ Restart PROVE req' = req
    BY <2>1 DEF Edit, CreateScope, UpdateScope, DeleteScopeRead, DeleteScopeCommit, Rebind,
                DeleteScan, Execute, Dispatch, DispatchResolve, DispatchRecords, DispatchValidated,
                DispatchRefused, ScanEnds, LoopDies, Restart, tableVars
  <2>2. ASSUME NEW a \in Tried, NEW p \in Ports, ConnectStep(a, p) PROVE req' = req
    BY <2>2, ConnectKinds, ScanGuardAssumption
  <2>3. ASSUME NEW s \in Scans, NEW i \in ScopeIds, NEW target \in Targets,
               RequestLoad(s, i, target)
        PROVE  scans' = scans /\ scans[req'.scan].status = "none"
    BY <2>3 DEF RequestLoad, tableVars
  <2>4. ASSUME RequestResolve \/ RequestRecords \/ RequestValidated
        PROVE  req.pc # "idle" /\ req'.scan = req.scan
    BY <2>4 DEF RequestResolve, RequestRecords, RequestValidated, TypeOK, RequestRecord
  <2>5. ASSUME RequestRefused \/ RequestInsert PROVE FALSE
    BY <2>5 DEF RequestRefused, RequestInsert, NoReq
  <2> QED BY <2>1, <2>2, <2>3, <2>4, <2>5 DEF Next, Request, vars
<1>2. CASE req' = req \/ (req.pc # "idle" /\ req'.scan = req.scan)
  <2>1. req.scan \in Scans /\ req'.scan = req.scan /\ scans[req.scan].status = "none"
    BY <1>2 DEF TypeOK, RequestInv
  <2> QED BY <2>1, ScanMoves DEF ScanMove
<1> QED BY <1>1, <1>2

\* The profiles a scan was dispatched under are only ever added to.
LEMMA AuthorisedGrows ==
  ASSUME TypeOK, [Next]_vars, NEW s \in Scans
  PROVE  authorised[s] \subseteq authorised'[s]
<1>1. ASSUME NEW u \in Scans, Dispatch(u) PROVE authorised[s] \subseteq authorised'[s]
  BY <1>1 DEF Dispatch, TypeOK
<1>2. ASSUME Edit \/ Request \/ ScanEnds \/ LoopDies \/ Restart
             \/ DispatchResolve \/ DispatchRecords \/ DispatchValidated \/ DispatchRefused
      PROVE  authorised' = authorised
  BY <1>2 DEF Edit, CreateScope, UpdateScope, DeleteScopeRead, DeleteScopeCommit, Rebind,
              DeleteScan, Request, RequestLoad, RequestResolve, RequestRecords, RequestValidated,
              RequestRefused, RequestInsert, DispatchResolve, DispatchRecords, DispatchValidated,
              DispatchRefused, ScanEnds, LoopDies, Restart
<1>3. ASSUME NEW a \in Tried, NEW p \in Ports, ConnectStep(a, p) PROVE authorised' = authorised
  BY <1>3, ConnectKinds, ScanGuardAssumption
<1> QED BY <1>1, <1>2, <1>3 DEF Next, Execute, vars

LEMMA JobUnchanged ==
  ASSUME [Next]_vars, ~ Execute, ~ ScanEnds, ~ LoopDies, ~ Restart
  PROVE  job' = job
<1>1. ASSUME Edit \/ Request PROVE job' = job
  BY <1>1 DEF Edit, CreateScope, UpdateScope, DeleteScopeRead, DeleteScopeCommit, Rebind,
              DeleteScan, Request, RequestLoad, RequestResolve, RequestRecords, RequestValidated,
              RequestRefused, RequestInsert
<1>2. ASSUME NEW a \in Tried, NEW p \in Ports, ConnectStep(a, p) PROVE job' = job
  BY <1>2, ConnectKinds, ScanGuardAssumption
<1> QED BY <1>1, <1>2 DEF Next, vars

LEMMA JobStep ==
  ASSUME TypeOK, TypeOK', RequestInv, ScopeOfScanExists, SavedScopesLoad, JobInv, [Next]_vars
  PROVE  JobInv'
<1> SUFFICES ASSUME job'.pc \notin {"idle", "dead"}
             PROVE  /\ scans'[job'.scan].status # "none"
                    /\ ValidProfile(job'.row) /\ job'.row \in authorised'[job'.scan]
                    /\ job'.pc = "running" =>
                         TargetAdmitted(job'.row, job'.target.kind, job'.cand)
  BY DEF JobInv
<1>1. job'.scan \in Scans
  BY DEF TypeOK
<1>2. CASE job' = job
  BY <1>1, <1>2, ScanMoves, AuthorisedGrows DEF JobInv, ScanMove
<1>3. ASSUME NEW s \in Scans, Dispatch(s)
      PROVE  /\ scans'[job'.scan].status # "none" /\ ValidProfile(job'.row)
             /\ job'.row \in authorised'[job'.scan] /\ job'.pc # "running"
  <2>1. Saved(scans[s].scope) /\ scans[s].scope \in ScopeIds
    BY <1>3 DEF Dispatch, ScopeOfScanExists, TypeOK, Exists
  <2>2. ValidProfile(scopes[scans[s].scope].row)
    BY <2>1 DEF SavedScopesLoad
  <2>3. /\ job'.scan = s /\ job'.row = scopes[scans[s].scope].row /\ job'.pc = "loaded"
        /\ scans[s].status # "none"
    BY <1>3 DEF Dispatch, Idle
  <2>4. job'.row \in authorised'[s]
    BY <1>3, <2>3 DEF Dispatch, TypeOK
  <2>5. scans'[s].status # "none"
    BY <2>3, ScanMoves DEF ScanMove
  <2> QED BY <2>2, <2>3, <2>4, <2>5
<1>4. ASSUME DispatchResolve \/ DispatchValidated
      PROVE  /\ job.pc \notin {"idle", "dead"} /\ job'.scan = job.scan /\ job'.row = job.row
             /\ job'.pc = "running" =>
                  TargetAdmitted(job'.row, job'.target.kind, job'.cand)
  <2>1. CASE DispatchResolve
    BY <2>1 DEF DispatchResolve, TypeOK, JobRecord
  <2>2. CASE DispatchValidated
    <3>1. ~ LoseScan
      BY DEF LoseScan, Idle
    <3> QED BY <2>2, <3>1 DEF DispatchValidated, TypeOK, JobRecord
  <2> QED BY <1>4, <2>1, <2>2
<1>5. ASSUME DispatchRefused \/ ScanEnds \/ LoopDies \/ Restart PROVE FALSE
  BY <1>5 DEF DispatchRefused, ScanEnds, LoopDies, Restart, Finish, LoseScan, Idle
<1>6. CASE DispatchResolve \/ DispatchValidated
  BY <1>1, <1>4, <1>6, ScanMoves, AuthorisedGrows DEF JobInv, ScanMove
<1>7. ASSUME DispatchRecords PROVE job' = job
  BY <1>7 DEF DispatchRecords
<1> QED BY <1>2, <1>3, <1>5, <1>6, <1>7, JobUnchanged DEF Execute

LEMMA ConnUnchanged ==
  ASSUME Edit \/ Request \/ Execute \/ UNCHANGED vars
  PROVE  conn' = conn
BY DEF Edit, CreateScope, UpdateScope, DeleteScopeRead, DeleteScopeCommit, Rebind, DeleteScan,
       Request, RequestLoad, RequestResolve, RequestRecords, RequestValidated, RequestRefused, RequestInsert,
       Execute, Dispatch, DispatchResolve, DispatchRecords, DispatchValidated, DispatchRefused, vars

\* While a scan is dispatched there is no connection.
LEMMA NoneAtDispatch ==
  ASSUME ConnInv, Execute
  PROVE  \A c \in Pairs : conn[c] = "idle"
<1>1. job.pc # "running"
  BY DEF Execute, Dispatch, DispatchResolve, DispatchRecords, DispatchValidated, DispatchRefused
<1> QED BY <1>1 DEF ConnInv

LEMMA ConnStep ==
  ASSUME TypeOK, ConnInv, [Next]_vars
  PROVE  ConnInv'
<1> SUFFICES ASSUME NEW c \in Pairs, conn'[c] # "idle"
             PROVE  job'.pc = "running" /\ c[1] \in job'.cand /\ Admits(job'.row, c[1])
  BY DEF ConnInv, Pairs, Admits, IsAlwaysDenied, ContainsAddress
<1>1. CASE Edit \/ Request \/ UNCHANGED vars
  <2>1. job' = job
    BY <1>1 DEF Edit, CreateScope, UpdateScope, DeleteScopeRead, DeleteScopeCommit, Rebind,
                DeleteScan, Request, RequestLoad, RequestResolve, RequestRecords, RequestValidated,
                RequestRefused, RequestInsert, vars
  <2> QED BY <1>1, <2>1, ConnUnchanged DEF ConnInv
<1>2. CASE Execute
  BY <1>2, ConnUnchanged, NoneAtDispatch
<1>3. CASE ScanEnds \/ LoopDies \/ Restart
  BY <1>3 DEF ScanEnds, LoopDies, Restart, Settled
<1>4. ASSUME NEW a \in Tried, NEW p \in Ports, ConnectStep(a, p)
      PROVE  job.pc = "running" /\ c[1] \in job.cand /\ Admits(job.row, c[1]) /\ job' = job
  <2>1. a \in Addresses
    BY ScanGuardAssumption
  <2>2. CASE conn'[c] = conn[c]
    BY <1>4, <2>1, <2>2, ConnectKinds DEF ConnInv
  <2>3. CASE conn'[c] # conn[c]
    <3>1. c = <<a, p>> /\ (conn[c] # "idle" \/ (job.pc = "running" /\ MayConnect(a)))
      <4>1. DOMAIN conn = Pairs
        BY DEF TypeOK
      <4> QED
        BY <1>4, <2>1, <2>3, <4>1, ConnectKinds
    <3> QED BY <1>4, <2>1, <3>1, ConnectKinds DEF ConnInv, MayConnect, Covers
  <2> QED BY <2>2, <2>3
<1> QED BY <1>1, <1>2, <1>3, <1>4 DEF Next

-----------------------------------------------------------------------------
(* The ledger *)

\* Rows leave the ledger only with their scan.
LEMMA LedgerKept ==
  ASSUME [Next]_vars, NEW e \in ledger
  PROVE  e \in ledger' \/ DeleteScan(e.scan)
<1>1. ASSUME Edit PROVE e \in ledger' \/ DeleteScan(e.scan)
  <2>1. ASSUME NEW s \in Scans, DeleteScan(s) PROVE e \in ledger' \/ s = e.scan
    BY <2>1 DEF DeleteScan
  <2> QED BY <1>1, <2>1 DEF Edit, CreateScope, UpdateScope, DeleteScopeRead, DeleteScopeCommit,
                            Rebind, tableVars
<1>2. ASSUME Request \/ Execute \/ ScanEnds \/ LoopDies \/ Restart PROVE e \in ledger'
  BY <1>2 DEF Request, RequestLoad, RequestResolve, RequestRecords, RequestValidated, RequestRefused,
              RequestInsert, Execute, Dispatch, DispatchResolve, DispatchRecords, DispatchValidated,
              DispatchRefused, ScanEnds, LoopDies, Restart, LoseScan, tableVars
<1>3. ASSUME NEW a \in Tried, NEW p \in Ports, ConnectStep(a, p) PROVE e \in ledger'
  BY <1>3, ConnectKinds, ScanGuardAssumption
<1> QED BY <1>1, <1>2, <1>3 DEF Next, vars, tableVars

LEMMA HeldStep ==
  ASSUME TypeOK, JobInv, RequestInv, ConnInv, HeldIsRecorded, [Next]_vars
  PROVE  HeldIsRecorded'
<1> SUFFICES ASSUME NEW c \in Pairs, conn'[c] = "held", Exists(job.scan)'
             PROVE  Entry(job'.scan, {c[1]}, c[2], "connected") \in ledger'
  BY DEF HeldIsRecorded, Entry, Pairs
<1>1. ASSUME conn[c] = "held", job' = job
      PROVE  Entry(job'.scan, {c[1]}, c[2], "connected") \in ledger'
  <2>1. job.scan \in Scans /\ scans[job.scan].status # "none"
    BY <1>1 DEF ConnInv, JobInv, TypeOK
  <2>2. Exists(job.scan)
    BY <1>1, <2>1, ScanMoves DEF ScanMove, Exists
  <2>3. Entry(job.scan, {c[1]}, c[2], "connected") \in ledger
    BY <1>1, <2>2 DEF HeldIsRecorded
  <2>4. ~ DeleteScan(job.scan)
    BY <1>1, <2>1 DEF DeleteScan, Exists, TypeOK, ScanRow
  <2> QED BY <1>1, <2>3, <2>4, LedgerKept DEF Entry
<1>2. CASE Edit \/ Request \/ UNCHANGED vars
  <2>1. job' = job
    BY <1>2 DEF Edit, CreateScope, UpdateScope, DeleteScopeRead, DeleteScopeCommit, Rebind,
                DeleteScan, Request, RequestLoad, RequestResolve, RequestRecords, RequestValidated,
                RequestRefused, RequestInsert, vars
  <2> QED BY <1>1, <1>2, <2>1, ConnUnchanged
<1>3. CASE Execute
  BY <1>3, ConnUnchanged, NoneAtDispatch
<1>4. CASE ScanEnds \/ LoopDies \/ Restart
  BY <1>4 DEF ScanEnds, LoopDies, Restart, Settled
<1>5. ASSUME NEW a \in Tried, NEW p \in Ports, ConnectStep(a, p)
      PROVE  Entry(job'.scan, {c[1]}, c[2], "connected") \in ledger'
  <2>1. a \in Addresses
    BY ScanGuardAssumption
  <2>2. job' = job
    BY <1>5, <2>1, ConnectKinds
  <2>3. CASE conn'[c] = conn[c]
    BY <1>1, <2>2, <2>3
  <2>4. CASE conn'[c] # conn[c]
    <3>1. c = <<a, p>> /\ Entry(job.scan, {a}, p, "connected") \in ledger'
      <4>1. DOMAIN conn = Pairs
        BY DEF TypeOK
      <4>2. PICK st : /\ conn' = [conn EXCEPT ![<<a, p>>] = st]
                      /\ st = "held" => Entry(job.scan, {a}, p, "connected") \in ledger'
        BY <1>5, <2>1, <2>4, ConnectKinds
      <4>3. c = <<a, p>> /\ st = "held"
        BY <2>4, <4>1, <4>2
      <4> QED
        BY <4>2, <4>3
    <3> QED BY <2>2, <3>1
  <2> QED BY <2>3, <2>4
<1> QED BY <1>2, <1>3, <1>4, <1>5 DEF Next

\* A row that is allowed by a profile the scan was dispatched under.
Backed(e) ==
  \A a \in e.dest : ~ IsAlwaysDenied(a)
                    /\ \E row \in authorised[e.scan] : ContainsAddress(row, a)

LEMMA AllowedStep ==
  ASSUME TypeOK, TypeOK', JobInv, ConnInv, AllowedWasAuthorised, [Next]_vars
  PROVE  AllowedWasAuthorised'
<1> SUFFICES ASSUME NEW e \in ledger', e.scan # NoScan, e.outcome # "rejected"
             PROVE  \A a \in e.dest : ~ IsAlwaysDenied(a)
                      /\ \E row \in authorised'[e.scan] : ContainsAddress(row, a)
  BY DEF AllowedWasAuthorised, IsAlwaysDenied, ContainsAddress
<1>1. e.scan \in Scans
  BY DEF TypeOK, LedgerRow
<1>2. SUFFICES Backed(e)
  BY <1>1, AuthorisedGrows DEF Backed
<1>3. CASE e \in ledger
  BY <1>3 DEF AllowedWasAuthorised, Backed
<1>4. CASE e \notin ledger
  <2>1. ASSUME Edit \/ UNCHANGED vars PROVE FALSE
    BY <1>4, <2>1 DEF Edit, CreateScope, UpdateScope, DeleteScopeRead, DeleteScopeCommit, Rebind,
                      DeleteScan, vars, tableVars
  <2>2. ASSUME Request PROVE FALSE
    <3>1. ASSUME NEW d, NEW o, e = Entry(NoScan, d, NoPort, o) PROVE FALSE
      BY <3>1 DEF Entry
    <3>2. ASSUME RequestRecords PROVE FALSE
      BY <1>4, <3>1, <3>2 DEF RequestRecords, ValidatedEntries
    <3>3. ASSUME RequestRefused PROVE FALSE
      <4>1. PICK new \in DenyEntries(NoScan, req.row, req.target.kind, req.cand) :
              ledger' = ledger \cup new
        BY <3>3 DEF RequestRefused
      <4>2. e \in new
        BY <1>4, <4>1
      <4> QED BY <3>1, <4>1, <4>2 DEF DenyEntries
    <3> QED BY <1>4, <2>2, <3>2, <3>3 DEF Request, RequestLoad, RequestResolve, RequestValidated, RequestInsert, tableVars
  <2>3. ASSUME Execute PROVE Backed(e)
    <3>1. ASSUME DispatchRefused PROVE FALSE
      <4>1. ~ LoseScan
        BY <1>4 DEF LoseScan
      <4>2. PICK new \in DenyEntries(job.scan, job.row, job.target.kind, job.cand) :
              ledger' = ledger \cup new
        BY <3>1, <4>1 DEF DispatchRefused
      <4>3. e \in new
        BY <1>4, <4>2
      <4> QED BY <4>2, <4>3 DEF DenyEntries, Entry
    <3>2. ASSUME DispatchRecords PROVE Backed(e)
      <4>1. /\ job.pc = "resolved" /\ TargetAdmitted(job.row, job.target.kind, job.cand)
            /\ e \in ValidatedEntries(job.scan, job.target.kind, job.cand)
        BY <1>4, <3>2 DEF DispatchRecords
      <4>2. e.scan = job.scan /\ e.dest \subseteq job.cand
        BY <4>1 DEF ValidatedEntries, Destinations, Entry
      <4>3. job.row \in Row /\ ValidProfile(job.row) /\ job.row \in authorised[job.scan]
        BY <4>1 DEF JobInv, TypeOK, JobRecord
      <4>4. \A a \in job.cand : Admits(job.row, a)
        BY <4>1, <4>3, TargetSafe
      <4> QED BY <4>2, <4>3, <4>4 DEF Backed, Admits
    <3>3. ASSUME DispatchValidated PROVE FALSE
      BY <1>4, <3>3 DEF DispatchValidated, LoseScan
    <3> QED BY <1>4, <2>3, <3>1, <3>2, <3>3 DEF Execute, Dispatch, DispatchResolve, tableVars
  <2>4. ASSUME ScanEnds \/ LoopDies \/ Restart PROVE FALSE
    BY <1>4, <2>4 DEF ScanEnds, LoopDies, Restart, LoseScan, tableVars
  <2>5. ASSUME NEW a \in Tried, NEW p \in Ports, ConnectStep(a, p) PROVE Backed(e)
    <3>1. a \in Addresses /\ <<a, p>> \in Pairs
      BY ScanGuardAssumption DEF Pairs
    <3>2. PICK o \in {"rejected", "connected", "connect_failed"} :
            /\ ledger' = ledger \cup {Entry(job.scan, {a}, p, o)}
            /\ o # "rejected" => conn[<<a, p>>] # "idle"
      BY <1>4, <2>5, <3>1, ConnectKinds
    <3>3. e = Entry(job.scan, {a}, p, o)
      BY <1>4, <3>2
    <3>4. e.scan = job.scan /\ e.dest = {a} /\ e.outcome = o
      BY <3>3 DEF Entry
    <3>5. job.pc = "running" /\ Admits(job.row, a)
      BY <3>1, <3>2, <3>4 DEF ConnInv
    <3>6. job.row \in authorised[job.scan]
      BY <3>5 DEF JobInv
    <3> QED BY <3>4, <3>5, <3>6 DEF Backed, Admits
  <2> QED BY <2>1, <2>2, <2>3, <2>4, <2>5 DEF Next
<1> QED BY <1>3, <1>4

-----------------------------------------------------------------------------
(* Theorems *)

LEMMA InitGuard == Init => GuardInv
<1> SUFFICES ASSUME Init PROVE GuardInv
  OBVIOUS
<1>1. TypeOK
  BY InitType
<1>2. /\ \A s \in Scans : ~ Exists(s)
      /\ \A i \in ScopeIds : ~ Saved(i)
  BY DEF Init, Exists, Saved
<1>3. job.pc = "idle" /\ req.pc = "idle" /\ ledger = {} /\ \A c \in Pairs : conn[c] = "idle"
  BY DEF Init, Idle, NoReq
<1> QED BY <1>1, <1>2, <1>3 DEF GuardInv, ScopeOfScanExists, SavedScopesLoad, JobInv, RequestInv,
                                ConnInv, AllowedWasAuthorised, HeldIsRecorded

\* The inductive invariant: profiles, the request, the job, the connections and
\* the ledger agree after every step.
THEOREM GuardInvHolds == Spec => []GuardInv
<1>1. GuardInv /\ [Next]_vars => GuardInv'
  <2> SUFFICES ASSUME GuardInv, [Next]_vars PROVE GuardInv'
    OBVIOUS
  <2> USE DEF GuardInv
  <2>1. TypeOK'
    BY TypeStep
  <2>2. ScopeOfScanExists' /\ SavedScopesLoad'
    BY <2>1, ScopeStep
  <2>3. RequestInv' /\ JobInv'
    BY <2>1, RequestStep, JobStep
  <2>4. ConnInv' /\ HeldIsRecorded'
    BY ConnStep, HeldStep
  <2>5. AllowedWasAuthorised'
    BY <2>1, AllowedStep
  <2> QED BY <2>1, <2>2, <2>3, <2>4, <2>5
<1> QED BY <1>1, InitGuard, PTL DEF Spec

\* Requests, the job, the tables and the connections stay within their types.
THEOREM GuardTypeCorrect == Spec => []TypeOK
<1>1. GuardInv => TypeOK
  BY DEF GuardInv
<1> QED BY <1>1, GuardInvHolds, PTL

\* A profile that a scan refers to is never deleted, whatever requests and
\* deletions overlap (delete_scope, create_scan).
THEOREM ScopesOutliveScans == Spec => []ScopeOfScanExists
<1>1. GuardInv => ScopeOfScanExists
  BY DEF GuardInv
<1> QED BY <1>1, GuardInvHolds, PTL

\* The decision taken for a whole target agrees with the decision that connect
\* takes for each address (validate_target, connect).
THEOREM ValidationAgrees == Spec => []ValidatedMeansAdmitted
<1>1. GuardInv => ValidatedMeansAdmitted
  <2> SUFFICES ASSUME GuardInv, job.pc = "running", NEW a \in job.cand PROVE Admits(job.row, a)
    BY DEF ValidatedMeansAdmitted
  <2>1. job.row \in Row /\ ValidProfile(job.row) /\ TargetAdmitted(job.row, job.target.kind, job.cand)
    BY DEF GuardInv, TypeOK, JobRecord, JobInv
  <2> QED BY <2>1, TargetSafe
<1> QED BY <1>1, GuardInvHolds, PTL

\* What the ledger allows was inside a profile the scan was dispatched under,
\* and never an address that is always denied.
THEOREM LedgerIsAuthorised == Spec => []AllowedWasAuthorised
<1>1. GuardInv => AllowedWasAuthorised
  BY DEF GuardInv
<1> QED BY <1>1, GuardInvHolds, PTL

\* Every socket goes to an address that the dispatched profile admits.
THEOREM NoSocketOutOfScope == Spec => []SocketsAuthorised
<1>1. GuardInv => SocketsAuthorised
  <2> SUFFICES ASSUME GuardInv, NEW c \in Pairs, conn[c] # "idle"
               PROVE  /\ job.pc = "running" /\ c[1] \in job.cand /\ ~ IsAlwaysDenied(c[1])
                      /\ \E row \in authorised[job.scan] : ContainsAddress(row, c[1])
    BY DEF SocketsAuthorised
  <2>1. job.pc = "running" /\ c[1] \in job.cand /\ Admits(job.row, c[1])
    BY DEF GuardInv, ConnInv
  <2>2. job.row \in authorised[job.scan]
    BY <2>1 DEF GuardInv, JobInv
  <2> QED BY <2>1, <2>2 DEF Admits
<1> QED BY <1>1, GuardInvHolds, PTL

\* A socket that a module holds is in the ledger (ScanGuard.connect).
THEOREM HeldSocketsAreRecorded == Spec => []HeldIsRecorded
<1>1. GuardInv => HeldIsRecorded
  BY DEF GuardInv
<1> QED BY <1>1, GuardInvHolds, PTL
=============================================================================
