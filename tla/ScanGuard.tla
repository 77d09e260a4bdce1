------------------------------ MODULE ScanGuard ------------------------------
(***************************************************************************)
(* The way of a target from the request to the socket: scope profiles that *)
(* are edited and deleted at any time, create_scan, the dispatch of a scan *)
(* by execute_scan, and ScanGuard.connect with the audit ledger.  A name   *)
(* is resolved twice and may answer differently each time.                 *)
(*                                                                         *)
(* Every await that leaves the event loop is a step of its own.  The queue *)
(* itself is ScanRunner, the slots of the governor are IntensityGovernor.  *)
(* Ledger rows form a set: a second row that says the same adds nothing.   *)
(***************************************************************************)
EXTENDS ScopeRules

CONSTANTS
  ScopeIds, Scans, Hosts, Ports,
  Payloads,     \* bodies of the scope requests
  Targets,      \* target strings of the scan requests
  Tried,        \* addresses that modules ask for, in the target or not
  Answers,      \* what the resolver may answer; {} is a failure
  MaxChanges,   \* bound on the edits of profiles and names, and on restarts
  NoScope, NoScan, NoPort

Kind == {"ip", "cidr", "host"}
Row == [entries : SUBSET SUBSET Addresses, optins : SUBSET OptIns]

ASSUME ScanGuardAssumption ==
  /\ Payloads \subseteq Row
  /\ Targets \subseteq [kind : Kind, of : (SUBSET Addresses) \cup Hosts]
  /\ \A t \in Targets : t.kind = "host" <=> t.of \in Hosts
  /\ Answers \subseteq SUBSET Addresses /\ {} \in Answers
  /\ Tried \subseteq Addresses
  /\ MaxChanges \in Nat
  /\ NoScope \notin ScopeIds /\ NoScan \notin Scans /\ NoPort \notin Ports

VARIABLES
  scopes,      \* scope_profiles
  dns,         \* the answer of the resolver for each name
  changes,     \* edits and restarts so far
  req,         \* the create_scan in progress
  del,         \* the scope a delete_scope has found unused
  scans,       \* scans: status, scope_id, target_input; a refused request has none
  ledger,      \* scan_ledger
  job,         \* execute_scan: its scan, its profile and its validated target
  conn,        \* the connect to each address and port
  authorised   \* history: the profiles each scan was ever dispatched under

tableVars == <<scopes, scans, ledger>>
vars == <<tableVars, dns, changes, req, del, job, conn, authorised>>

Saved(i) == scopes[i].state = "saved"
Exists(s) == s \in Scans /\ scans[s].status \in {"queued", "running", "over"}
Pairs == Tried \X Ports

\* Not created yet, or deleted.
NoRow == [entries |-> {}, optins |-> {}]
NoTarget == [kind |-> "ip", of |-> {}]
Idle(p) == [pc |-> p, scan |-> NoScan, row |-> NoRow, target |-> NoTarget, cand |-> {}]
NoReq == [pc |-> "idle", scan |-> NoScan, scope |-> NoScope, row |-> NoRow,
          target |-> NoTarget, cand |-> {}]

\* Mutant: the decision is written where the outcome belongs.
Entry_Decision(s, dest, port, outcome) ==
  [scan |-> s, dest |-> dest, port |-> port,
   outcome |-> IF outcome = "rejected" THEN "denied" ELSE "allowed"]

Entry(s, dest, port, outcome) ==
  [scan |-> s, dest |-> dest, port |-> port, outcome |-> outcome]

Init ==
  /\ scopes = [i \in ScopeIds |-> [state |-> "unused", row |-> NoRow]]
  /\ dns \in [Hosts -> Answers]
  /\ changes = 0
  /\ req = NoReq
  /\ del = NoScope
  /\ scans = [s \in Scans |-> [status |-> "none", scope |-> NoScope, target |-> NoTarget]]
  /\ ledger = {}
  /\ job = Idle("idle")
  /\ conn = [c \in Pairs |-> "idle"]
  /\ authorised = [s \in Scans |-> {}]

-----------------------------------------------------------------------------
(* Scope profiles.  Their names are left out: a name that is taken is a     *)
(* refusal, by the SELECT or by the UNIQUE key, that changes nothing.       *)

CreateScope(i, row) ==
  /\ scopes[i].state = "unused"
  /\ ValidProfile(row)
  /\ scopes' = [scopes EXCEPT ![i] = [state |-> "saved", row |-> row]]
  /\ UNCHANGED <<scans, ledger, dns, changes, req, del, job, conn, authorised>>

\* An update does not ask which scans use the profile.
UpdateScope(i, row) ==
  /\ Saved(i)
  /\ changes < MaxChanges
  /\ ValidProfile(row)
  /\ changes' = changes + 1
  /\ scopes' = [scopes EXCEPT ![i] = [state |-> "saved", row |-> row]]
  /\ UNCHANGED <<scans, ledger, dns, req, del, job, conn, authorised>>

Uses(i) == {s \in Scans : Exists(s) /\ scans[s].scope = i}

DeleteScopeRead(i) ==
  /\ del = NoScope
  /\ Saved(i) /\ Uses(i) = {}
  /\ del' = i
  /\ UNCHANGED <<tableVars, dns, changes, req, job, conn, authorised>>

\* Mutant: no foreign key looks again when the row is deleted.
DeleteScopeCommit_NoForeignKey ==
  /\ del # NoScope
  /\ del' = NoScope
  /\ scopes' = [scopes EXCEPT ![del].state = "gone"]
  /\ UNCHANGED <<scans, ledger, dns, changes, req, job, conn, authorised>>

\* A scan stored since the read makes the DELETE fail (scope_id is NOT NULL
\* and RESTRICT).
DeleteScopeCommit ==
  /\ del # NoScope
  /\ del' = NoScope
  /\ scopes' = IF Uses(del) = {} THEN [scopes EXCEPT ![del].state = "gone"] ELSE scopes
  /\ UNCHANGED <<scans, ledger, dns, changes, req, job, conn, authorised>>

\* Somebody changes what a name resolves to.
Rebind(h, answer) ==
  /\ changes < MaxChanges
  /\ dns[h] # answer
  /\ changes' = changes + 1
  /\ dns' = [dns EXCEPT ![h] = answer]
  /\ UNCHANGED <<tableVars, req, del, job, conn, authorised>>

-----------------------------------------------------------------------------
(* Validation of a target, for create_scan and for execute_scan            *)

\* _classify: a name is looked up, everything else stands for itself.
Classify(target) == IF target.kind = "host" THEN dns[target.of] ELSE target.of

\* What validate_target leaves in the ledger: one row per address, or one for
\* the network; when it refuses, the row of the address it stopped at.  A name
\* that does not resolve leaves none.
Destinations(kind, cand) == IF kind = "cidr" THEN {cand} ELSE {{a} : a \in cand}
ValidatedEntries(s, kind, cand) ==
  {Entry(s, d, NoPort, "validated") : d \in Destinations(kind, cand)}
RefusedAt(row, kind, cand) ==
  IF kind = "cidr" THEN {cand} ELSE {{a} : a \in {b \in cand : ~ Admits(row, b)}}
DenyEntries(s, row, kind, cand) ==
  IF cand = {} THEN {{}} ELSE {{Entry(s, d, NoPort, "rejected")} : d \in RefusedAt(row, kind, cand)}

\* create_scan reads the profile ...
RequestLoad(s, i, target) ==
  /\ req.pc = "idle"
  /\ scans[s].status = "none"
  /\ Saved(i) /\ ValidProfile(scopes[i].row)
  /\ req' = [pc |-> "loaded", scan |-> s, scope |-> i, row |-> scopes[i].row,
             target |-> target, cand |-> {}]
  /\ UNCHANGED <<tableVars, dns, changes, del, job, conn, authorised>>

RequestResolve ==
  /\ req.pc = "loaded"
  /\ req' = [req EXCEPT !.pc = "resolved", !.cand = Classify(req.target)]
  /\ UNCHANGED <<tableVars, dns, changes, del, job, conn, authorised>>

\* ... validates the target with it: every row is committed before the next ...
RequestRecords ==
  /\ req.pc = "resolved"
  /\ TargetAdmitted(req.row, req.target.kind, req.cand)
  /\ \E e \in ValidatedEntries(NoScan, req.target.kind, req.cand) \ ledger :
       ledger' = ledger \cup {e}
  /\ UNCHANGED <<scopes, scans, dns, changes, req, del, job, conn, authorised>>

RequestValidated ==
  /\ req.pc = "resolved"
  /\ TargetAdmitted(req.row, req.target.kind, req.cand)
  /\ ValidatedEntries(NoScan, req.target.kind, req.cand) \subseteq ledger
  /\ req' = [req EXCEPT !.pc = "valid"]
  /\ UNCHANGED <<tableVars, dns, changes, del, job, conn, authorised>>

RequestRefused ==
  /\ req.pc = "resolved"
  /\ ~ TargetAdmitted(req.row, req.target.kind, req.cand)
  /\ \E new \in DenyEntries(NoScan, req.row, req.target.kind, req.cand) : ledger' = ledger \cup new
  /\ scans' = [scans EXCEPT ![req.scan].status = "refused"]
  /\ req' = NoReq
  /\ UNCHANGED <<scopes, dns, changes, del, job, conn, authorised>>

\* ... and inserts the scan.  The profile may be another one by now, or gone:
\* then the foreign key makes the request fail.
RequestInsert ==
  /\ req.pc = "valid"
  /\ scans' = [scans EXCEPT ![req.scan] =
                 IF Saved(req.scope)
                 THEN [status |-> "queued", scope |-> req.scope, target |-> req.target]
                 ELSE [@ EXCEPT !.status = "refused"]]
  /\ req' = NoReq
  /\ UNCHANGED <<scopes, ledger, dns, changes, del, job, conn, authorised>>

\* delete_scan takes the scan's ledger rows along; what the request left
\* before there was a scan stays.
DeleteScan(s) ==
  /\ Exists(s)
  /\ scans' = [scans EXCEPT ![s].status = "deleted"]
  /\ ledger' = {e \in ledger : e.scan # s}
  /\ UNCHANGED <<scopes, dns, changes, req, del, job, conn, authorised>>

-----------------------------------------------------------------------------
(* execute_scan *)

\* Mutant: the guard is built from the candidates the request stored.
Dispatch_Trusting(s) ==
  /\ job.pc = "idle"
  /\ scans[s].status = "queued"
  /\ job' = [Idle("running") EXCEPT !.scan = s, !.target = scans[s].target,
               !.row = [entries |-> {Classify(scans[s].target)}, optins |-> {}],
               !.cand = Classify(scans[s].target)]
  /\ scans' = [scans EXCEPT ![s].status = "running"]
  /\ authorised' = [authorised EXCEPT ![s] = @ \cup {scopes[scans[s].scope].row}]
  /\ UNCHANGED <<scopes, ledger, dns, changes, req, del, conn>>

\* The claimed scan is loaded with the profile as it is now.
Dispatch(s) ==
  /\ job.pc = "idle"
  /\ scans[s].status = "queued"
  /\ job' = [Idle("loaded") EXCEPT !.scan = s, !.target = scans[s].target,
                                   !.row = scopes[scans[s].scope].row]
  /\ scans' = [scans EXCEPT ![s].status = "running"]
  /\ authorised' = [authorised EXCEPT ![s] = @ \cup {scopes[scans[s].scope].row}]
  /\ UNCHANGED <<scopes, ledger, dns, changes, req, del, conn>>

DispatchResolve ==
  /\ job.pc = "loaded"
  /\ job' = [job EXCEPT !.pc = "resolved", !.cand = Classify(job.target)]
  /\ UNCHANGED <<tableVars, dns, changes, req, del, conn, authorised>>

\* The scan is gone: the next row that refers to it (ledger, event) violates
\* its foreign key, and the error ends the loop task.
LoseScan ==
  /\ ~ Exists(job.scan)
  /\ job' = Idle("dead")
  /\ UNCHANGED <<scans, ledger>>

Finish == scans' = [scans EXCEPT ![job.scan].status = "over"] /\ job' = Idle("idle")

DispatchRecords ==
  /\ job.pc = "resolved"
  /\ TargetAdmitted(job.row, job.target.kind, job.cand)
  /\ Exists(job.scan)
  /\ \E e \in ValidatedEntries(job.scan, job.target.kind, job.cand) \ ledger :
       ledger' = ledger \cup {e}
  /\ UNCHANGED <<scopes, scans, dns, changes, req, del, job, conn, authorised>>

DispatchValidated ==
  /\ job.pc = "resolved"
  /\ TargetAdmitted(job.row, job.target.kind, job.cand)
  /\ \/ /\ Exists(job.scan)
        /\ ValidatedEntries(job.scan, job.target.kind, job.cand) \subseteq ledger
        /\ job' = [job EXCEPT !.pc = "running"]
        /\ UNCHANGED <<scans, ledger>>
     \/ LoseScan
  /\ UNCHANGED <<scopes, dns, changes, req, del, conn, authorised>>

DispatchRefused ==
  /\ job.pc = "resolved"
  /\ ~ TargetAdmitted(job.row, job.target.kind, job.cand)
  /\ \/ /\ Exists(job.scan)
        /\ \E new \in DenyEntries(job.scan, job.row, job.target.kind, job.cand) :
             ledger' = ledger \cup new
        /\ Finish
     \/ LoseScan
  /\ UNCHANGED <<scopes, dns, changes, req, del, conn, authorised>>

\* Nobody is at work on a connection; a dropped socket is in nobody's way.
Free(c) == conn[c] \in {"idle", "dropped"}

\* The modules are through; gather has waited for every probe.
Quiet == \A c \in Pairs : Free(c)
Settled == [c \in Pairs |-> "idle"]

ScanEnds ==
  /\ job.pc = "running" /\ Quiet
  /\ (Exists(job.scan) /\ Finish /\ UNCHANGED ledger) \/ LoseScan
  /\ conn' = Settled
  /\ UNCHANGED <<scopes, dns, changes, req, del, authorised>>

\* A module raises what execute_scan does not catch: the loop task ends.
LoopDies ==
  /\ job.pc = "running" /\ Quiet
  /\ job' = Idle("dead")
  /\ conn' = Settled
  /\ UNCHANGED <<tableVars, dns, changes, req, del, authorised>>

\* The process goes away, with its sockets, and another one recovers the scan.
Restart ==
  /\ job.pc # "idle"
  /\ changes < MaxChanges
  /\ changes' = changes + 1
  /\ scans' = [s \in Scans |-> IF scans[s].status = "running"
                               THEN [scans[s] EXCEPT !.status = "queued"] ELSE scans[s]]
  /\ job' = Idle("idle")
  /\ conn' = Settled
  /\ UNCHANGED <<scopes, ledger, dns, req, del, authorised>>

-----------------------------------------------------------------------------
(* connect and open_stream, for one address and port of the running scan    *)

Covers(a) == a \in job.cand

\* Mutant: connect trusts the validation of the target, and forgets to look
\* whether the target has the address.
MayConnect_Trusting(a) == a \in Addresses

\* The destination is checked again.
MayConnect(a) == Covers(a) /\ Admits(job.row, a)

ConnectDenied(a, p) ==
  /\ job.pc = "running" /\ Free(<<a, p>>)
  /\ ~ MayConnect(a)
  /\ ledger' = IF Exists(job.scan)
               THEN ledger \cup {Entry(job.scan, {a}, p, "rejected")} ELSE ledger
  /\ UNCHANGED <<scopes, scans, dns, changes, req, del, job, conn, authorised>>

\* The caller waits for a slot of the governor: a backoff, a token and two
\* semaphores.
ConnectAdmitted(a, p) ==
  /\ job.pc = "running" /\ Free(<<a, p>>)
  /\ MayConnect(a)
  /\ conn' = [conn EXCEPT ![<<a, p>>] = "waiting"]
  /\ UNCHANGED <<tableVars, dns, changes, req, del, job, authorised>>

\* The slot is entered and sock_connect awaited.
ConnectBegins(a, p) ==
  /\ conn[<<a, p>>] = "waiting"
  /\ conn' = [conn EXCEPT ![<<a, p>>] = "connecting"]
  /\ UNCHANGED <<tableVars, dns, changes, req, del, job, authorised>>

\* The caller is cancelled while it waits: no socket, and no row.
ConnectAbandoned(a, p) ==
  /\ conn[<<a, p>>] = "waiting"
  /\ conn' = [conn EXCEPT ![<<a, p>>] = "idle"]
  /\ UNCHANGED <<tableVars, dns, changes, req, del, job, authorised>>

\* The handshake ends: established, or refused, or (timeout, unreachable,
\* cancelled) without an answer.  A socket that failed is closed.
Failed == {"refused", "silent"}
ConnectAnswered(a, p) ==
  /\ conn[<<a, p>>] = "connecting"
  /\ \E r \in Failed \cup {"opened"} : conn' = [conn EXCEPT ![<<a, p>>] = r]
  /\ UNCHANGED <<tableVars, dns, changes, req, del, job, authorised>>

\* Mutant: the socket is returned first and recorded by the caller.
RecordOpened_Later(a, p) ==
  /\ conn[<<a, p>>] = "opened"
  /\ conn' = [conn EXCEPT ![<<a, p>>] = "held"]
  /\ UNCHANGED <<tableVars, dns, changes, req, del, job, authorised>>

\* The row is committed, then the caller gets the socket.
RecordOpened(a, p) ==
  /\ conn[<<a, p>>] = "opened"
  /\ Exists(job.scan)
  /\ ledger' = ledger \cup {Entry(job.scan, {a}, p, "connected")}
  /\ conn' = [conn EXCEPT ![<<a, p>>] = "held"]
  /\ UNCHANGED <<scopes, scans, dns, changes, req, del, job, authorised>>

\* The write fails, or the probe is cancelled before or after the commit: no
\* one closes the socket, it stays open until it is collected.
RecordInterrupted(a, p) ==
  /\ conn[<<a, p>>] = "opened"
  /\ \/ UNCHANGED ledger
     \/ Exists(job.scan) /\ ledger' = ledger \cup {Entry(job.scan, {a}, p, "connected")}
  /\ conn' = [conn EXCEPT ![<<a, p>>] = "dropped"]
  /\ UNCHANGED <<scopes, scans, dns, changes, req, del, job, authorised>>

\* A failed attempt is recorded as well ...
RecordFailed(a, p) ==
  /\ conn[<<a, p>>] \in Failed
  /\ Exists(job.scan)
  /\ ledger' = ledger \cup {Entry(job.scan, {a}, p, "connect_failed")}
  /\ conn' = [conn EXCEPT ![<<a, p>>] = "idle"]
  /\ UNCHANGED <<scopes, scans, dns, changes, req, del, job, authorised>>

\* ... unless that write fails too.
RecordLost(a, p) ==
  /\ conn[<<a, p>>] \in Failed
  /\ conn' = [conn EXCEPT ![<<a, p>>] = "idle"]
  /\ UNCHANGED <<tableVars, dns, changes, req, del, job, authorised>>

\* The caller closes the socket or the stream, or the TLS handshake of
\* open_stream fails, which closes it too.
Close(a, p) ==
  /\ conn[<<a, p>>] = "held"
  /\ conn' = [conn EXCEPT ![<<a, p>>] = "idle"]
  /\ UNCHANGED <<tableVars, dns, changes, req, del, job, authorised>>

ConnectStep(a, p) ==
  \/ ConnectDenied(a, p) \/ ConnectAdmitted(a, p) \/ ConnectBegins(a, p)
  \/ ConnectAbandoned(a, p) \/ ConnectAnswered(a, p)
  \/ RecordOpened(a, p) \/ RecordInterrupted(a, p) \/ RecordFailed(a, p)
  \/ RecordLost(a, p) \/ Close(a, p)

-----------------------------------------------------------------------------
Edit ==
  \/ \E i \in ScopeIds :
       \/ \E row \in Payloads : CreateScope(i, row) \/ UpdateScope(i, row)
       \/ DeleteScopeRead(i)
  \/ DeleteScopeCommit
  \/ \E h \in Hosts, answer \in Answers : Rebind(h, answer)
  \/ \E s \in Scans : DeleteScan(s)

Request ==
  \/ \E s \in Scans, i \in ScopeIds, target \in Targets : RequestLoad(s, i, target)
  \/ RequestResolve \/ RequestRecords \/ RequestValidated \/ RequestRefused \/ RequestInsert

Execute ==
  \/ \E s \in Scans : Dispatch(s)
  \/ DispatchResolve \/ DispatchRecords \/ DispatchValidated \/ DispatchRefused

Next ==
  \/ Edit \/ Request \/ Execute \/ ScanEnds \/ LoopDies \/ Restart
  \/ \E a \in Tried, p \in Ports : ConnectStep(a, p)

Spec == Init /\ [][Next]_vars

-----------------------------------------------------------------------------
(* Properties *)

RequestRecord ==
  [pc : {"idle", "loaded", "resolved", "valid"}, scan : Scans \cup {NoScan},
   scope : ScopeIds \cup {NoScope}, row : Row, target : Targets \cup {NoTarget},
   cand : SUBSET Addresses]

JobRecord ==
  [pc : {"idle", "loaded", "resolved", "running", "dead"}, scan : Scans \cup {NoScan},
   row : Row, target : Targets \cup {NoTarget}, cand : SUBSET Addresses]

ScanRow ==
  [status : {"none", "refused", "queued", "running", "over", "deleted"},
   scope : ScopeIds \cup {NoScope}, target : Targets \cup {NoTarget}]

LedgerRow ==
  [scan : Scans \cup {NoScan}, dest : SUBSET Addresses, port : Ports \cup {NoPort},
   outcome : {"validated", "rejected", "connected", "connect_failed"}]

Stages ==
  {"idle", "waiting", "connecting", "opened", "refused", "silent", "held", "dropped"}

TypeOK ==
  /\ scopes \in [ScopeIds -> [state : {"unused", "saved", "gone"}, row : Row]]
  /\ dns \in [Hosts -> SUBSET Addresses]
  /\ changes \in 0..MaxChanges
  /\ req \in RequestRecord
  /\ (req.pc # "idle" => req.scan \in Scans /\ req.scope \in ScopeIds /\ req.target \in Targets)
  /\ del \in ScopeIds \cup {NoScope}
  /\ scans \in [Scans -> ScanRow]
  /\ \A s \in Scans : Exists(s) => scans[s].scope \in ScopeIds /\ scans[s].target \in Targets
  /\ ledger \subseteq LedgerRow
  /\ job \in JobRecord
  /\ (job.pc \notin {"idle", "dead"} => job.scan \in Scans /\ job.target \in Targets)
  /\ conn \in [Pairs -> Stages]
  /\ authorised \in [Scans -> SUBSET Row]

\* The profile a scan was authorised against stays for as long as the scan
\* does, although delete_scope looks for scans before it deletes, and
\* create_scan validates before it inserts.
ScopeOfScanExists == \A s \in Scans : Exists(s) => Saved(scans[s].scope)

\* Once a target is validated, the check that connect repeats admits every
\* address of it: what is decided for a network as a whole, from its ends and
\* by overlap, agrees with the decision for each of its members, and a name
\* is validated with all its addresses or not at all.
ValidatedMeansAdmitted ==
  job.pc = "running" => \A a \in job.cand : Admits(job.row, a)

\* No probe touches an address that is always denied, or that was outside
\* the profile when the scan was dispatched, however the profile and the name
\* changed between the request and the dispatch: what the ledger allows lies
\* inside a profile the scan was dispatched under.
AllowedWasAuthorised ==
  \A e \in ledger :
    e.scan # NoScan /\ e.outcome # "rejected" =>
      \A a \in e.dest : ~ IsAlwaysDenied(a)
                        /\ \E row \in authorised[e.scan] : ContainsAddress(row, a)

\* The same of every socket, recorded or not.
SocketsAuthorised ==
  \A c \in Pairs :
    conn[c] # "idle" =>
      /\ job.pc = "running"
      /\ c[1] \in job.cand
      /\ ~ IsAlwaysDenied(c[1])
      /\ \E row \in authorised[job.scan] : ContainsAddress(row, c[1])

\* A module never holds a connection that the audit ledger does not have, for
\* as long as the scan is there: connect records before it returns.
HeldIsRecorded ==
  \A c \in Pairs :
    conn[c] = "held" /\ Exists(job.scan) =>
      Entry(job.scan, {c[1]}, c[2], "connected") \in ledger
=============================================================================
