----------------------------- MODULE ProbeModules -----------------------------
(***************************************************************************)
(* The probe modules of a scan on top of ScanGuard: host_discovery,        *)
(* port_scan, service_detect and protocol_enum issue their probes in waves *)
(* (in_bounded_waves), poll the cancel flag, and turn what connect returns *)
(* or raises into findings, warnings or a failure.  "other" stands for a   *)
(* module that hands the guard an address of its own choice.               *)
(*                                                                         *)
(* A probe is a task that connects to the ports of its list, one after the *)
(* other.  Whether the governor's budget still has a slot is left open     *)
(* here (IntensityGovernor decides it); banners and pages are left out.    *)
(***************************************************************************)
EXTENDS ScanGuard, Sequences

CONSTANTS
  Strays,       \* addresses that the module "other" asks for
  Requested,    \* what users request for a target: modules, by their order,
                \* and the port lists of the module options; NoPort is a
                \* number outside 1-65535
  TlsPorts,     \* TLS_PORTS
  IPv6Networks, \* which networks are of IPv6
  WaveSize,
  MaxExpanded   \* MAX_EXPANDED_ADDRESSES

FirstOf(net) == {a \in net : \A b \in net : a <= b}

\* network.hosts(): without the first and last address, of IPv6 without the
\* first; of one or two addresses the first.
HostsOf(net) ==
  IF Cardinality(net) <= 2 THEN FirstOf(net)
  ELSE net \ (IF net \in IPv6Networks THEN FirstOf(net) ELSE Ends(net))

ModuleNames == {"host_discovery", "port_scan", "service_detect", "protocol_enum", "other"}

PlanRecord ==
  [left : Seq(ModuleNames), discovery : Seq(Ports \cup {NoPort}), ports : Seq(Ports \cup {NoPort})]

ASSUME ProbeModulesAssumption ==
  /\ \A t \in Targets : Requested[t] \subseteq PlanRecord
  /\ IsFiniteSet(Addresses) /\ IsFiniteSet(Ports)
  /\ Ports \subseteq Nat /\ TlsPorts \subseteq Ports
  /\ Strays \subseteq Tried /\ UNION Answers \subseteq Tried
  /\ \A t \in Targets :
       /\ t.kind = "ip" => t.of \subseteq Tried
       /\ t.kind = "cidr" /\ Cardinality(t.of) <= MaxExpanded => HostsOf(t.of) \subseteq Tried
  /\ WaveSize \in Nat \ {0} /\ MaxExpanded \in Nat

VARIABLES
  plan,    \* modules of the scan that have not run yet, and its options
  mod,     \* the module that runs: name, where it is, its wave, its warning
  tasks,   \* its probes, in the order of the factories
  open,    \* the ports found open so far (prior_findings)
  cancel,  \* cancel_requested of the running scan
  flag     \* the _CancelFlag of the module

modVars == <<plan, mod, tasks, open, cancel, flag>>
allVars == <<vars, modVars>>

NoPlan == [left |-> <<>>, discovery |-> <<>>, ports |-> <<>>]
NoModule == [name |-> "none", pc |-> "none", base |-> 0, warned |-> FALSE]

ModInit ==
  /\ Init
  /\ plan = NoPlan /\ mod = NoModule /\ tasks = <<>>
  /\ open = {} /\ cancel = FALSE /\ flag = FALSE

-----------------------------------------------------------------------------
(* What a module sets out to do *)

Sweeps == {"host_discovery", "port_scan"}
FollowUps == {"service_detect", "protocol_enum"}

SortedBy(S) == CHOOSE q \in [1..Cardinality(S) -> S] :
                 \A i, j \in DOMAIN q : i < j => q[i] < q[j]

\* iter_target_addresses
TargetAddresses == IF job.target.kind = "cidr" THEN HostsOf(job.cand) ELSE job.cand

TooManyAddresses == job.target.kind = "cidr" /\ Cardinality(job.cand) > MaxExpanded

\* resolve_ports: a custom list is checked, sorted and freed of duplicates;
\* resolve_discovery_ports takes the numbers as they come.
BadPorts == plan.ports = <<>> \/ \E i \in DOMAIN plan.ports : plan.ports[i] \notin Ports
ResolvedPorts == SortedBy({plan.ports[i] : i \in DOMAIN plan.ports})

\* ModuleError, before the first probe.
CannotRun(name) ==
  \/ name \in Sweeps /\ TooManyAddresses
  \/ name = "port_scan" /\ BadPorts
  \/ name = "host_discovery" /\ plan.discovery = <<>>

Task(a, ports) == [addr |-> a, ports |-> ports, out |-> "run"]

\* One probe per address and port, addresses first.
Product(addrs, ports) ==
  LET as == SortedBy(addrs)
      n == Len(ports)
  IN [k \in 1..(Cardinality(addrs) * n) |->
        Task(as[((k - 1) \div n) + 1], <<ports[((k - 1) % n) + 1]>>)]

\* One probe per open port; protocol_enum opens a second stream on each, for
\* robots.txt.
FollowUp(times) ==
  LET pairs == CHOOSE q \in [1..Cardinality(open) -> open] :
                 \A i, j \in DOMAIN q : i < j =>
                   q[i][1] < q[j][1] \/ (q[i][1] = q[j][1] /\ q[i][2] < q[j][2])
  IN [k \in DOMAIN pairs |-> Task(pairs[k][1], [i \in 1..times |-> pairs[k][2]])]

TasksOf(name) ==
  CASE name = "host_discovery" ->
         {[k \in DOMAIN SortedBy(TargetAddresses) |->
             Task(SortedBy(TargetAddresses)[k], plan.discovery)]}
    [] name = "port_scan" -> {Product(TargetAddresses, ResolvedPorts)}
    [] name = "service_detect" -> {FollowUp(1)}
    [] name = "protocol_enum" -> {FollowUp(2)}
    [] name = "other" -> {<<Task(a, <<p>>)>> : a \in Strays, p \in Ports}

-----------------------------------------------------------------------------
(* execute_scan around the modules *)

BeginModules ==
  /\ DispatchValidated
  /\ plan' \in IF job'.pc = "running" THEN Requested[job.target] ELSE {NoPlan}
  /\ open' = {} /\ cancel' = FALSE
  /\ UNCHANGED <<mod, tasks, flag>>

RequestCancel ==
  /\ job.pc = "running" /\ Exists(job.scan)
  /\ ~ cancel
  /\ cancel' = TRUE
  /\ UNCHANGED <<vars, plan, mod, tasks, open, flag>>

\* A module starts with a fresh flag and the findings produced so far.
StartModule ==
  /\ job.pc = "running" /\ mod.pc = "none" /\ plan.left # <<>>
  /\ Exists(job.scan) /\ ~ cancel
  /\ plan' = [plan EXCEPT !.left = Tail(@)]
  /\ \/ /\ CannotRun(Head(plan.left))
        /\ mod' = [NoModule EXCEPT !.name = Head(plan.left), !.pc = "failed"]
        /\ tasks' = <<>>
     \/ /\ ~ CannotRun(Head(plan.left))
        /\ mod' = [NoModule EXCEPT !.name = Head(plan.left), !.pc = "run",
                     !.warned = Head(plan.left) \in FollowUps /\ open = {}]
        /\ tasks' \in TasksOf(Head(plan.left))
  /\ flag' = FALSE
  /\ UNCHANGED <<vars, open, cancel>>

\* _watch_for_cancel polls the row.
WatchCancel ==
  /\ mod.pc = "run" /\ cancel /\ ~ flag
  /\ flag' = TRUE
  /\ UNCHANGED <<vars, plan, mod, tasks, open, cancel>>

\* wait_for gives up on the module: every probe in flight is cancelled.
ModuleTimeout ==
  /\ mod.pc = "run"
  /\ mod' = [mod EXCEPT !.pc = "stopping"]
  /\ UNCHANGED <<vars, plan, tasks, open, cancel, flag>>

TimedOut ==
  /\ mod.pc = "stopping" /\ Quiet
  /\ mod' = [mod EXCEPT !.pc = "failed"]
  /\ UNCHANGED <<vars, plan, tasks, open, cancel, flag>>

\* The status of the module is stored; only a module that is done adds to the
\* findings.
SettleModule ==
  /\ mod.pc \in {"done", "failed"}
  /\ Exists(job.scan)
  /\ mod' = NoModule /\ tasks' = <<>>
  /\ UNCHANGED <<vars, plan, open, cancel, flag>>

\* The scan ends after its last module or a cancel request, or wherever the
\* loop task finds that it was deleted.
FinishScan ==
  /\ \/ mod.pc = "none" /\ (plan.left = <<>> \/ cancel)
     \/ mod.pc \in {"none", "done", "failed"} /\ ~ Exists(job.scan)
  /\ ScanEnds
  /\ plan' = NoPlan /\ mod' = NoModule /\ tasks' = <<>>
  /\ UNCHANGED <<open, cancel, flag>>

RestartAll ==
  /\ Restart
  /\ plan' = NoPlan /\ mod' = NoModule /\ tasks' = <<>>
  /\ open' = {} /\ cancel' = FALSE /\ flag' = FALSE

-----------------------------------------------------------------------------
(* The probes of a wave *)

Running(k) ==
  /\ mod.pc = "run"
  /\ k \in DOMAIN tasks
  /\ k > mod.base /\ k <= mod.base + WaveSize
  /\ tasks[k].out = "run"

Pair(k) == <<tasks[k].addr, Head(tasks[k].ports)>>
InRange(k) == Running(k) /\ Pair(k) \in Pairs
AtRest(k) == Running(k) /\ (InRange(k) => Free(Pair(k)))
Settle(k, out) == tasks' = [tasks EXCEPT ![k].out = out]
GoOn(k) == tasks' = [tasks EXCEPT ![k].ports = Tail(@)]

\* The second stream of protocol_enum: the flag is not looked at again.
SecondStream(k) == mod.name = "protocol_enum" /\ Len(tasks[k].ports) = 1

\* Mutant: nobody polls the flag between two ports.
Polls_Once(k) == Len(tasks[k].ports) = Len(plan.discovery)

\* Whether the probe looks at the flag before it connects.
Polls(k) == ~ SecondStream(k)

\* What a probe makes of a connection: host_discovery takes a refusal as a
\* sign of life, port_scan tells the three states apart, the others need the
\* stream.
Answer(name, c) ==
  CASE name = "port_scan" ->
         (CASE c = "held" -> "open" [] c = "refused" -> "closed" [] c = "silent" -> "filtered")
    [] name = "host_discovery" -> IF c = "silent" THEN "silent" ELSE "found"
    [] OTHER -> IF c = "held" THEN "found" ELSE "silent"

\* The probe ends, or goes on to its next port: host_discovery until a port
\* answers, protocol_enum once the first stream could be opened.
Advance(k, c) ==
  IF Len(tasks[k].ports) > 1
     /\ (mod.name = "host_discovery" => Answer(mod.name, c) = "silent")
     /\ (mod.name = "protocol_enum" => c = "held")
  THEN GoOn(k)
  ELSE Settle(k, IF SecondStream(k) THEN "found" ELSE Answer(mod.name, c))

ProbeCancelled(k) ==
  /\ AtRest(k)
  /\ flag /\ Polls(k)
  /\ Settle(k, "untested")
  /\ UNCHANGED <<vars, plan, mod, open, cancel, flag>>

MayProbe(k) == AtRest(k) /\ InRange(k) /\ ~ (flag /\ Polls(k))

\* Mutant: BudgetExceeded is taken for a connection that failed.
ProbeOverBudget_AsFailure(k) ==
  /\ MayProbe(k)
  /\ MayConnect(tasks[k].addr)
  /\ Settle(k, Answer(mod.name, "silent"))
  /\ UNCHANGED <<vars, plan, mod, open, cancel, flag>>

\* BudgetExceeded.  In protocol_enum it takes the findings of the first
\* stream along.
ProbeOverBudget(k) ==
  /\ MayProbe(k)
  /\ MayConnect(tasks[k].addr)
  /\ Settle(k, "budget")
  /\ UNCHANGED <<vars, plan, mod, open, cancel, flag>>

\* Mutant: the module opens the connection itself, past the guard.
ProbeConnects_Direct(k) ==
  /\ MayProbe(k)
  /\ conn' = [conn EXCEPT ![Pair(k)] = "connecting"]
  /\ UNCHANGED <<tableVars, dns, changes, req, del, job, authorised, modVars>>

\* The flag was not set when the probe looked: it asks the guard for a
\* connection.
ProbeConnects(k) ==
  /\ MayProbe(k)
  /\ ConnectAdmitted(tasks[k].addr, Head(tasks[k].ports))
  /\ UNCHANGED modVars

\* TargetRejected, or the error of a ledger without the scan.
ProbeDenied(k) ==
  /\ MayProbe(k)
  /\ ConnectDenied(tasks[k].addr, Head(tasks[k].ports))
  /\ Settle(k, IF Exists(job.scan) THEN "rejected" ELSE "broken")
  /\ UNCHANGED <<plan, mod, open, cancel, flag>>

\* connect refuses a port outside 1-65535 before it looks at anything else,
\* and leaves no row.
ProbeOutOfRange(k) ==
  /\ AtRest(k) /\ ~ InRange(k) /\ ~ (flag /\ Polls(k))
  /\ Settle(k, "rejected")
  /\ UNCHANGED <<vars, plan, mod, open, cancel, flag>>

\* The row of a failed attempt is written and the exception reaches the probe.
ProbeFails(k) ==
  /\ InRange(k)
  /\ RecordFailed(tasks[k].addr, Head(tasks[k].ports))
  /\ Advance(k, conn[Pair(k)])
  /\ UNCHANGED <<plan, mod, open, cancel, flag>>

\* Mutant: the probe returns without closing.
ProbeCloses_Forgets(k) ==
  /\ InRange(k) /\ conn[Pair(k)] = "held"
  /\ Settle(k, Answer(mod.name, "held"))
  /\ UNCHANGED <<vars, plan, mod, open, cancel, flag>>

\* The probe has read what it wants and closes.
ProbeCloses(k) ==
  /\ InRange(k)
  /\ Close(tasks[k].addr, Head(tasks[k].ports))
  /\ Advance(k, "held")
  /\ UNCHANGED <<plan, mod, open, cancel, flag>>

\* open_stream cannot upgrade the socket to TLS: it closes it, and the probe
\* gives up as if nobody had answered.
ProbeUpgradeFails(k) ==
  /\ InRange(k)
  /\ mod.name \in FollowUps /\ Pair(k)[2] \in TlsPorts
  /\ Close(tasks[k].addr, Head(tasks[k].ports))
  /\ Advance(k, "silent")
  /\ UNCHANGED <<plan, mod, open, cancel, flag>>

\* The ledger cannot be written: an error no module knows.
ProbeBreaks(k) ==
  /\ InRange(k)
  /\ \/ RecordLost(tasks[k].addr, Head(tasks[k].ports))
     \/ RecordInterrupted(tasks[k].addr, Head(tasks[k].ports))
  /\ Settle(k, "broken")
  /\ UNCHANGED <<plan, mod, open, cancel, flag>>

\* The slot comes, and the flag is not looked at again; only a module that is
\* stopped takes its waiting probes along.
ProbeBegins(c) ==
  /\ mod.pc = "run"
  /\ ConnectBegins(c[1], c[2])
  /\ UNCHANGED modVars

\* connect itself goes on whatever the module is doing.
ProbeAnswered(c) ==
  /\ ConnectAnswered(c[1], c[2]) \/ RecordOpened(c[1], c[2])
  /\ UNCHANGED modVars

\* A cancelled probe gives up its wait, still records its failure (or fails to), drops the
\* socket that it was about to record, or closes its stream.
ProbeStopped(c) ==
  /\ mod.pc = "stopping"
  /\ \/ ConnectAbandoned(c[1], c[2])
     \/ RecordFailed(c[1], c[2]) \/ RecordLost(c[1], c[2])
     \/ RecordInterrupted(c[1], c[2]) \/ Close(c[1], c[2])
  /\ UNCHANGED modVars

-----------------------------------------------------------------------------
(* The end of a wave, and of a module *)

Wave == {k \in DOMAIN tasks : k > mod.base /\ k <= mod.base + WaveSize}
Outs(S) == {tasks[k].out : k \in S}

\* Mutant: only the last wave can raise the warning.
WaveWarns_LastOnly == "budget" \in Outs(Wave)

\* budget_reached is never taken back.
WaveWarns == mod.warned \/ "budget" \in Outs(Wave)

\* gather has every outcome; an exception other than BudgetExceeded ends the
\* module.  A TargetRejected is a failure of the module, anything else ends
\* the loop task.
WaveEnds ==
  /\ mod.pc = "run" /\ Wave # {}
  /\ \A k \in Wave : tasks[k].out # "run"
  /\ \/ /\ Outs(Wave) \cap {"rejected", "broken"} = {}
        /\ mod' = [mod EXCEPT !.base = @ + WaveSize, !.warned = WaveWarns]
        /\ UNCHANGED <<vars, plan, tasks, cancel, flag>>
     \/ /\ "rejected" \in Outs(Wave)
        /\ mod' = [mod EXCEPT !.pc = "failed"]
        /\ UNCHANGED <<vars, plan, tasks, cancel, flag>>
     \/ /\ "broken" \in Outs(Wave)
        /\ LoopDies
        /\ mod' = NoModule /\ tasks' = <<>> /\ plan' = NoPlan
        /\ UNCHANGED <<cancel, flag>>
  /\ UNCHANGED open

\* _to_findings: every open port, and a summary of each host of which any
\* port was observed.
PortsThat(a, out) ==
  {Pair(k)[2] : k \in {j \in DOMAIN tasks : tasks[j].addr = a /\ tasks[j].out = out}}
Observed ==
  {tasks[k].addr : k \in {j \in DOMAIN tasks : tasks[j].out \in {"open", "closed", "filtered"}}}
OpenFinding(a, p) == [kind |-> "port.open", host |-> a, port |-> p]
Summary(a) ==
  [kind |-> "port.summary", host |-> a, open |-> PortsThat(a, "open"),
   closed |-> Cardinality(PortsThat(a, "closed")),
   filtered |-> Cardinality(PortsThat(a, "filtered"))]
PortFindings ==
  UNION {{OpenFinding(a, p) : p \in PortsThat(a, "open")} \cup {Summary(a)} : a \in Observed}

\* _alive_finding, with the port that proved it.
LiveFindings ==
  {[kind |-> "host.live", host |-> tasks[k].addr, port |-> Pair(k)[2]] :
     k \in {j \in DOMAIN tasks : tasks[j].out = "found"}}

Findings ==
  CASE mod.name = "port_scan" -> PortFindings
    [] mod.name = "host_discovery" -> LiveFindings
    [] OTHER -> {}

\* The module returns its findings; open_ports_by_host looks for the open
\* ports among them.
ModuleReturns ==
  /\ mod.pc = "run" /\ Wave = {}
  /\ mod' = [mod EXCEPT !.pc = "done"]
  /\ open' = open \cup {<<f.host, f.port>> : f \in {g \in Findings : g.kind = "port.open"}}
  /\ UNCHANGED <<vars, plan, tasks, cancel, flag>>

-----------------------------------------------------------------------------
Around ==
  \/ Edit \/ Request
  \/ \E s \in Scans : Dispatch(s)
  \/ DispatchResolve \/ DispatchRecords \/ DispatchRefused

ProbeStep(k) ==
  \/ ProbeCancelled(k) \/ ProbeOverBudget(k) \/ ProbeConnects(k) \/ ProbeDenied(k)
  \/ ProbeOutOfRange(k) \/ ProbeFails(k) \/ ProbeCloses(k) \/ ProbeUpgradeFails(k)
  \/ ProbeBreaks(k)

ModNext ==
  \/ Around /\ UNCHANGED modVars
  \/ BeginModules \/ RequestCancel \/ StartModule \/ WatchCancel
  \/ ModuleTimeout \/ TimedOut \/ SettleModule \/ FinishScan \/ RestartAll
  \/ \E k \in DOMAIN tasks : ProbeStep(k)
  \/ \E c \in Pairs : ProbeBegins(c) \/ ProbeAnswered(c) \/ ProbeStopped(c)
  \/ WaveEnds \/ ModuleReturns

ModSpec == ModInit /\ [][ModNext]_allVars

-----------------------------------------------------------------------------
(* Properties *)

PortsOf(a, outcomes) ==
  {p \in Ports : \E o \in outcomes : Entry(job.scan, {a}, p, o) \in ledger}

\* What a module reports is on record in the audit ledger: an open port was
\* connected to, as many connects failed as a host's summary counts closed and
\* filtered ports, and a host is alive because of a port that was tried.  An
\* observation is never made up for a probe that was cancelled, over budget or
\* refused (PortScanModule, HostDiscoveryModule).
ReportedWasProbed ==
  mod.pc = "done" /\ Exists(job.scan) =>
    \A f \in Findings :
      CASE f.kind = "port.open" -> f.port \in PortsOf(f.host, {"connected"})
        [] f.kind = "port.summary" ->
             /\ f.open \subseteq PortsOf(f.host, {"connected"})
             /\ f.closed + f.filtered <= Cardinality(PortsOf(f.host, {"connect_failed"}))
        [] f.kind = "host.live" -> f.port \in PortsOf(f.host, {"connected", "connect_failed"})

\* A module that ends without a warning, and without a cancel request, has
\* tested everything it set out to, so that what was not tested does not read
\* as "nothing was there": port_scan has a summary of every address whose
\* counts add up to the ports of the request, and host_discovery tried every
\* port of an address it does not report.
NoSilentGap ==
  mod.pc = "done" /\ ~ mod.warned /\ ~ flag =>
    CASE mod.name = "port_scan" ->
           \A a \in TargetAddresses : \E f \in Findings :
             /\ f.kind = "port.summary" /\ f.host = a
             /\ Cardinality(f.open) + f.closed + f.filtered = Len(ResolvedPorts)
      [] mod.name = "host_discovery" ->
           \A a \in TargetAddresses :
             \/ \E f \in Findings : f.host = a
             \/ ~ Exists(job.scan)
             \/ {plan.discovery[i] : i \in DOMAIN plan.discovery}
                  \subseteq PortsOf(a, {"connect_failed"})
      [] OTHER ->
           Outs(DOMAIN tasks) \cap {"run", "untested", "budget", "rejected", "broken"} = {}

\* Between two modules no connection is open that anyone could still close:
\* every path through a probe closes what it holds.
NothingHeldBetweenModules == mod.pc # "run" /\ mod.pc # "stopping" => Quiet

\* The modules reach the network through ScanGuard and nothing else: whatever
\* they do, together with the worker around them, is a behaviour of ScanGuard,
\* so its guarantees about sockets, ledger and profiles are theirs.
ModulesUseTheGuard == Spec
=============================================================================
