-------------------------- MODULE ProbeModulesProofs --------------------------
(***************************************************************************)
(* What the probe modules report is what the guard recorded, for any wave  *)
(* size, request and network, and whatever answers, cancels and failures   *)
(* the probes meet.                                                        *)
(***************************************************************************)
EXTENDS CancelWitness, ScanGuardProofs, FiniteSetTheorems, WellFoundedInduction

-----------------------------------------------------------------------------
(* The inductive invariant: what the reports rest on while a module runs    *)

Unobserved == {"run", "untested", "budget", "rejected", "broken"}
PortStates == {"open", "closed", "filtered"}
Outcomes == Unobserved \cup PortStates \cup {"found", "silent"}

TaskRecord ==
  [addr : Addresses, ports : Seq(Ports \cup {NoPort}), out : Outcomes]

ModTypeOK ==
  /\ plan \in PlanRecord
  /\ mod \in [name : ModuleNames \cup {"none"},
              pc : {"none", "run", "stopping", "done", "failed"}, base : Nat, warned : BOOLEAN]
  /\ tasks \in Seq(TaskRecord)
  /\ open \subseteq Pairs
  /\ cancel \in BOOLEAN /\ flag \in BOOLEAN

Is(name) == mod.pc \in {"run", "done"} /\ mod.name = name
ElementsOf(q) == {q[i] : i \in DOMAIN q}
OnRecord(k, outcomes) ==
  Pair(k) \in Pairs /\ (Exists(job.scan) => Pair(k)[2] \in PortsOf(tasks[k].addr, outcomes))

\* A module runs inside execute_scan, and a connection belongs to a probe of
\* the wave until the probe lets go of it, or the module is being stopped.
RunsInScan == mod.pc # "none" => job.pc = "running"

ConnectionsOwned ==
  \A c \in Pairs : conn[c] \notin {"idle", "dropped"} =>
    mod.pc = "stopping" \/ \E k \in DOMAIN tasks : Running(k) /\ Pair(k) = c

\* The waves that ended left no probe behind, and no gap without a warning.
WavesComplete ==
  mod.pc \in {"run", "done"} =>
    \A k \in DOMAIN tasks :
      /\ tasks[k].out = "untested" => flag
      /\ k <= mod.base => /\ tasks[k].out \notin {"run", "rejected", "broken"}
                          /\ tasks[k].out = "budget" => mod.warned
      /\ mod.pc = "done" => k <= mod.base

\* port_scan has one probe for every address and port of the request, and an
\* observation only with its row in the ledger.
PortProbe(k) ==
  /\ Len(tasks[k].ports) = 1 /\ Pair(k) \in TargetAddresses \X ElementsOf(plan.ports)
  /\ tasks[k].out \in Unobserved \cup PortStates
  /\ tasks[k].out = "open" => OnRecord(k, {"connected"})
  /\ tasks[k].out \in {"closed", "filtered"} => OnRecord(k, {"connect_failed"})

PortProbes ==
  Is("port_scan") =>
    /\ ~ BadPorts
    /\ \A k \in DOMAIN tasks : PortProbe(k)
    /\ \A j, k \in DOMAIN tasks : Pair(j) = Pair(k) => j = k
    /\ \A c \in TargetAddresses \X ElementsOf(plan.ports) : \E k \in DOMAIN tasks : Pair(k) = c

\* host_discovery has one probe for every address; the ports a probe does not
\* have before it any more are on record as failed.
HostProbe(k) ==
  /\ tasks[k].ports # <<>>
  /\ tasks[k].out \in Unobserved \cup {"found", "silent"}
  /\ tasks[k].out = "found" => OnRecord(k, {"connected", "connect_failed"})
  /\ tasks[k].out = "silent" => Len(tasks[k].ports) = 1 /\ OnRecord(k, {"connect_failed"})
  /\ Exists(job.scan) =>
       ElementsOf(plan.discovery) \subseteq
         ElementsOf(tasks[k].ports) \cup PortsOf(tasks[k].addr, {"connect_failed"})

HostProbes ==
  Is("host_discovery") =>
    /\ \A k \in DOMAIN tasks : HostProbe(k)
    /\ \A a \in TargetAddresses : \E k \in DOMAIN tasks : tasks[k].addr = a

ProbeInv == ModTypeOK /\ RunsInScan /\ ConnectionsOwned /\ WavesComplete /\ PortProbes /\ HostProbes

-----------------------------------------------------------------------------
(* Sorted lists *)

\* The elements of T one after the other, each in relation R to the later ones.
ListedBy(R, T) ==
  {q \in [1..Cardinality(T) -> T] :
     \A i, j \in 1..Cardinality(T) : i < j => <<q[i], q[j]>> \in R /\ q[i] # q[j]}

\* Two sorted lists around an element are one.
LEMMA ListsJoin ==
  ASSUME NEW R, NEW T, IsFiniteSet(T), NEW x \in T, NEW L, NEW G,
         T = L \cup {x} \cup G, L \cap G = {}, x \notin L, x \notin G,
         \A l \in L : <<l, x>> \in R /\ \A g \in G : <<l, g>> \in R,
         \A g \in G : <<x, g>> \in R,
         ListedBy(R, L) # {}, ListedBy(R, G) # {}
  PROVE  ListedBy(R, T) # {}
<1>1. PICK p \in ListedBy(R, L) : TRUE
  OBVIOUS
<1>2. PICK r \in ListedBy(R, G) : TRUE
  OBVIOUS
<1> DEFINE m == Cardinality(L)
           n == Cardinality(G)
<1>3. IsFiniteSet(L) /\ IsFiniteSet(G)
  BY FS_Subset
<1>4. m \in Nat /\ n \in Nat
  BY <1>3, FS_CardinalityType
<1>5. Cardinality(T) = m + n + 1
  <2>1. IsFiniteSet(L \cup G) /\ Cardinality(L \cup G) = m + n
    <3>1. Cardinality(L \cap G) = 0
      BY FS_EmptySet
    <3>2. IsFiniteSet(L \cup G) /\ Cardinality(L \cup G) = m + n - Cardinality(L \cap G)
      BY <1>3, FS_Union
    <3> QED BY <1>4, <3>1, <3>2
  <2>2. T = (L \cup G) \cup {x} /\ x \notin L \cup G
    OBVIOUS
  <2>3. Cardinality((L \cup G) \cup {x}) = Cardinality(L \cup G) + 1
    BY <2>1, <2>2, FS_AddElement
  <2> QED BY <2>1, <2>2, <2>3
<1> DEFINE q == [i \in 1..(m + n + 1) |-> IF i <= m THEN p[i] ELSE IF i = m + 1 THEN x ELSE r[i - (m + 1)]]
<1> HIDE DEF m, n
<1>6. /\ p \in [1..m -> L] /\ \A i, j \in 1..m : i < j => <<p[i], p[j]>> \in R /\ p[i] # p[j]
      /\ r \in [1..n -> G] /\ \A i, j \in 1..n : i < j => <<r[i], r[j]>> \in R /\ r[i] # r[j]
  BY <1>1, <1>2 DEF ListedBy, m, n
<1>7. \A i \in 1..(m + n + 1) :
        /\ i <= m => q[i] = p[i] /\ q[i] \in L
        /\ i = m + 1 => q[i] = x
        /\ i > m + 1 => q[i] = r[i - (m + 1)] /\ q[i] \in G
  BY <1>4, <1>6
<1>8. q \in [1..(m + n + 1) -> T]
  BY <1>4, <1>6
<1> HIDE DEF q
<1>9. ASSUME NEW i \in 1..(m + n + 1), NEW j \in 1..(m + n + 1), i < j
      PROVE  <<q[i], q[j]>> \in R /\ q[i] # q[j]
  <2>1. CASE j <= m
    <3>1. i \in 1..m /\ j \in 1..m /\ i <= m
      BY <1>4, <1>9, <2>1
    <3> QED BY <1>6, <1>7, <1>9, <2>1, <3>1
  <2>2. CASE i <= m /\ j > m
    <3>1. q[i] \in L /\ (q[j] = x \/ q[j] \in G)
      BY <1>4, <1>7, <2>2
    <3> QED BY <3>1
  <2>3. CASE i = m + 1
    BY <1>4, <1>7, <1>9, <2>3
  <2>4. CASE i > m + 1
    <3> DEFINE d == m + 1
    <3>1. d \in Nat /\ i > d /\ j > d /\ i <= d + n /\ j <= d + n
      BY <1>4, <1>9, <2>4
    <3>2. q[i] = r[i - d] /\ q[j] = r[j - d]
      BY <1>7, <3>1
    <3>3. i - d \in 1..n /\ j - d \in 1..n /\ i - d < j - d
      BY <1>4, <1>9, <3>1
    <3> QED BY <1>6, <3>2, <3>3
  <2> QED BY <1>4, <2>1, <2>2, <2>3, <2>4
<1>10. q \in ListedBy(R, T)
  BY <1>5, <1>8, <1>9 DEF ListedBy
<1> QED BY <1>10

\* A finite set can be listed in any total order: the smallest set that could
\* not is split at one of its elements.
LEMMA ListExists ==
  ASSUME NEW R, NEW S, IsFiniteSet(S),
         \A a, b \in S : a # b => <<a, b>> \in R \/ <<b, a>> \in R,
         \A a, b, c \in S : <<a, b>> \in R /\ <<b, c>> \in R => <<a, c>> \in R
  PROVE  ListedBy(R, S) # {}
<1> DEFINE Bad == {T \in SUBSET S : ListedBy(R, T) = {}}
<1>1. SUFFICES ASSUME Bad # {} PROVE FALSE
  OBVIOUS
<1>2. Bad \subseteq FiniteSubsetsOf(S)
  BY FS_Subset DEF FiniteSubsetsOf
<1>3. PICK T \in Bad : \A U \in Bad : ~ (<<U, T>> \in StrictSubsetOrdering(S))
  BY <1>1, <1>2, FS_StrictSubsetOrderingWellFounded, WFMin
<1>4. \A U \in SUBSET T : U # T => ListedBy(R, U) # {}
  BY <1>3 DEF StrictSubsetOrdering
<1>5. IsFiniteSet(T) /\ T \subseteq S
  BY FS_Subset
<1>6. T # {}
  <2>1. ASSUME T = {} PROVE FALSE
    <3>1. Cardinality(T) = 0
      BY <2>1, FS_EmptySet
    <3>2. [i \in 1..0 |-> i] \in ListedBy(R, T)
      BY <3>1 DEF ListedBy
    <3> QED BY <3>2
  <2> QED BY <2>1
<1>7. PICK x \in T : TRUE
  BY <1>6
<1> DEFINE L == {y \in T : y # x /\ <<y, x>> \in R}
           G == {y \in T : y # x /\ ~ (<<y, x>> \in R)}
<1>8. ListedBy(R, L) # {} /\ ListedBy(R, G) # {}
  BY <1>4, <1>7
<1>9. /\ T = L \cup {x} \cup G /\ L \cap G = {} /\ x \notin L /\ x \notin G
      /\ \A l \in L : <<l, x>> \in R
      /\ \A g \in G : <<x, g>> \in R
  BY <1>5
<1>10. \A l \in L, g \in G : <<l, g>> \in R
  BY <1>5, <1>9
<1> HIDE DEF L, G
<1> QED BY <1>5, <1>8, <1>9, <1>10, ListsJoin

\* Such a list has every element once.
LEMMA ListComplete ==
  ASSUME NEW R, NEW S, IsFiniteSet(S), NEW q \in ListedBy(R, S)
  PROVE  /\ Cardinality(S) \in Nat /\ q \in [1..Cardinality(S) -> S]
         /\ \A i, j \in 1..Cardinality(S) : q[i] = q[j] => i = j
         /\ \A a \in S : \E i \in 1..Cardinality(S) : q[i] = a
<1>1. Cardinality(S) \in Nat
  BY FS_CardinalityType
<1>2. q \in [1..Cardinality(S) -> S]
  BY DEF ListedBy
<1>3. \A i, j \in 1..Cardinality(S) : q[i] = q[j] => i = j
  <2> SUFFICES ASSUME NEW i \in 1..Cardinality(S), NEW j \in 1..Cardinality(S), i < j
               PROVE  q[i] # q[j]
    BY <1>1
  <2> QED BY <1>2 DEF ListedBy
<1>4. q \in Injection(1..Cardinality(S), S)
  BY <1>2, <1>3 DEF Injection, IsInjective
<1>5. IsFiniteSet(1..Cardinality(S)) /\ Cardinality(1..Cardinality(S)) = Cardinality(S)
  BY <1>1, FS_Interval
<1>6. q \in Surjection(1..Cardinality(S), S)
  BY <1>4, <1>5, FS_Injection
<1> QED BY <1>1, <1>2, <1>3, <1>6 DEF Surjection

\* sorted() of a set of addresses or ports.
LEMMA SortedIs ==
  ASSUME NEW S \in SUBSET Int, IsFiniteSet(S)
  PROVE  /\ Cardinality(S) \in Nat /\ SortedBy(S) \in [1..Cardinality(S) -> S]
         /\ \A i, j \in 1..Cardinality(S) : SortedBy(S)[i] = SortedBy(S)[j] => i = j
         /\ \A a \in S : \E i \in 1..Cardinality(S) : SortedBy(S)[i] = a
<1>0. PICK R : R = {c \in S \X S : c[1] < c[2]}
  OBVIOUS
<1>1. /\ \A a, b \in S : a # b => <<a, b>> \in R \/ <<b, a>> \in R
      /\ \A a, b, c \in S : <<a, b>> \in R /\ <<b, c>> \in R => <<a, c>> \in R
  BY <1>0
<1>2. ListedBy(R, S) # {}
  BY <1>1, ListExists
<1>3. PICK p \in ListedBy(R, S) : TRUE
  BY <1>2
<1> DEFINE Up(q) == \A i, j \in DOMAIN q : i < j => q[i] < q[j]
<1>4. p \in [1..Cardinality(S) -> S] /\ Up(p)
  BY <1>0, <1>3 DEF ListedBy
<1>5. SortedBy(S) \in [1..Cardinality(S) -> S] /\ Up(SortedBy(S))
  BY <1>4 DEF SortedBy
<1>6. SortedBy(S) \in ListedBy(R, S)
  <2> DEFINE q == SortedBy(S)
  <2>1. ASSUME NEW i \in 1..Cardinality(S), NEW j \in 1..Cardinality(S), i < j
        PROVE  <<q[i], q[j]>> \in R /\ q[i] # q[j]
    <3>1. q[i] \in S /\ q[j] \in S /\ q[i] < q[j]
      BY <1>5, <2>1
    <3> HIDE DEF q
    <3>2. <<q[i], q[j]>> \in R
      BY <1>0, <3>1
    <3>3. \A a, b \in Int : a < b => a # b
      OBVIOUS
    <3> QED BY <3>1, <3>2, <3>3
  <2> QED BY <1>5, <2>1 DEF ListedBy
<1> QED BY <1>6, ListComplete

\* Quotient and remainder name a number, and every pair of them is one.
LEMMA Quotient ==
  ASSUME NEW n \in Nat \ {0}, NEW k \in Nat
  PROVE  /\ k \div n \in Nat /\ k % n \in 0..(n - 1)
         /\ k = n * (k \div n) + (k % n)
OBVIOUS

LEMMA QuotientUnique ==
  ASSUME NEW n \in Nat \ {0}, NEW q \in Nat, NEW r \in 0..(n - 1)
  PROVE  (n * q + r) \div n = q /\ (n * q + r) % n = r
OBVIOUS

-----------------------------------------------------------------------------
(* The probes of a module *)

\* A list of probes that have not begun.
Fresh == {T \in Seq(TaskRecord) : \A k \in DOMAIN T : T[k].out = "run" /\ T[k].ports # <<>>}

LEMMA TaskType ==
  ASSUME NEW a \in Addresses, NEW ports \in Seq(Ports \cup {NoPort})
  PROVE  /\ Task(a, ports) \in TaskRecord
         /\ Task(a, ports).addr = a /\ Task(a, ports).ports = ports /\ Task(a, ports).out = "run"
BY DEF Task, TaskRecord, Outcomes, Unobserved

LEMMA AddressSetsFinite ==
  ASSUME NEW A \in SUBSET Addresses
  PROVE  A \in SUBSET Int /\ IsFiniteSet(A)
BY FS_Subset, ProbeModulesAssumption, ScopeRulesAssumption

LEMMA PortSetsFinite ==
  ASSUME NEW P \in SUBSET Ports
  PROVE  P \in SUBSET Int /\ IsFiniteSet(P)
<1>1. IsFiniteSet(Ports) /\ Ports \subseteq Nat
  BY ProbeModulesAssumption
<1>2. IsFiniteSet(P)
  BY <1>1, FS_Subset
<1> QED BY <1>1, <1>2

\* One probe for each address and port; one for each address, with a list.
PortList(T, A, P) ==
  /\ T \in Fresh
  /\ \A k \in DOMAIN T : Len(T[k].ports) = 1 /\ T[k].addr \in A /\ Head(T[k].ports) \in P
  /\ \A j, k \in DOMAIN T :
       T[j].addr = T[k].addr /\ Head(T[j].ports) = Head(T[k].ports) => j = k
  /\ \A a \in A, p \in P : \E k \in DOMAIN T : T[k].addr = a /\ Head(T[k].ports) = p

HostList(T, A, ports) ==
  /\ T \in Fresh
  /\ \A k \in DOMAIN T : T[k].ports = ports
  /\ \A j, k \in DOMAIN T : T[j].addr = T[k].addr => j = k
  /\ \A a \in A : \E k \in DOMAIN T : T[k].addr = a

\* The probes of port_scan.
LEMMA ProductIs ==
  ASSUME NEW A \in SUBSET Addresses, NEW P \in SUBSET Ports
  PROVE  PortList(Product(A, SortedBy(P)), A, P)
<1>0. PICK T : T = Product(A, SortedBy(P))
  OBVIOUS
<1> DEFINE as == SortedBy(A)
           ps == SortedBy(P)
           m == Cardinality(A)
           n == Cardinality(P)
           quo(k) == ((k - 1) \div n) + 1
           rem(k) == ((k - 1) % n) + 1
<1>1. /\ m \in Nat /\ as \in [1..m -> A]
      /\ \A i, j \in 1..m : as[i] = as[j] => i = j
      /\ \A a \in A : \E i \in 1..m : as[i] = a
  BY AddressSetsFinite, SortedIs
<1>2. /\ n \in Nat /\ ps \in [1..n -> P]
      /\ \A i, j \in 1..n : ps[i] = ps[j] => i = j
      /\ \A p \in P : \E i \in 1..n : ps[i] = p
  BY PortSetsFinite, SortedIs
<1>3. Len(ps) = n
  BY <1>2
<1>4. T = [k \in 1..(m * n) |-> Task(as[quo(k)], <<ps[rem(k)]>>)]
  BY <1>0, <1>3 DEF Product
<1> HIDE DEF as, ps, m, n
<1>5. m * n \in Nat
  BY <1>1, <1>2
<1>6. ASSUME NEW k \in 1..(m * n)
      PROVE  /\ n # 0 /\ k - 1 \in Nat
             /\ quo(k) \in 1..m /\ rem(k) \in 1..n
             /\ k - 1 = n * (quo(k) - 1) + (rem(k) - 1)
  <2>1. n # 0 /\ k - 1 \in Nat /\ k - 1 < n * m
    BY <1>1, <1>2, <1>5
  <2>2. PICK q \in Nat, r \in 0..(n - 1) : (k - 1) \div n = q /\ (k - 1) % n = r /\ k - 1 = n * q + r
    BY <1>2, <2>1, Quotient
  <2>3. q < m
    BY <1>1, <1>2, <2>1, <2>2
  <2> QED BY <1>1, <1>2, <2>1, <2>2, <2>3
<1> HIDE DEF quo, rem
<1>7. ASSUME NEW k \in 1..(m * n)
      PROVE  /\ T[k] \in TaskRecord /\ T[k].out = "run"
             /\ T[k].addr = as[quo(k)] /\ T[k].addr \in A
             /\ T[k].ports = <<ps[rem(k)]>> /\ Head(T[k].ports) = ps[rem(k)]
             /\ ps[rem(k)] \in P /\ T[k].ports # <<>> /\ Len(T[k].ports) = 1
  <2>1. as[quo(k)] \in A /\ ps[rem(k)] \in P
    BY <1>1, <1>2, <1>6
  <2>2. T[k] = Task(as[quo(k)], <<ps[rem(k)]>>)
    BY <1>4 DEF quo, rem
  <2>3. PICK a \in A : a = as[quo(k)]
    BY <2>1
  <2>4. PICK p \in P : p = ps[rem(k)]
    BY <2>1
  <2>5. <<p>> \in Seq(Ports \cup {NoPort}) /\ Head(<<p>>) = p /\ <<p>> # <<>> /\ Len(<<p>>) = 1
    OBVIOUS
  <2>6. T[k] = Task(a, <<p>>) /\ a \in Addresses
    BY <2>2, <2>3, <2>4
  <2>7. T[k] \in TaskRecord /\ T[k].addr = a /\ T[k].ports = <<p>> /\ T[k].out = "run"
    BY <2>5, <2>6 DEF Task, TaskRecord, Outcomes, Unobserved
  <2> QED BY <2>3, <2>4, <2>5, <2>7
<1>8. T \in Seq(TaskRecord) /\ DOMAIN T = 1..(m * n)
  <2>1. T \in [1..(m * n) -> TaskRecord]
    BY <1>4, <1>7
  <2> QED BY <1>5, <2>1
<1>9. T \in Fresh
  <2>1. \A k \in 1..(m * n) : T[k].out = "run" /\ T[k].ports # <<>>
    BY <1>7
  <2> QED BY <1>8, <2>1 DEF Fresh
<1>10. ASSUME NEW j \in 1..(m * n), NEW k \in 1..(m * n),
              T[j].addr = T[k].addr, Head(T[j].ports) = Head(T[k].ports)
       PROVE  j = k
  <2>1. quo(j) = quo(k) /\ rem(j) = rem(k)
    <3>1. quo(j) \in 1..m /\ quo(k) \in 1..m /\ rem(j) \in 1..n /\ rem(k) \in 1..n
      BY <1>6
    <3>2. as[quo(j)] = as[quo(k)] /\ ps[rem(j)] = ps[rem(k)]
      BY <1>7, <1>10
    <3> QED BY <1>1, <1>2, <3>1, <3>2
  <2>2. j - 1 = n * (quo(j) - 1) + (rem(j) - 1) /\ k - 1 = n * (quo(k) - 1) + (rem(k) - 1)
    BY <1>6
  <2>3. j - 1 = k - 1
    BY <2>1, <2>2
  <2> QED BY <2>3, <1>5
<1>11. ASSUME NEW a \in A, NEW p \in P
       PROVE  \E k \in 1..(m * n) : T[k].addr = a /\ Head(T[k].ports) = p
  <2>1. PICK i \in 1..m : as[i] = a
    BY <1>1
  <2>2. PICK j \in 1..n : ps[j] = p
    BY <1>2
  <2> DEFINE q == i - 1
             r == j - 1
             k == n * q + r + 1
  <2>3. q \in Nat /\ q < m /\ r \in 0..(n - 1) /\ n \in Nat \ {0}
    BY <1>1, <1>2
  <2> HIDE DEF q, r
  <2>4. k - 1 = n * q + r /\ k \in Nat /\ k >= 1
    BY <2>3
  <2>5. n * q + n <= n * m
    <3>1. q + 1 <= m
      BY <1>1, <2>3
    <3>2. n * (q + 1) <= n * m
      BY <1>1, <2>3, <3>1
    <3> QED BY <2>3, <3>2
  <2>6. k \in 1..(m * n)
    BY <1>1, <2>3, <2>4, <2>5
  <2>7. quo(k) = q + 1 /\ rem(k) = r + 1
    BY <2>3, <2>4, QuotientUnique DEF quo, rem
  <2> HIDE DEF k
  <2>8. q + 1 = i /\ r + 1 = j
    BY DEF q, r
  <2> QED BY <1>7, <2>1, <2>2, <2>6, <2>7, <2>8
<1>12. \A k \in 1..(m * n) : Len(T[k].ports) = 1 /\ T[k].addr \in A /\ Head(T[k].ports) \in P
  BY <1>7
<1> QED BY <1>0, <1>8, <1>9, <1>10, <1>11, <1>12 DEF PortList

\* The probes of service_detect and protocol_enum.
LEMMA FollowUpIs ==
  ASSUME open \subseteq Pairs, NEW times \in Nat \ {0}
  PROVE  FollowUp(times) \in Fresh
<1> DEFINE Before(a, b) == a[1] < b[1] \/ (a[1] = b[1] /\ a[2] < b[2])
           n == Cardinality(open)
           Up(q) == \A i, j \in DOMAIN q : i < j => Before(q[i], q[j])
           pairs == CHOOSE q \in [1..n -> open] : Up(q)
<1>1. IsFiniteSet(open)
  <2>1. IsFiniteSet(Tried) /\ IsFiniteSet(Ports)
    BY ScanGuardAssumption, AddressSetsFinite, PortSetsFinite
  <2> QED BY <2>1, FS_Product, FS_Subset DEF Pairs
<1>2. \A a \in open : a = <<a[1], a[2]>> /\ a[1] \in Addresses /\ a[1] \in Int /\ a[2] \in Ports /\ a[2] \in Int
  <2>1. Tried \subseteq Addresses /\ Addresses \subseteq Int /\ Ports \subseteq Int
    BY ScanGuardAssumption, ScopeRulesAssumption, PortSetsFinite
  <2>2. \A a \in open : a = <<a[1], a[2]>> /\ a[1] \in Tried /\ a[2] \in Ports
    BY DEF Pairs
  <2> QED BY <2>1, <2>2
<1>3. PICK R : R = {c \in open \X open : Before(c[1], c[2])}
  OBVIOUS
<1>4. \A a, b \in open : <<a, b>> \in R <=> Before(a, b)
  BY <1>3
<1>5. \A a, b \in open : a # b => Before(a, b) \/ Before(b, a)
  BY <1>2
<1>6. \A a, b, c \in open : Before(a, b) /\ Before(b, c) => Before(a, c)
  BY <1>2
<1> HIDE DEF Before
<1>7. ListedBy(R, open) # {}
  BY <1>1, <1>4, <1>5, <1>6, ListExists
<1>8. PICK p \in ListedBy(R, open) : TRUE
  BY <1>7
<1>9. p \in [1..n -> open] /\ Up(p)
  BY <1>4, <1>8 DEF ListedBy
<1>10. n \in Nat /\ pairs \in [1..n -> open]
  BY <1>1, <1>9, FS_CardinalityType
<1> DEFINE T == [k \in DOMAIN pairs |-> Task(pairs[k][1], [i \in 1..times |-> pairs[k][2]])]
<1>11. FollowUp(times) = T
  BY DEF FollowUp, Before
<1> HIDE DEF pairs, n
<1>12. ASSUME NEW k \in 1..n
       PROVE  T[k] \in TaskRecord /\ T[k].out = "run" /\ T[k].ports # <<>>
  <2>1. PICK a \in Addresses, p2 \in Ports : a = pairs[k][1] /\ p2 = pairs[k][2]
    BY <1>2, <1>10
  <2> DEFINE ps == [i \in 1..times |-> p2]
  <2>2. ps \in Seq(Ports \cup {NoPort}) /\ Len(ps) = times
    OBVIOUS
  <2>3. ps # <<>>
    BY <2>2
  <2>4. T[k] = Task(a, ps)
    BY <1>10, <2>1
  <2> HIDE DEF ps, T
  <2> QED BY <2>2, <2>3, <2>4, TaskType
<1>13. T \in [1..n -> TaskRecord]
  BY <1>10, <1>12
<1> HIDE DEF T
<1>14. T \in Seq(TaskRecord) /\ DOMAIN T = 1..n
  BY <1>10, <1>13
<1> QED BY <1>11, <1>12, <1>14 DEF Fresh

\* The probes of host_discovery.
LEMMA DiscoveryIs ==
  ASSUME NEW A \in SUBSET Addresses, NEW ports \in Seq(Ports \cup {NoPort}), ports # <<>>
  PROVE  HostList([k \in DOMAIN SortedBy(A) |-> Task(SortedBy(A)[k], ports)], A, ports)
<1>0. PICK T : T = [k \in DOMAIN SortedBy(A) |-> Task(SortedBy(A)[k], ports)]
  OBVIOUS
<1> DEFINE as == SortedBy(A)
           m == Cardinality(A)
<1>1. /\ m \in Nat /\ as \in [1..m -> A]
      /\ \A i, j \in 1..m : as[i] = as[j] => i = j
      /\ \A a \in A : \E i \in 1..m : as[i] = a
  BY AddressSetsFinite, SortedIs
<1>2. T = [k \in 1..m |-> Task(as[k], ports)]
  BY <1>0, <1>1
<1> HIDE DEF as, m
<1>3. ASSUME NEW k \in 1..m
      PROVE  T[k] \in TaskRecord /\ T[k].out = "run" /\ T[k].addr = as[k] /\ T[k].ports = ports
  <2>1. PICK a \in Addresses : a = as[k]
    BY <1>1
  <2>2. T[k] = Task(a, ports)
    BY <1>2, <2>1
  <2>3. /\ Task(a, ports) \in TaskRecord /\ Task(a, ports).out = "run"
        /\ Task(a, ports).addr = a /\ Task(a, ports).ports = ports
    BY TaskType
  <2> QED BY <2>1, <2>2, <2>3
<1>4. T \in [1..m -> TaskRecord]
  BY <1>2, <1>3
<1>5. T \in Seq(TaskRecord) /\ DOMAIN T = 1..m
  BY <1>1, <1>4
<1>6. T \in Fresh
  BY <1>3, <1>5 DEF Fresh
<1>7. ASSUME NEW a \in A PROVE \E k \in DOMAIN T : T[k].addr = a
  <2>1. PICK i \in 1..m : as[i] = a
    BY <1>1
  <2> QED BY <1>3, <1>5, <2>1
<1>8. ASSUME NEW j \in 1..m, NEW k \in 1..m, T[j].addr = T[k].addr PROVE j = k
  <2>1. T[j].addr = as[j] /\ T[k].addr = as[k]
    BY <1>3
  <2> QED BY <1>1, <1>8, <2>1
<1>9. HostList(T, A, ports)
  BY <1>3, <1>5, <1>6, <1>7, <1>8 DEF HostList
<1> QED BY <1>0, <1>9

\* What a module that can run sets out to do.
LEMMA TasksAre ==
  ASSUME TypeOK, ModTypeOK, NEW name \in ModuleNames, ~ CannotRun(name), NEW T \in TasksOf(name)
  PROVE  /\ T \in Fresh
         /\ name = "port_scan" =>
              ~ BadPorts /\ PortList(T, TargetAddresses, ElementsOf(plan.ports))
         /\ name = "host_discovery" => HostList(T, TargetAddresses, plan.discovery)
<1>1. TargetAddresses \in SUBSET Addresses
  BY DEF TargetAddresses, HostsOf, FirstOf, TypeOK, JobRecord
<1>2. CASE name = "port_scan"
  <2>1. ~ BadPorts
    BY <1>2 DEF CannotRun
  <2>2. ElementsOf(plan.ports) \in SUBSET Ports
    BY <2>1 DEF BadPorts, ElementsOf
  <2>3. T = Product(TargetAddresses, SortedBy(ElementsOf(plan.ports)))
    BY <1>2 DEF TasksOf, ResolvedPorts, ElementsOf
  <2>4. PortList(T, TargetAddresses, ElementsOf(plan.ports))
    BY <1>1, <2>2, <2>3, ProductIs
  <2>5. T \in Fresh
    BY <2>4 DEF PortList
  <2> QED BY <1>2, <2>1, <2>4, <2>5
<1>3. CASE name = "host_discovery"
  <2>1. plan.discovery \in Seq(Ports \cup {NoPort}) /\ plan.discovery # <<>>
    BY <1>3 DEF CannotRun, ModTypeOK, PlanRecord
  <2>2. T = [k \in DOMAIN SortedBy(TargetAddresses) |->
               Task(SortedBy(TargetAddresses)[k], plan.discovery)]
    BY <1>3 DEF TasksOf
  <2>3. HostList(T, TargetAddresses, plan.discovery)
    BY <1>1, <2>1, <2>2, DiscoveryIs
  <2>4. T \in Fresh
    BY <2>3 DEF HostList
  <2> QED BY <1>3, <2>3, <2>4
<1>4. CASE name \in FollowUps
  <2>1. T = FollowUp(1) \/ T = FollowUp(2)
    BY <1>4 DEF TasksOf, FollowUps
  <2>2. FollowUp(1) \in Fresh /\ FollowUp(2) \in Fresh
    BY FollowUpIs DEF ModTypeOK
  <2> QED BY <1>4, <2>1, <2>2 DEF FollowUps
<1>5. CASE name = "other"
  <2>1. PICK a \in Strays, p \in Ports : T = <<Task(a, <<p>>)>>
    BY <1>5 DEF TasksOf
  <2>2. a \in Addresses /\ <<p>> \in Seq(Ports \cup {NoPort}) /\ <<p>> # <<>>
    BY ProbeModulesAssumption, ScanGuardAssumption
  <2> DEFINE t == Task(a, <<p>>)
  <2>3. t \in TaskRecord /\ t.out = "run" /\ t.ports = <<p>>
    BY <2>2 DEF Task, TaskRecord, Outcomes, Unobserved
  <2> HIDE DEF t
  <2>4. <<t>> \in Fresh
    <3>1. <<t>> \in Seq(TaskRecord) /\ DOMAIN <<t>> = {1} /\ <<t>>[1] = t
      BY <2>3
    <3>2. \A k \in DOMAIN <<t>> : <<t>>[k].out = "run" /\ <<t>>[k].ports # <<>>
      BY <2>2, <2>3, <3>1
    <3> QED BY <3>1, <3>2 DEF Fresh
  <2> QED BY <1>5, <2>1, <2>4 DEF t
<1> QED BY <1>2, <1>3, <1>4, <1>5 DEF ModuleNames, FollowUps

-----------------------------------------------------------------------------
(* The modules and the guard *)

LEMMA InRangePair ==
  ASSUME NEW k, InRange(k)
  PROVE  tasks[k].addr \in Tried /\ Head(tasks[k].ports) \in Ports
BY DEF InRange, Pair, Pairs

\* What a probe does to the guard is one step of connect, or nothing.
LEMMA ProbeIsConnect ==
  ASSUME NEW k, ProbeStep(k)
  PROVE  UNCHANGED vars \/ \E a \in Tried, p \in Ports : ConnectStep(a, p)
<1>1. CASE ProbeCancelled(k) \/ ProbeOverBudget(k) \/ ProbeOutOfRange(k)
  BY <1>1 DEF ProbeCancelled, ProbeOverBudget, ProbeOutOfRange
<1>2. CASE InRange(k) /\ ConnectStep(tasks[k].addr, Head(tasks[k].ports))
  BY <1>2, InRangePair
<1>3. CASE ProbeConnects(k) \/ ProbeDenied(k)
  BY <1>2, <1>3 DEF ProbeConnects, ProbeDenied, MayProbe, ConnectStep
<1>4. CASE ProbeFails(k) \/ ProbeCloses(k) \/ ProbeUpgradeFails(k) \/ ProbeBreaks(k)
  BY <1>2, <1>4 DEF ProbeFails, ProbeCloses, ProbeUpgradeFails, ProbeBreaks, ConnectStep
<1> QED BY <1>1, <1>3, <1>4 DEF ProbeStep

LEMMA GuardStep ==
  ASSUME [ModNext]_allVars
  PROVE  [Next]_vars
<1>1. CASE UNCHANGED allVars
  BY <1>1 DEF allVars
<1>2. CASE Around \/ BeginModules
  BY <1>2 DEF Around, BeginModules, Next, Execute
<1>3. CASE RequestCancel \/ StartModule \/ WatchCancel \/ ModuleTimeout \/ TimedOut \/ SettleModule
  BY <1>3 DEF RequestCancel, StartModule, WatchCancel, ModuleTimeout, TimedOut, SettleModule
<1>4. CASE FinishScan \/ RestartAll
  BY <1>4 DEF FinishScan, RestartAll, Next
<1>5. ASSUME NEW k \in DOMAIN tasks, ProbeStep(k) PROVE [Next]_vars
  BY <1>5, ProbeIsConnect DEF Next
<1>6. ASSUME NEW c \in Pairs, ProbeBegins(c) \/ ProbeAnswered(c) \/ ProbeStopped(c) PROVE [Next]_vars
  <2>1. c[1] \in Tried /\ c[2] \in Ports /\ ConnectStep(c[1], c[2])
    BY <1>6 DEF Pairs, ProbeBegins, ProbeAnswered, ProbeStopped, ConnectStep
  <2> QED BY <2>1 DEF Next
<1>7. CASE WaveEnds
  BY <1>7 DEF WaveEnds, Next
<1>8. CASE ModuleReturns
  BY <1>8 DEF ModuleReturns
<1> QED BY <1>1, <1>2, <1>3, <1>4, <1>5, <1>6, <1>7, <1>8 DEF ModNext

\* Whatever the modules do is a behaviour of ScanGuard: each probe is a connect
\* of the guard, and no module has another way to the network
\* (ModuleContext.guard).  The theorems about ScanGuard are theirs.
THEOREM GuardIsImplemented == ModSpec => ModulesUseTheGuard
<1>1. ModInit => Init
  BY DEF ModInit
<1>2. [ModNext]_allVars => [Next]_vars
  BY GuardStep
<1> QED BY <1>1, <1>2, PTL DEF ModSpec, ModulesUseTheGuard, Spec

\* Whatever the modules probe, and wherever they are cancelled or fail: what the
\* ledger allows and every socket lies inside the profile of the dispatch, and
\* a connection that a module holds is on record.
THEOREM ModulesStayInScope ==
  ModSpec => [](AllowedWasAuthorised /\ SocketsAuthorised /\ HeldIsRecorded)
BY GuardIsImplemented, LedgerIsAuthorised, NoSocketOutOfScope, HeldSocketsAreRecorded, PTL
   DEF ModulesUseTheGuard

-----------------------------------------------------------------------------
(* What a step does to the module *)

\* The probe k is settled, or goes on to its next port.
LEMMA SettleIs ==
  ASSUME ModTypeOK, NEW k \in DOMAIN tasks, NEW out \in Outcomes, Settle(k, out)
  PROVE  /\ tasks' \in Seq(TaskRecord) /\ DOMAIN tasks' = DOMAIN tasks
         /\ tasks'[k].addr = tasks[k].addr /\ tasks'[k].ports = tasks[k].ports
         /\ tasks'[k].out = out
         /\ \A j \in DOMAIN tasks : j # k => tasks'[j] = tasks[j]
<1>1. tasks \in Seq(TaskRecord) /\ tasks[k] \in TaskRecord
  BY DEF ModTypeOK
<1>2. PICK t : t = [tasks[k] EXCEPT !.out = out]
  OBVIOUS
<1>3. t \in TaskRecord /\ t.addr = tasks[k].addr /\ t.ports = tasks[k].ports /\ t.out = out
  BY <1>1, <1>2 DEF TaskRecord
<1>4. tasks' = [tasks EXCEPT ![k] = t]
  BY <1>2 DEF Settle
<1> QED BY <1>1, <1>3, <1>4

LEMMA GoOnIs ==
  ASSUME ModTypeOK, NEW k \in DOMAIN tasks, GoOn(k), Len(tasks[k].ports) > 1
  PROVE  /\ tasks' \in Seq(TaskRecord) /\ DOMAIN tasks' = DOMAIN tasks
         /\ tasks'[k].addr = tasks[k].addr /\ tasks'[k].ports = Tail(tasks[k].ports)
         /\ tasks'[k].out = tasks[k].out
         /\ \A j \in DOMAIN tasks : j # k => tasks'[j] = tasks[j]
<1>1. tasks \in Seq(TaskRecord) /\ tasks[k] \in TaskRecord
  BY DEF ModTypeOK
<1>2. PICK t : t = [tasks[k] EXCEPT !.ports = Tail(@)]
  OBVIOUS
<1>3. tasks[k].ports \in Seq(Ports \cup {NoPort}) /\ Tail(tasks[k].ports) \in Seq(Ports \cup {NoPort})
  BY <1>1 DEF TaskRecord
<1>4. /\ t \in TaskRecord /\ t.addr = tasks[k].addr /\ t.out = tasks[k].out
      /\ t.ports = Tail(tasks[k].ports)
  BY <1>1, <1>2, <1>3 DEF TaskRecord
<1>5. tasks' = [tasks EXCEPT ![k] = t]
  BY <1>2 DEF GoOn
<1> QED BY <1>1, <1>4, <1>5

\* The probe k asks for a connection; it ends without an observation; or it makes
\* something of the connection c it had.
LetsGo(k) ==
  \A c \in Pairs : conn'[c] \notin {"idle", "dropped"} => c # Pair(k) /\ conn[c] = conn'[c]

Asks(k) ==
  /\ Pair(k) \in Pairs /\ tasks' = tasks
  /\ conn' = [conn EXCEPT ![Pair(k)] = "waiting"] /\ ~ (flag /\ Polls(k))

GivesUp(k) ==
  /\ LetsGo(k)
  /\ \E out \in {"untested", "budget", "rejected", "broken"} :
       Settle(k, out) /\ (out = "untested" => flag)

Observes(k) ==
  /\ LetsGo(k) /\ Pair(k) \in Pairs
  /\ \E c \in {"held", "refused", "silent"} :
       /\ Advance(k, c)
       /\ \/ c = "held" /\ conn[Pair(k)] = "held" /\ ledger' = ledger
          \/ /\ c \in Failed
             /\ Entry(job.scan, {tasks[k].addr}, Head(tasks[k].ports), "connect_failed") \in ledger'
          \/ mod.name \in FollowUps

LEMMA ConnLetsGo ==
  ASSUME TypeOK, NEW k, NEW st \in {"idle", "dropped"}, Pair(k) \in Pairs,
         conn' = [conn EXCEPT ![Pair(k)] = st]
  PROVE  LetsGo(k)
BY DEF LetsGo, TypeOK

LEMMA ProbeEffects ==
  ASSUME TypeOK, NEW k \in DOMAIN tasks, ProbeStep(k)
  PROVE  /\ Running(k) /\ UNCHANGED <<plan, mod, open, cancel, flag, job>>
         /\ Asks(k) \/ GivesUp(k) \/ Observes(k)
<1> DEFINE a == tasks[k].addr
           p == Head(tasks[k].ports)
<1>0. Pair(k) = <<a, p>>
  BY DEF Pair
<1>1. ASSUME AtRest(k), conn' = conn PROVE Running(k) /\ LetsGo(k)
  BY <1>1 DEF AtRest, InRange, LetsGo, Free
<1>2. CASE ProbeCancelled(k) \/ ProbeOverBudget(k) \/ ProbeOutOfRange(k)
  BY <1>1, <1>2 DEF ProbeCancelled, ProbeOverBudget, ProbeOutOfRange, MayProbe, GivesUp, vars
<1>3. CASE ProbeConnects(k)
  BY <1>0, <1>3 DEF ProbeConnects, MayProbe, InRange, ConnectAdmitted, Asks, modVars
<1>4. CASE ProbeDenied(k)
  BY <1>1, <1>4 DEF ProbeDenied, MayProbe, ConnectDenied, GivesUp
<1>5. CASE ProbeFails(k)
  <2>1. Running(k) /\ Pair(k) \in Pairs
    BY <1>5 DEF ProbeFails, InRange
  <2>2. /\ conn' = [conn EXCEPT ![Pair(k)] = "idle"] /\ conn[Pair(k)] \in Failed
        /\ Entry(job.scan, {a}, p, "connect_failed") \in ledger' /\ job' = job
    BY <1>0, <1>5 DEF ProbeFails, RecordFailed
  <2>3. LetsGo(k)
    BY <2>1, <2>2, ConnLetsGo
  <2> QED BY <1>5, <2>1, <2>2, <2>3 DEF ProbeFails, Observes, Failed
<1>6. CASE ProbeCloses(k) \/ ProbeUpgradeFails(k)
  <2>1. Running(k) /\ Pair(k) \in Pairs
    BY <1>6 DEF ProbeCloses, ProbeUpgradeFails, InRange
  <2>2. /\ conn' = [conn EXCEPT ![Pair(k)] = "idle"] /\ conn[Pair(k)] = "held"
        /\ ledger' = ledger /\ job' = job
    BY <1>0, <1>6 DEF ProbeCloses, ProbeUpgradeFails, Close, tableVars
  <2>3. LetsGo(k)
    BY <2>1, <2>2, ConnLetsGo
  <2> QED BY <1>6, <2>1, <2>2, <2>3 DEF ProbeCloses, ProbeUpgradeFails, Observes
<1>7. CASE ProbeBreaks(k)
  <2>1. Running(k) /\ Pair(k) \in Pairs
    BY <1>7 DEF ProbeBreaks, InRange
  <2>2. /\ job' = job
        /\ \E st \in {"idle", "dropped"} : conn' = [conn EXCEPT ![Pair(k)] = st]
    BY <1>0, <1>7 DEF ProbeBreaks, RecordLost, RecordInterrupted
  <2>3. LetsGo(k)
    BY <2>1, <2>2, ConnLetsGo
  <2> QED BY <1>7, <2>1, <2>2, <2>3 DEF ProbeBreaks, GivesUp
<1> QED BY <1>2, <1>3, <1>4, <1>5, <1>6, <1>7 DEF ProbeStep

\* What Advance makes of a connection.
LEMMA AdvanceIs ==
  ASSUME NEW k \in DOMAIN tasks, NEW c \in {"held", "refused", "silent"}, Advance(k, c)
  PROVE  \/ /\ Len(tasks[k].ports) > 1 /\ GoOn(k)
            /\ mod.name = "host_discovery" => c = "silent"
         \/ \E out \in PortStates \cup {"found", "silent"} :
              /\ Settle(k, out)
              /\ mod.name = "port_scan" => out = IF c = "held" THEN "open"
                                                 ELSE IF c = "refused" THEN "closed" ELSE "filtered"
              /\ mod.name = "host_discovery" =>
                   \/ out = "found"
                   \/ out = "silent" /\ c = "silent" /\ ~ (Len(tasks[k].ports) > 1)
<1> DEFINE more == /\ Len(tasks[k].ports) > 1
                   /\ mod.name = "host_discovery" => Answer(mod.name, c) = "silent"
                   /\ mod.name = "protocol_enum" => c = "held"
<1>1. CASE more
  <2>1. GoOn(k)
    BY <1>1 DEF Advance
  <2>2. mod.name = "host_discovery" => c = "silent"
    BY <1>1 DEF Answer
  <2> QED BY <1>1, <2>1, <2>2
<1>2. CASE ~ more
  <2>1. Settle(k, IF SecondStream(k) THEN "found" ELSE Answer(mod.name, c))
    BY <1>2 DEF Advance
  <2>2. CASE mod.name = "port_scan"
    BY <2>1, <2>2 DEF Answer, SecondStream, PortStates
  <2>3. CASE mod.name = "host_discovery"
    BY <1>2, <2>1, <2>3 DEF Answer, SecondStream, PortStates
  <2>4. CASE mod.name \notin Sweeps
    BY <2>1, <2>4 DEF Answer, Sweeps
  <2> QED BY <2>2, <2>3, <2>4 DEF Sweeps
<1> QED BY <1>1, <1>2

\* A probe step keeps the list of probes: one of them changes its outcome or
\* drops its first port.
LEMMA ProbeList ==
  ASSUME TypeOK, ModTypeOK, NEW k \in DOMAIN tasks, ProbeStep(k)
  PROVE  /\ tasks' \in Seq(TaskRecord) /\ DOMAIN tasks' = DOMAIN tasks
         /\ \A j \in DOMAIN tasks : j # k => tasks'[j] = tasks[j]
<1>1. ASSUME NEW out \in Outcomes, Settle(k, out)
      PROVE  /\ tasks' \in Seq(TaskRecord) /\ DOMAIN tasks' = DOMAIN tasks
             /\ \A j \in DOMAIN tasks : j # k => tasks'[j] = tasks[j]
  BY <1>1, SettleIs
<1>2. CASE Asks(k)
  BY <1>2 DEF Asks, ModTypeOK
<1>3. CASE GivesUp(k)
  BY <1>1, <1>3 DEF GivesUp, Outcomes, Unobserved
<1>4. CASE Observes(k)
  BY <1>1, <1>4, AdvanceIs, GoOnIs DEF Observes, Outcomes
<1> QED BY <1>2, <1>3, <1>4, ProbeEffects

\* The open ports that a module reports.
LEMMA OpenFindings ==
  ASSUME PortProbes, mod.pc = "run"
  PROVE  \A f \in Findings : f.kind = "port.open" => <<f.host, f.port>> \in Pairs
<1> SUFFICES ASSUME NEW f \in Findings, f.kind = "port.open" PROVE <<f.host, f.port>> \in Pairs
  OBVIOUS
<1>1. mod.name = "port_scan" /\ f \in PortFindings
  BY DEF Findings, LiveFindings
<1>2. PICK k \in DOMAIN tasks : /\ tasks[k].out = "open"
                                /\ f.host = tasks[k].addr /\ f.port = Pair(k)[2]
  <2>1. PICK a \in Observed : f = Summary(a) \/ \E p \in PortsThat(a, "open") : f = OpenFinding(a, p)
    BY <1>1 DEF PortFindings
  <2>2. PICK p \in PortsThat(a, "open") : f.host = a /\ f.port = p
    BY <2>1 DEF Summary, OpenFinding
  <2> QED BY <2>2 DEF PortsThat
<1>3. Pair(k) \in Pairs
  BY <1>1, <1>2 DEF PortProbes, PortProbe, OnRecord, Is
<1> QED BY <1>2, <1>3 DEF Pair

-----------------------------------------------------------------------------
(* The invariant of the modules *)

LEMMA StartIs ==
  ASSUME TypeOK, ModTypeOK, StartModule
  PROVE  /\ plan' \in PlanRecord /\ plan'.ports = plan.ports /\ plan'.discovery = plan.discovery
         /\ mod' = [name |-> mod'.name, pc |-> mod'.pc, base |-> 0, warned |-> mod'.warned]
         /\ mod'.name \in ModuleNames /\ mod'.warned \in BOOLEAN
         /\ tasks' \in Fresh
         /\ \/ mod'.pc = "failed" /\ tasks' = <<>>
            \/ /\ mod'.pc = "run" /\ ~ CannotRun(mod'.name)
               /\ tasks' \in TasksOf(mod'.name)
<1>1. plan.left \in Seq(ModuleNames) /\ plan.left # <<>> /\ plan \in PlanRecord
  BY DEF ModTypeOK, PlanRecord, StartModule
<1>2. PICK name \in ModuleNames : name = Head(plan.left)
  BY <1>1
<1>3. plan' \in PlanRecord /\ plan'.ports = plan.ports /\ plan'.discovery = plan.discovery
  <2>1. plan' = [plan EXCEPT !.left = Tail(plan.left)] /\ Tail(plan.left) \in Seq(ModuleNames)
    BY <1>1 DEF StartModule
  <2> QED BY <1>1, <2>1 DEF PlanRecord
<1>4. CASE CannotRun(name)
  <2>1. mod' = [NoModule EXCEPT !.name = name, !.pc = "failed"] /\ tasks' = <<>>
    BY <1>2, <1>4 DEF StartModule
  <2>2. tasks' \in Fresh
    BY <2>1 DEF Fresh
  <2> QED BY <1>3, <2>1, <2>2 DEF NoModule
<1>5. CASE ~ CannotRun(name)
  <2>1. /\ mod' = [NoModule EXCEPT !.name = name, !.pc = "run",
                                   !.warned = name \in FollowUps /\ open = {}]
        /\ tasks' \in TasksOf(name)
    BY <1>2, <1>5 DEF StartModule
  <2>2. mod'.name = name
    BY <2>1 DEF NoModule
  <2>3. tasks' \in Fresh
    BY <1>5, <2>1, TasksAre
  <2> QED BY <1>3, <1>5, <2>1, <2>2, <2>3 DEF NoModule
<1> QED BY <1>4, <1>5

LEMMA ModTypeStep ==
  ASSUME TypeOK, ProbeInv, [ModNext]_allVars
  PROVE  ModTypeOK'
<1> USE DEF ProbeInv, ModTypeOK
<1>0. /\ NoPlan \in PlanRecord
      /\ NoModule \in [name : ModuleNames \cup {"none"},
                       pc : {"none", "run", "stopping", "done", "failed"}, base : Nat, warned : BOOLEAN]
      /\ <<>> \in Seq(TaskRecord)
  BY DEF NoPlan, PlanRecord, NoModule
<1>1. CASE UNCHANGED modVars
  BY <1>1 DEF modVars, Pairs
<1>2. CASE BeginModules
  <2>1. job.target \in Targets
    BY <1>2 DEF BeginModules, DispatchValidated, TypeOK
  <2>2. plan' \in PlanRecord
    BY <1>0, <1>2, <2>1, ProbeModulesAssumption DEF BeginModules
  <2> QED BY <1>2, <2>2 DEF BeginModules, Pairs
<1>3. CASE RequestCancel \/ WatchCancel
  BY <1>3 DEF RequestCancel, WatchCancel, Pairs
<1>4. CASE StartModule
  <2>1. tasks' \in Seq(TaskRecord)
    BY <1>4, StartIs DEF Fresh
  <2>2. mod' \in [name : ModuleNames \cup {"none"},
                  pc : {"none", "run", "stopping", "done", "failed"}, base : Nat, warned : BOOLEAN]
    BY <1>4, StartIs
  <2> QED BY <1>4, <2>1, <2>2, StartIs DEF StartModule, Pairs
<1>5. CASE ModuleTimeout \/ TimedOut
  BY <1>5 DEF ModuleTimeout, TimedOut, Pairs
<1>6. CASE SettleModule \/ FinishScan \/ RestartAll
  BY <1>0, <1>6 DEF SettleModule, FinishScan, RestartAll, Pairs
<1>7. ASSUME NEW k \in DOMAIN tasks, ProbeStep(k) PROVE ModTypeOK'
  <2>1. UNCHANGED <<plan, mod, open, cancel, flag>>
    BY <1>7, ProbeEffects
  <2> QED BY <1>7, <2>1, ProbeList DEF Pairs
<1>8. CASE WaveEnds
  <2>1. CASE mod' = [mod EXCEPT !.base = @ + WaveSize, !.warned = WaveWarns] /\ UNCHANGED <<plan, tasks, cancel, flag>>
    <3>1. mod.base + WaveSize \in Nat /\ WaveWarns \in BOOLEAN
      BY ProbeModulesAssumption DEF WaveWarns
    <3>2. mod' \in [name : ModuleNames \cup {"none"},
                    pc : {"none", "run", "stopping", "done", "failed"}, base : Nat, warned : BOOLEAN]
      BY <2>1, <3>1
    <3> QED BY <1>8, <2>1, <3>2 DEF WaveEnds, Pairs
  <2>2. CASE mod' = [mod EXCEPT !.pc = "failed"] /\ UNCHANGED <<plan, tasks, cancel, flag>>
    BY <1>8, <2>2 DEF WaveEnds, Pairs
  <2>3. CASE mod' = NoModule /\ tasks' = <<>> /\ plan' = NoPlan /\ UNCHANGED <<cancel, flag>>
    BY <1>0, <1>8, <2>3 DEF WaveEnds, Pairs
  <2> QED BY <1>8, <2>1, <2>2, <2>3 DEF WaveEnds
<1>9. CASE ModuleReturns
  <2>1. open' \subseteq Pairs
    BY <1>9, OpenFindings DEF ModuleReturns
  <2> QED BY <1>9, <2>1 DEF ModuleReturns, Pairs
<1>10. ASSUME NEW c \in Pairs, ProbeBegins(c) \/ ProbeAnswered(c) \/ ProbeStopped(c) PROVE UNCHANGED modVars
  BY <1>10 DEF ProbeBegins, ProbeAnswered, ProbeStopped
<1>11. UNCHANGED allVars => UNCHANGED modVars
  BY DEF allVars
<1> QED
  BY <1>1, <1>2, <1>3, <1>4, <1>5, <1>6, <1>7, <1>8, <1>9, <1>10, <1>11 DEF ModNext

\* The steps that leave the module alone.
LEMMA UnnoticedKinds ==
  ASSUME [ModNext]_allVars
  PROVE  \/ UNCHANGED modVars
         \/ BeginModules \/ RequestCancel \/ StartModule \/ WatchCancel
         \/ ModuleTimeout \/ TimedOut \/ SettleModule \/ FinishScan \/ RestartAll
         \/ \E k \in DOMAIN tasks : ProbeStep(k)
         \/ WaveEnds \/ ModuleReturns
BY DEF ModNext, allVars, ProbeBegins, ProbeAnswered, ProbeStopped

\* While a module runs, execute_scan stays where it is.
LEMMA JobStays ==
  ASSUME TypeOK, ModTypeOK, RunsInScan, [ModNext]_allVars, mod.pc # "none", mod'.pc # "none"
  PROVE  job' = job
<1>0. job.pc = "running"
  BY DEF RunsInScan
<1>1. CASE Around
  BY <1>0, <1>1 DEF Around, Edit, CreateScope, UpdateScope, DeleteScopeRead, DeleteScopeCommit, Rebind,
       DeleteScan, Request, RequestLoad, RequestResolve, RequestRecords, RequestValidated, RequestRefused,
       RequestInsert, Dispatch, DispatchResolve, DispatchRecords, DispatchRefused
<1>2. CASE BeginModules
  BY <1>0, <1>2 DEF BeginModules, DispatchValidated
<1>3. CASE RequestCancel \/ StartModule \/ WatchCancel \/ ModuleTimeout \/ TimedOut \/ SettleModule
           \/ ModuleReturns
  BY <1>3 DEF RequestCancel, StartModule, WatchCancel, ModuleTimeout, TimedOut, SettleModule,
              ModuleReturns, vars
<1>4. CASE FinishScan \/ RestartAll
  BY <1>4 DEF FinishScan, RestartAll, NoModule
<1>5. ASSUME NEW k \in DOMAIN tasks, ProbeStep(k) PROVE job' = job
  BY <1>5, ProbeEffects
<1>6. ASSUME NEW c \in Pairs, ProbeBegins(c) \/ ProbeAnswered(c) \/ ProbeStopped(c) PROVE job' = job
  BY <1>6 DEF ProbeBegins, ProbeAnswered, ProbeStopped, ConnectBegins, ConnectAbandoned, ConnectAnswered, RecordOpened, RecordFailed, RecordLost,
              RecordInterrupted, Close
<1>7. CASE WaveEnds
  BY <1>7 DEF WaveEnds, NoModule, vars
<1>8. CASE UNCHANGED allVars
  BY <1>8 DEF allVars, vars
<1> QED BY <1>1, <1>2, <1>3, <1>4, <1>5, <1>6, <1>7, <1>8 DEF ModNext

LEMMA RunsStep ==
  ASSUME TypeOK, ModTypeOK, RunsInScan, [ModNext]_allVars
  PROVE  RunsInScan'
<1> SUFFICES ASSUME mod'.pc # "none" PROVE job'.pc = "running"
  BY DEF RunsInScan
<1>1. CASE mod.pc # "none"
  BY <1>1, JobStays DEF RunsInScan
<1>2. CASE mod.pc = "none"
  <2>1. ASSUME mod' = mod PROVE FALSE
    BY <1>2, <2>1
  <2>2. ASSUME NEW k \in DOMAIN tasks, ProbeStep(k) PROVE FALSE
    BY <1>2, <2>2, ProbeEffects DEF Running
  <2>3. ASSUME UNCHANGED modVars \/ BeginModules \/ RequestCancel PROVE FALSE
    BY <2>1, <2>3 DEF modVars, BeginModules, RequestCancel
  <2>4. ASSUME WatchCancel \/ ModuleTimeout \/ TimedOut \/ WaveEnds \/ ModuleReturns PROVE FALSE
    BY <1>2, <2>4 DEF WatchCancel, ModuleTimeout, TimedOut, WaveEnds, ModuleReturns
  <2>5. ASSUME SettleModule \/ FinishScan \/ RestartAll PROVE FALSE
    BY <2>5 DEF SettleModule, FinishScan, RestartAll, NoModule
  <2>6. StartModule
    BY <2>2, <2>3, <2>4, <2>5, UnnoticedKinds
  <2> QED BY <2>6 DEF StartModule, vars
<1> QED BY <1>1, <1>2

\* Only a module that runs or is being stopped has connections.
LEMMA OwnedIsQuiet ==
  ASSUME ConnectionsOwned, mod.pc # "stopping", \A k \in DOMAIN tasks : ~ Running(k)
  PROVE  Quiet
BY DEF ConnectionsOwned, Quiet, Free

LEMMA OwnedStep ==
  ASSUME TypeOK, ModTypeOK, ConnectionsOwned, [ModNext]_allVars
  PROVE  ConnectionsOwned'
<1>1. ASSUME conn' = conn, mod' = mod, tasks' = tasks PROVE ConnectionsOwned'
  BY <1>1 DEF ConnectionsOwned, Running, Pair, Pairs
<1>2. ASSUME Quiet, conn' = conn PROVE ConnectionsOwned'
  BY <1>2 DEF Quiet, Free, ConnectionsOwned, Pairs
<1>3. ASSUME conn' = Settled PROVE ConnectionsOwned'
  BY <1>3 DEF Settled, ConnectionsOwned, Pairs
<1>4. ASSUME mod'.pc = "stopping" PROVE ConnectionsOwned'
  BY <1>4 DEF ConnectionsOwned, Pairs
<1>5. CASE Around /\ UNCHANGED modVars
  <2>1. conn' = conn
    BY <1>5, ConnUnchanged DEF Around, Execute
  <2> QED BY <1>1, <1>5, <2>1 DEF modVars
<1>6. CASE BeginModules
  BY <1>1, <1>6 DEF BeginModules, DispatchValidated
<1>7. CASE RequestCancel \/ WatchCancel \/ UNCHANGED allVars
  BY <1>1, <1>7 DEF RequestCancel, WatchCancel, allVars, modVars, vars
<1>8. CASE StartModule \/ SettleModule
  <2>1. mod.pc \notin {"run", "stopping"} /\ conn' = conn
    BY <1>8 DEF StartModule, SettleModule, vars
  <2>2. Quiet
    BY <2>1, OwnedIsQuiet DEF Running
  <2> QED BY <1>2, <2>1, <2>2
<1>9. CASE ModuleTimeout
  BY <1>4, <1>9 DEF ModuleTimeout, ModTypeOK
<1>10. CASE TimedOut
  BY <1>2, <1>10 DEF TimedOut, vars
<1>11. CASE FinishScan \/ RestartAll
  BY <1>3, <1>11 DEF FinishScan, ScanEnds, RestartAll, Restart
<1>12. ASSUME NEW k \in DOMAIN tasks, ProbeStep(k) PROVE ConnectionsOwned'
  <2>1. mod' = mod /\ mod.pc = "run" /\ Running(k)
    BY <1>12, ProbeEffects DEF Running
  <2>2. DOMAIN tasks' = DOMAIN tasks /\ \A j \in DOMAIN tasks : j # k => tasks'[j] = tasks[j]
    BY <1>12, ProbeList
  <2>3. \A j \in DOMAIN tasks : j # k /\ Running(j) => Running(j)' /\ Pair(j)' = Pair(j)
    BY <2>1, <2>2 DEF Running, Pair
  <2>4. CASE Asks(k)
    <3>1. \A j \in DOMAIN tasks : Running(j) => Running(j)' /\ Pair(j)' = Pair(j)
      BY <2>1, <2>4 DEF Asks, Running, Pair
    <3> SUFFICES ASSUME NEW c \in Pairs, conn'[c] \notin {"idle", "dropped"}
                 PROVE  \E j \in DOMAIN tasks : Running(j) /\ Pair(j) = c
      BY <2>2, <3>1 DEF ConnectionsOwned, Pairs
    <3>2. CASE c = Pair(k)
      BY <2>1, <3>2
    <3>3. CASE c # Pair(k)
      <4>1. conn'[c] = conn[c]
        BY <2>4, <3>3 DEF Asks, TypeOK
      <4> QED BY <2>1, <4>1 DEF ConnectionsOwned
    <3> QED BY <3>2, <3>3
  <2>5. CASE LetsGo(k)
    <3> SUFFICES ASSUME NEW c \in Pairs, conn'[c] \notin {"idle", "dropped"}
                 PROVE  \E j \in DOMAIN tasks : j # k /\ Running(j) /\ Pair(j) = c
      BY <2>2, <2>3 DEF ConnectionsOwned, Pairs
    <3> QED BY <2>1, <2>5 DEF LetsGo, ConnectionsOwned
  <2> QED BY <1>12, <2>4, <2>5, ProbeEffects DEF GivesUp, Observes
<1>13. ASSUME NEW c \in Pairs, ProbeBegins(c) \/ ProbeAnswered(c) PROVE ConnectionsOwned'
  <2>1. /\ mod' = mod /\ tasks' = tasks /\ conn[c] \in {"waiting", "connecting", "opened"}
        /\ \E st : conn' = [conn EXCEPT ![c] = st]
    <3>1. c = <<c[1], c[2]>>
      BY DEF Pairs
    <3> QED BY <1>13, <3>1 DEF ProbeBegins, ProbeAnswered, ConnectBegins, ConnectAnswered, RecordOpened, modVars
  <2>2. \A d \in Pairs : conn'[d] \notin {"idle", "dropped"} => conn[d] \notin {"idle", "dropped"}
    BY <2>1 DEF TypeOK
  <2> QED BY <2>1, <2>2 DEF ConnectionsOwned, Running, Pair, Pairs
<1>14. ASSUME NEW c \in Pairs, ProbeStopped(c) PROVE ConnectionsOwned'
  BY <1>4, <1>14 DEF ProbeStopped, modVars
<1>15. CASE WaveEnds
  <2>1. Quiet
    <3>1. mod.pc # "stopping" /\ \A k \in DOMAIN tasks : ~ Running(k)
      BY <1>15 DEF WaveEnds, Wave, Running
    <3> QED BY <3>1, OwnedIsQuiet
  <2>2. conn' = conn \/ conn' = Settled
    BY <1>15 DEF WaveEnds, LoopDies, vars
  <2> QED BY <1>2, <1>3, <2>1, <2>2
<1>16. CASE ModuleReturns
  <2>1. mod.pc # "stopping" /\ conn' = conn /\ \A k \in DOMAIN tasks : ~ Running(k)
    BY <1>16 DEF ModuleReturns, Wave, Running, vars
  <2> QED BY <1>2, <2>1, OwnedIsQuiet
<1> QED
  BY <1>5, <1>6, <1>7, <1>8, <1>9, <1>10, <1>11, <1>12, <1>13, <1>14, <1>15, <1>16 DEF ModNext

LEMMA WavesStep ==
  ASSUME TypeOK, ModTypeOK, WavesComplete, [ModNext]_allVars
  PROVE  WavesComplete'
<1>0. DOMAIN tasks = 1..Len(tasks) /\ mod.base \in Nat /\ WaveSize \in Nat \ {0}
  BY ProbeModulesAssumption DEF ModTypeOK
<1>1. ASSUME mod' = mod, tasks' = tasks, flag => flag' PROVE WavesComplete'
  BY <1>1 DEF WavesComplete
<1>2. ASSUME mod'.pc \notin {"run", "done"} PROVE WavesComplete'
  BY <1>2 DEF WavesComplete
<1>3. CASE UNCHANGED modVars \/ BeginModules \/ RequestCancel \/ WatchCancel
  BY <1>1, <1>3 DEF modVars, BeginModules, RequestCancel, WatchCancel
<1>4. CASE StartModule
  <2>1. mod'.base = 0 /\ mod'.pc # "done" /\ tasks' \in Seq(TaskRecord)
    BY <1>4, StartIs DEF Fresh
  <2>2. \A k \in DOMAIN tasks' : tasks'[k].out = "run" /\ ~ (k <= mod'.base)
    BY <1>4, <2>1, StartIs DEF Fresh
  <2> QED BY <2>1, <2>2 DEF WavesComplete
<1>5. CASE ModuleTimeout \/ TimedOut \/ SettleModule \/ FinishScan \/ RestartAll
  BY <1>2, <1>5
     DEF ModuleTimeout, TimedOut, SettleModule, FinishScan, RestartAll, NoModule, ModTypeOK
<1>6. ASSUME NEW k \in DOMAIN tasks, ProbeStep(k) PROVE WavesComplete'
  <2>1. /\ mod' = mod /\ flag' = flag /\ mod.pc = "run"
        /\ k > mod.base /\ tasks[k].out = "run"
    BY <1>6, ProbeEffects DEF Running
  <2>2. DOMAIN tasks' = DOMAIN tasks /\ \A j \in DOMAIN tasks : j # k => tasks'[j] = tasks[j]
    BY <1>6, ProbeList
  <2>3. tasks'[k].out = "untested" => flag
    <3>1. CASE Asks(k)
      BY <2>1, <3>1 DEF Asks
    <3>2. CASE GivesUp(k)
      BY <3>2, SettleIs DEF GivesUp, Outcomes, Unobserved
    <3>3. CASE Observes(k)
      <4>1. CASE GoOn(k) /\ Len(tasks[k].ports) > 1
        BY <2>1, <4>1, GoOnIs
      <4>2. CASE \E out \in PortStates \cup {"found", "silent"} : Settle(k, out)
        BY <4>2, SettleIs DEF Outcomes, PortStates
      <4> QED BY <3>3, <4>1, <4>2, AdvanceIs DEF Observes
    <3> QED BY <1>6, <3>1, <3>2, <3>3, ProbeEffects
  <2>4. ~ (k <= mod.base)
    BY <1>0, <2>1
  <2> QED BY <2>1, <2>2, <2>3, <2>4 DEF WavesComplete
<1>7. CASE WaveEnds
  <2>1. CASE mod'.pc \notin {"run", "done"}
    BY <1>2, <2>1
  <2>2. CASE mod'.pc \in {"run", "done"}
    <3>1. /\ mod' = [mod EXCEPT !.base = @ + WaveSize, !.warned = WaveWarns]
          /\ Outs(Wave) \cap {"rejected", "broken"} = {} /\ tasks' = tasks /\ flag' = flag
      BY <1>7, <2>2 DEF WaveEnds, NoModule, ModTypeOK
    <3>2. mod.pc = "run" /\ \A k \in Wave : tasks[k].out # "run"
      BY <1>7 DEF WaveEnds
    <3>3. mod'.base = mod.base + WaveSize /\ mod'.pc = "run" /\ mod'.warned = WaveWarns
      BY <3>1, <3>2 DEF ModTypeOK
    <3>4. ASSUME NEW k \in DOMAIN tasks, k <= mod'.base
          PROVE  tasks[k].out \notin {"run", "rejected", "broken"} /\ (tasks[k].out = "budget" => WaveWarns)
      <4>1. CASE k <= mod.base
        BY <3>2, <4>1 DEF WavesComplete, WaveWarns
      <4>2. CASE k > mod.base
        <5>1. k \in Wave
          BY <3>3, <3>4, <4>2 DEF Wave
        <5>2. tasks[k].out \in Outs(Wave)
          BY <5>1 DEF Outs
        <5> QED BY <3>1, <3>2, <5>1, <5>2 DEF WaveWarns
      <4> QED BY <1>0, <4>1, <4>2
    <3> QED BY <3>1, <3>2, <3>3, <3>4 DEF WavesComplete
  <2> QED BY <2>1, <2>2
<1>8. CASE ModuleReturns
  <2>1. /\ mod.pc = "run" /\ mod' = [mod EXCEPT !.pc = "done"] /\ Wave = {}
        /\ tasks' = tasks /\ flag' = flag
    BY <1>8 DEF ModuleReturns
  <2>2. mod'.base = mod.base /\ mod'.warned = mod.warned
    BY <2>1 DEF ModTypeOK
  <2>3. \A k \in DOMAIN tasks : k <= mod.base
    <3>1. mod.base + 1 \notin DOMAIN tasks
      BY <1>0, <2>1 DEF Wave
    <3> QED BY <1>0, <3>1
  <2> QED BY <2>1, <2>2, <2>3 DEF WavesComplete
<1> QED BY <1>3, <1>4, <1>5, <1>6, <1>7, <1>8, UnnoticedKinds

\* The rows of the scan that runs stay for as long as the scan does.
LEMMA RecordKept ==
  ASSUME GuardInv, [Next]_vars, job.pc = "running", job' = job, Exists(job.scan)'
  PROVE  Exists(job.scan) /\ \A e \in ledger : e.scan = job.scan => e \in ledger'
<1>1. job.scan \in Scans /\ scans[job.scan].status # "none" /\ TypeOK /\ RequestInv
  BY DEF GuardInv, JobInv, TypeOK
<1>2. Exists(job.scan)
  <2>1. ScanMove(job.scan)
    BY <1>1, ScanMoves
  <2> QED BY <1>1, <2>1 DEF ScanMove, Exists
<1>3. ~ DeleteScan(job.scan)
  BY <1>1 DEF DeleteScan, Exists, TypeOK, ScanRow
<1> QED BY <1>2, <1>3, LedgerKept

LEMMA PortsKept ==
  ASSUME GuardInv, [Next]_vars, job.pc = "running", job' = job, Exists(job.scan)',
         NEW a, NEW outcomes
  PROVE  PortsOf(a, outcomes) \subseteq PortsOf(a, outcomes)'
<1> SUFFICES ASSUME NEW p \in Ports, NEW o \in outcomes, Entry(job.scan, {a}, p, o) \in ledger
             PROVE  Entry(job.scan, {a}, p, o) \in ledger'
  BY DEF PortsOf, Entry
<1>1. Entry(job.scan, {a}, p, o).scan = job.scan
  BY DEF Entry
<1> QED BY <1>1, RecordKept

LEMMA OnRecordKept ==
  ASSUME GuardInv, [Next]_vars, job.pc = "running", job' = job, NEW k, NEW outcomes,
         tasks'[k].addr = tasks[k].addr, tasks'[k].ports = tasks[k].ports, OnRecord(k, outcomes)
  PROVE  OnRecord(k, outcomes)'
<1>1. Pair(k)' = Pair(k)
  BY DEF Pair
<1>2. ASSUME Exists(job.scan)' PROVE Pair(k)[2] \in PortsOf(tasks[k].addr, outcomes)'
  <2>1. Pair(k)[2] \in PortsOf(tasks[k].addr, outcomes)
    BY <1>2, RecordKept DEF OnRecord
  <2>2. PICK a : a = tasks[k].addr
    OBVIOUS
  <2> QED BY <1>2, <2>1, <2>2, PortsKept DEF PortsOf
<1>3. Pair(k)' \in Pairs
  BY <1>1 DEF OnRecord
<1> QED BY <1>1, <1>2, <1>3 DEF OnRecord, PortsOf, Pairs

\* port_scan, from one step to the next.
LEMMA PortCarries ==
  ASSUME GuardInv, [Next]_vars, PortProbes, Is("port_scan"), job.pc = "running", job' = job,
         plan' = plan, DOMAIN tasks' = DOMAIN tasks,
         \A j \in DOMAIN tasks : /\ tasks'[j].addr = tasks[j].addr /\ tasks'[j].ports = tasks[j].ports
                                 /\ tasks'[j].out = tasks[j].out \/ PortProbe(j)'
  PROVE  PortProbes'
<1>1. TargetAddresses' = TargetAddresses /\ ElementsOf(plan.ports)' = ElementsOf(plan.ports) /\ BadPorts' = BadPorts
  BY DEF TargetAddresses, ElementsOf, BadPorts
<1>2. \A j \in DOMAIN tasks : Pair(j)' = Pair(j)
  BY DEF Pair
<1>3. ASSUME NEW k \in DOMAIN tasks PROVE PortProbe(k)'
  <2>1. CASE tasks'[k].out = tasks[k].out
    <3>1. PortProbe(k)
      BY DEF PortProbes
    <3>2. /\ tasks[k].out = "open" => OnRecord(k, {"connected"})'
          /\ tasks[k].out \in {"closed", "filtered"} => OnRecord(k, {"connect_failed"})'
      BY <3>1, OnRecordKept DEF PortProbe
    <3> QED BY <1>1, <1>2, <2>1, <3>1, <3>2 DEF PortProbe
  <2> QED BY <2>1
<1> QED BY <1>1, <1>2, <1>3 DEF PortProbes

\* host_discovery, from one step to the next.
LEMMA HostCarries ==
  ASSUME GuardInv, [Next]_vars, HostProbes, Is("host_discovery"), job.pc = "running", job' = job,
         plan' = plan, DOMAIN tasks' = DOMAIN tasks,
         \A j \in DOMAIN tasks : /\ tasks'[j].addr = tasks[j].addr
                                 /\ tasks'[j] = tasks[j] \/ HostProbe(j)'
  PROVE  HostProbes'
<1>1. TargetAddresses' = TargetAddresses
  BY DEF TargetAddresses
<1>2. ASSUME NEW k \in DOMAIN tasks PROVE HostProbe(k)'
  <2>1. CASE tasks'[k] = tasks[k]
    <3>1. HostProbe(k)
      BY DEF HostProbes
    <3>2. /\ tasks[k].out = "found" => OnRecord(k, {"connected", "connect_failed"})'
          /\ tasks[k].out = "silent" => OnRecord(k, {"connect_failed"})'
      BY <2>1, <3>1, OnRecordKept DEF HostProbe
    <3>3. ASSUME Exists(job.scan)'
          PROVE  ElementsOf(plan.discovery) \subseteq
                   ElementsOf(tasks[k].ports) \cup PortsOf(tasks[k].addr, {"connect_failed"})'
      <4>1. Exists(job.scan)
        BY <3>3, RecordKept
      <4>2. PICK a : a = tasks[k].addr
        OBVIOUS
      <4>3. PortsOf(a, {"connect_failed"}) \subseteq PortsOf(a, {"connect_failed"})'
        BY <3>3, PortsKept
      <4> QED BY <2>1, <3>1, <4>1, <4>2, <4>3 DEF HostProbe, PortsOf
    <3>4. (Exists(job.scan) =>
             ElementsOf(plan.discovery) \subseteq
               ElementsOf(tasks[k].ports) \cup PortsOf(tasks[k].addr, {"connect_failed"}))'
      <4>1. ElementsOf(plan.discovery)' = ElementsOf(plan.discovery)
        BY DEF ElementsOf
      <4>2. ElementsOf(tasks[k].ports)' = ElementsOf(tasks[k].ports)
        BY <2>1 DEF ElementsOf
      <4> QED BY <3>3, <4>1, <4>2
    <3> QED BY <2>1, <3>1, <3>2, <3>4 DEF HostProbe
  <2> QED BY <2>1
<1> QED BY <1>1, <1>2 DEF HostProbes

\* A row of the ledger puts a probe on record.
LEMMA RowIsRecord ==
  ASSUME job' = job, NEW k, Pair(k) \in Pairs,
         tasks'[k].addr = tasks[k].addr, tasks'[k].ports = tasks[k].ports,
         NEW outcomes, NEW o \in outcomes,
         Exists(job.scan)' => Entry(job.scan, {tasks[k].addr}, Head(tasks[k].ports), o) \in ledger'
  PROVE  OnRecord(k, outcomes)'
<1>1. Pair(k)' = Pair(k) /\ Pair(k) = <<tasks[k].addr, Head(tasks[k].ports)>>
  BY DEF Pair
<1>2. Head(tasks[k].ports) \in Ports /\ Pair(k)[2] = Head(tasks[k].ports)
  BY <1>1 DEF Pairs
<1>3. Pair(k)' \in Pairs'
  BY <1>1 DEF Pairs
<1>4. ASSUME Exists(job.scan)' PROVE Pair(k)[2]' \in PortsOf(tasks[k].addr, outcomes)'
  <2>1. Entry(job.scan, {tasks[k].addr}, Head(tasks[k].ports), o)' \in ledger'
    BY <1>4 DEF Entry
  <2>2. Head(tasks[k].ports)' = Head(tasks[k].ports) /\ Pair(k)[2]' = Head(tasks[k].ports)
    BY <1>1, <1>2
  <2>3. Entry(job.scan, {tasks[k].addr}, Head(tasks[k].ports), o)' = Entry(job.scan', {tasks[k].addr}', Head(tasks[k].ports), o)
    BY <2>2 DEF Entry
  <2> QED BY <1>2, <2>1, <2>2, <2>3 DEF PortsOf
<1> QED BY <1>3, <1>4 DEF OnRecord

\* A connection that a module held, or that failed, is on record.
LEMMA Observed_OnRecord ==
  ASSUME GuardInv, [Next]_vars, job.pc = "running", job' = job, NEW k, Pair(k) \in Pairs,
         tasks'[k].addr = tasks[k].addr, tasks'[k].ports = tasks[k].ports, NEW c,
         \/ c = "held" /\ conn[Pair(k)] = "held" /\ ledger' = ledger
         \/ /\ c \in Failed
            /\ Entry(job.scan, {tasks[k].addr}, Head(tasks[k].ports), "connect_failed") \in ledger'
  PROVE  /\ OnRecord(k, {"connected", "connect_failed"})'
         /\ c = "held" => OnRecord(k, {"connected"})'
         /\ c # "held" => OnRecord(k, {"connect_failed"})'
<1>1. Pair(k) = <<tasks[k].addr, Head(tasks[k].ports)>>
  BY DEF Pair
<1>2. CASE c = "held"
  <2>1. conn[Pair(k)] = "held" /\ ledger' = ledger
    BY <1>2 DEF Failed
  <2>2. ASSUME Exists(job.scan)'
        PROVE  Entry(job.scan, {tasks[k].addr}, Head(tasks[k].ports), "connected") \in ledger'
    <3>1. Exists(job.scan)
      BY <2>2, RecordKept
    <3> QED BY <1>1, <2>1, <3>1 DEF GuardInv, HeldIsRecorded, Pairs
  <2>3. OnRecord(k, {"connected"})'
    BY <2>2, RowIsRecord
  <2>4. OnRecord(k, {"connected", "connect_failed"})'
    BY <2>2, RowIsRecord
  <2> QED BY <1>2, <2>3, <2>4
<1>3. CASE c # "held"
  <2>1. Entry(job.scan, {tasks[k].addr}, Head(tasks[k].ports), "connect_failed") \in ledger'
    BY <1>3
  <2>2. OnRecord(k, {"connect_failed"})'
    BY <2>1, RowIsRecord
  <2>3. OnRecord(k, {"connected", "connect_failed"})'
    BY <2>1, RowIsRecord
  <2> QED BY <1>3, <2>2, <2>3
<1> QED BY <1>2, <1>3

LEMMA PortProbeStep ==
  ASSUME GuardInv, [Next]_vars, ModTypeOK, PortProbes, Is("port_scan"), RunsInScan,
         NEW k \in DOMAIN tasks, ProbeStep(k)
  PROVE  PortProbes'
<1>0. TypeOK
  BY DEF GuardInv
<1>1. /\ plan' = plan /\ mod' = mod /\ job' = job /\ job.pc = "running"
      /\ Asks(k) \/ GivesUp(k) \/ Observes(k)
  BY <1>0, ProbeEffects DEF RunsInScan, Is
<1>2. Len(tasks[k].ports) = 1 /\ PortProbe(k)
  BY DEF PortProbes, PortProbe
<1>3. CASE Asks(k)
  <2>1. tasks' = tasks
    BY <1>3 DEF Asks
  <2> QED BY <1>1, <2>1, PortCarries
<1>4. ASSUME NEW out \in Outcomes, Settle(k, out),
             out \in Unobserved \cup PortStates,
             out = "open" => OnRecord(k, {"connected"})',
             out \in {"closed", "filtered"} => OnRecord(k, {"connect_failed"})'
      PROVE  PortProbes'
  <2>1. /\ DOMAIN tasks' = DOMAIN tasks /\ \A j \in DOMAIN tasks : j # k => tasks'[j] = tasks[j]
        /\ tasks'[k].addr = tasks[k].addr /\ tasks'[k].ports = tasks[k].ports /\ tasks'[k].out = out
    BY <1>4, SettleIs
  <2>2. TargetAddresses' = TargetAddresses /\ ElementsOf(plan.ports)' = ElementsOf(plan.ports) /\ Pair(k)' = Pair(k)
    BY <1>1, <2>1 DEF TargetAddresses, ElementsOf, Pair
  <2>3. PortProbe(k)'
    BY <1>2, <1>4, <2>1, <2>2 DEF PortProbe
  <2> QED BY <1>1, <2>1, <2>3, PortCarries
<1>5. CASE GivesUp(k)
  BY <1>4, <1>5 DEF GivesUp, Outcomes, Unobserved
<1>6. CASE Observes(k)
  <2>1. PICK c \in {"held", "refused", "silent"} :
          /\ Advance(k, c)
          /\ \/ c = "held" /\ conn[Pair(k)] = "held" /\ ledger' = ledger
             \/ /\ c \in Failed
                /\ Entry(job.scan, {tasks[k].addr}, Head(tasks[k].ports), "connect_failed") \in ledger'
    BY <1>6 DEF Observes, Is, FollowUps
  <2>2. PICK out \in PortStates : /\ Settle(k, out)
                                  /\ out = "open" <=> c = "held"
    <3>1. ~ (Len(tasks[k].ports) > 1)
      BY <1>2
    <3>2. mod.name = "port_scan"
      BY DEF Is
    <3> QED BY <2>1, <3>1, <3>2, AdvanceIs DEF PortStates
  <2>3. tasks'[k].addr = tasks[k].addr /\ tasks'[k].ports = tasks[k].ports
    BY <2>2, SettleIs DEF Outcomes
  <2>4. (c = "held" => OnRecord(k, {"connected"})') /\ (c # "held" => OnRecord(k, {"connect_failed"})')
    BY <1>1, <1>6, <2>1, <2>3, Observed_OnRecord DEF Observes
  <2> QED BY <1>4, <2>2, <2>4 DEF Outcomes, PortStates
<1> QED BY <1>1, <1>3, <1>5, <1>6


\* What a probe of host_discovery has before it, and what it has behind it.
Covered(k) ==
  Exists(job.scan) =>
    ElementsOf(plan.discovery) \subseteq
      ElementsOf(tasks[k].ports) \cup PortsOf(tasks[k].addr, {"connect_failed"})

LEMMA CoveredStep ==
  ASSUME GuardInv, [Next]_vars, job.pc = "running", job' = job, plan' = plan, NEW k, Covered(k),
         tasks'[k].addr = tasks[k].addr,
         \A p \in ElementsOf(tasks[k].ports) :
           \/ p \in ElementsOf(tasks'[k].ports)
           \/ p \in Ports /\ Entry(job.scan, {tasks[k].addr}, p, "connect_failed") \in ledger'
  PROVE  Covered(k)'
<1> SUFFICES ASSUME Exists(job.scan)', NEW p \in ElementsOf(plan.discovery)
             PROVE  p \in ElementsOf(tasks'[k].ports) \/ p \in PortsOf(tasks[k].addr, {"connect_failed"})'
  BY DEF Covered, ElementsOf
<1>1. Exists(job.scan)
  BY RecordKept
<1>2. PICK a : a = tasks[k].addr /\ a = tasks'[k].addr
  OBVIOUS
<1>3. PortsOf(a, {"connect_failed"}) \subseteq PortsOf(a, {"connect_failed"})'
  BY PortsKept
<1>4. PortsOf(tasks[k].addr, {"connect_failed"})' = PortsOf(a, {"connect_failed"})'
  BY <1>2 DEF PortsOf
<1>5. CASE p \in PortsOf(tasks[k].addr, {"connect_failed"})
  BY <1>2, <1>3, <1>4, <1>5
<1>6. CASE p \in Ports /\ Entry(job.scan, {tasks[k].addr}, p, "connect_failed") \in ledger'
  BY <1>2, <1>6 DEF PortsOf
<1> QED BY <1>1, <1>5, <1>6 DEF Covered

LEMMA HostProbeStep ==
  ASSUME GuardInv, [Next]_vars, ModTypeOK, HostProbes, Is("host_discovery"), RunsInScan,
         NEW k \in DOMAIN tasks, ProbeStep(k)
  PROVE  HostProbes'
<1>0. TypeOK
  BY DEF GuardInv
<1>1. /\ plan' = plan /\ mod' = mod /\ job' = job /\ job.pc = "running" /\ tasks[k].out = "run"
      /\ Asks(k) \/ GivesUp(k) \/ Observes(k)
  BY <1>0, ProbeEffects DEF RunsInScan, Is, Running
<1>2. HostProbe(k) /\ Covered(k) /\ tasks[k].ports # <<>>
  BY DEF HostProbes, HostProbe, Covered
<1>3. CASE Asks(k)
  <2>1. tasks' = tasks
    BY <1>3 DEF Asks
  <2> QED BY <1>1, <2>1, HostCarries
<1>4. ASSUME NEW out \in Outcomes, Settle(k, out),
             out \in Unobserved \cup {"found", "silent"},
             out = "found" => OnRecord(k, {"connected", "connect_failed"})',
             out = "silent" => Len(tasks[k].ports) = 1 /\ OnRecord(k, {"connect_failed"})'
      PROVE  HostProbes'
  <2>1. /\ DOMAIN tasks' = DOMAIN tasks /\ \A j \in DOMAIN tasks : j # k => tasks'[j] = tasks[j]
        /\ tasks'[k].addr = tasks[k].addr /\ tasks'[k].ports = tasks[k].ports /\ tasks'[k].out = out
    BY <1>4, SettleIs
  <2>2. Covered(k)'
    <3>1. ElementsOf(tasks'[k].ports) = ElementsOf(tasks[k].ports)
      BY <2>1
    <3>2. \A p \in ElementsOf(tasks[k].ports) :
            \/ p \in ElementsOf(tasks'[k].ports)
            \/ p \in Ports /\ Entry(job.scan, {tasks[k].addr}, p, "connect_failed") \in ledger'
      BY <3>1
    <3> QED BY <1>1, <1>2, <2>1, <3>2, CoveredStep
  <2>3. HostProbe(k)'
    BY <1>2, <1>4, <2>1, <2>2 DEF HostProbe, Covered
  <2> QED BY <1>1, <2>1, <2>3, HostCarries
<1>5. CASE GivesUp(k)
  BY <1>4, <1>5 DEF GivesUp, Outcomes, Unobserved
<1>6. CASE Observes(k)
  <2>1. PICK c \in {"held", "refused", "silent"} :
          /\ Advance(k, c)
          /\ \/ c = "held" /\ conn[Pair(k)] = "held" /\ ledger' = ledger
             \/ /\ c \in Failed
                /\ Entry(job.scan, {tasks[k].addr}, Head(tasks[k].ports), "connect_failed") \in ledger'
    BY <1>6 DEF Observes, Is, FollowUps
  <2>2. Pair(k) \in Pairs /\ mod.name = "host_discovery"
    BY <1>6 DEF Observes, Is
  <2>3. tasks[k].ports \in Seq(Ports \cup {NoPort})
    <3>1. tasks[k] \in TaskRecord
      BY DEF ModTypeOK
    <3> QED BY <3>1 DEF TaskRecord
  <2>4. CASE GoOn(k) /\ Len(tasks[k].ports) > 1 /\ c = "silent"
    <3>1. /\ DOMAIN tasks' = DOMAIN tasks /\ \A j \in DOMAIN tasks : j # k => tasks'[j] = tasks[j]
          /\ tasks'[k].addr = tasks[k].addr /\ tasks'[k].ports = Tail(tasks[k].ports)
          /\ tasks'[k].out = tasks[k].out
      BY <2>4, GoOnIs
    <3>2. Head(tasks[k].ports) \in Ports
      BY <2>2 DEF Pair, Pairs
    <3>3. \A p \in ElementsOf(tasks[k].ports) : p = Head(tasks[k].ports) \/ p \in ElementsOf(Tail(tasks[k].ports))
      <4> SUFFICES ASSUME NEW i \in DOMAIN tasks[k].ports, i # 1
                   PROVE  tasks[k].ports[i] \in ElementsOf(Tail(tasks[k].ports))
        BY <2>3, <2>4 DEF ElementsOf
      <4>1. i - 1 \in DOMAIN Tail(tasks[k].ports) /\ Tail(tasks[k].ports)[i - 1] = tasks[k].ports[i]
        BY <2>3, <2>4
      <4> QED BY <4>1 DEF ElementsOf
    <3>4. Entry(job.scan, {tasks[k].addr}, Head(tasks[k].ports), "connect_failed") \in ledger'
      BY <2>1, <2>4
    <3>5. Covered(k)'
      <4>1. \A p \in ElementsOf(tasks[k].ports) :
              \/ p \in ElementsOf(tasks'[k].ports)
              \/ p \in Ports /\ Entry(job.scan, {tasks[k].addr}, p, "connect_failed") \in ledger'
        <5>1. ElementsOf(tasks'[k].ports) = ElementsOf(Tail(tasks[k].ports))
          BY <3>1
        <5>2. \A p \in ElementsOf(tasks[k].ports) : p = Head(tasks[k].ports) \/ p \in ElementsOf(tasks'[k].ports)
          BY <3>3, <5>1
        <5> QED BY <3>2, <3>4, <5>2
      <4> QED BY <1>1, <1>2, <3>1, <4>1, CoveredStep
    <3>6. tasks'[k].ports # <<>>
      <4>1. PICK q \in Seq(Ports \cup {NoPort}) : q = tasks[k].ports /\ Len(q) > 1
        BY <2>3, <2>4
      <4>2. Tail(q) # <<>>
        <5>1. Len(q) \in Nat /\ DOMAIN Tail(q) = 1..(Len(q) - 1)
          BY <4>1
        <5>2. 1 \in DOMAIN Tail(q)
          BY <4>1, <5>1
        <5>3. DOMAIN <<>> = {}
          OBVIOUS
        <5> QED BY <5>2, <5>3, Zenon
      <4> QED BY <3>1, <4>1, <4>2
    <3>7. HostProbe(k)'
      BY <1>1, <3>1, <3>5, <3>6 DEF HostProbe, Covered, Unobserved
    <3> QED BY <1>1, <3>1, <3>7, HostCarries
  <2>5. Len(tasks[k].ports) > 1 \/ Len(tasks[k].ports) = 1
    <3>1. PICK n : n = Len(tasks[k].ports)
      OBVIOUS
    <3>2. n \in Nat /\ n # 0
      BY <1>2, <2>3, <3>1
    <3>3. n > 1 \/ n = 1
      BY <3>2
    <3> QED BY <3>1, <3>3, Zenon
  <2>6. ASSUME NEW out \in {"found", "silent"}, Settle(k, out),
               out = "silent" => c = "silent" /\ ~ (Len(tasks[k].ports) > 1)
        PROVE  HostProbes'
    <3>1. tasks'[k].addr = tasks[k].addr /\ tasks'[k].ports = tasks[k].ports
      BY <2>6, SettleIs DEF Outcomes
    <3>2. /\ OnRecord(k, {"connected", "connect_failed"})'
          /\ c # "held" => OnRecord(k, {"connect_failed"})'
      BY <1>1, <2>1, <2>2, <3>1, Observed_OnRecord
    <3>3. out = "silent" => Len(tasks[k].ports) = 1
      BY <2>5, <2>6
    <3> QED BY <1>4, <2>6, <3>2, <3>3 DEF Outcomes
  <2> QED BY <2>1, <2>2, <2>4, <2>6, AdvanceIs
<1> QED BY <1>1, <1>3, <1>5, <1>6

\* A module that starts has its probes before it.
LEMMA StartProbes ==
  ASSUME TypeOK, ModTypeOK, StartModule
  PROVE  PortProbes' /\ HostProbes'
<1>1. job' = job /\ scans' = scans /\ plan'.ports = plan.ports /\ plan'.discovery = plan.discovery
  BY StartIs DEF StartModule, vars, tableVars
<1>2. CASE mod'.pc = "failed"
  BY <1>2 DEF PortProbes, HostProbes, Is
<1>3. CASE mod'.pc # "failed"
  <2>1. PICK name \in ModuleNames : name = mod'.name /\ ~ CannotRun(name) /\ tasks' \in TasksOf(name)
    BY <1>3, StartIs
  <2>2. PICK T \in TasksOf(name) : T = tasks'
    BY <2>1
  <2>3. /\ T \in Fresh
        /\ name = "port_scan" => ~ BadPorts /\ PortList(T, TargetAddresses, ElementsOf(plan.ports))
        /\ name = "host_discovery" => HostList(T, TargetAddresses, plan.discovery)
    BY <2>1, TasksAre
  <2>4. PICK A : A = TargetAddresses /\ A = TargetAddresses'
    BY <1>1 DEF TargetAddresses
  <2>5. CASE name = "port_scan"
    <3>1. PICK P : P = ElementsOf(plan.ports) /\ P = ElementsOf(plan.ports)'
      BY <1>1 DEF ElementsOf
    <3>2. ~ BadPorts'
      BY <1>1, <2>3, <2>5 DEF BadPorts
    <3>3. PortList(T, A, P)
      BY <2>3, <2>4, <2>5, <3>1
    <3>4. \A k \in DOMAIN T : T[k].out = "run"
      BY <2>3 DEF Fresh
    <3>5. \A k : Pair(k)' = <<T[k].addr, Head(T[k].ports)>>
      BY <2>2 DEF Pair
    <3>6. ASSUME NEW k \in DOMAIN T PROVE PortProbe(k)'
      <4>1. Len(T[k].ports) = 1 /\ T[k].addr \in A /\ Head(T[k].ports) \in P
        BY <3>3 DEF PortList
      <4>2. Pair(k)' \in TargetAddresses' \X ElementsOf(plan.ports)'
        BY <2>4, <3>1, <3>5, <4>1
      <4> QED BY <2>2, <3>4, <4>1, <4>2 DEF PortProbe, Unobserved
    <3>7. \A j, k \in DOMAIN T : Pair(j)' = Pair(k)' => j = k
      BY <3>3, <3>5 DEF PortList
    <3>8. \A c \in A \X P : \E k \in DOMAIN T : Pair(k)' = c
      BY <3>3, <3>5 DEF PortList
    <3>9. PortProbes'
      BY <2>2, <2>4, <3>1, <3>2, <3>6, <3>7, <3>8 DEF PortProbes
    <3>10. HostProbes'
      BY <2>1, <2>5 DEF HostProbes, Is
    <3> QED BY <3>9, <3>10
  <2>6. CASE name = "host_discovery"
    <3>1. HostList(T, A, plan.discovery)
      BY <2>3, <2>4, <2>6
    <3>2. ASSUME NEW k \in DOMAIN T PROVE HostProbe(k)'
      <4>1. T[k].out = "run" /\ T[k].ports # <<>> /\ T[k].ports = plan.discovery
        BY <2>3, <3>1 DEF Fresh, HostList
      <4>2. ElementsOf(plan.discovery)' = ElementsOf(tasks[k].ports)'
        BY <1>1, <2>2, <4>1 DEF ElementsOf
      <4> QED BY <2>2, <4>1, <4>2 DEF HostProbe, Unobserved
    <3>3. \A a \in A : \E k \in DOMAIN T : T[k].addr = a
      BY <3>1 DEF HostList
    <3>4. HostProbes'
      BY <2>2, <2>4, <3>2, <3>3 DEF HostProbes
    <3>5. PortProbes'
      BY <2>1, <2>6 DEF PortProbes, Is
    <3> QED BY <3>4, <3>5
  <2>7. CASE name \notin Sweeps
    BY <2>1, <2>7 DEF PortProbes, HostProbes, Is, Sweeps
  <2> QED BY <2>5, <2>6, <2>7 DEF Sweeps
<1> QED BY <1>2, <1>3

\* Every other step leaves the probes of a module as they are.
LEMMA ProbesStep ==
  ASSUME GuardInv, [Next]_vars, ProbeInv, [ModNext]_allVars
  PROVE  PortProbes' /\ HostProbes'
<1>0. TypeOK /\ ModTypeOK /\ RunsInScan /\ PortProbes /\ HostProbes
  BY DEF GuardInv, ProbeInv
<1>1. ASSUME mod.pc \in {"run", "done"}, mod'.pc \in {"run", "done"}, mod'.name = mod.name,
             tasks' = tasks, plan' = plan
      PROVE  PortProbes' /\ HostProbes'
  <2>1. job' = job /\ job.pc = "running"
    BY <1>0, <1>1, JobStays DEF RunsInScan
  <2>2. PortProbes'
    <3>1. CASE Is("port_scan")
      BY <1>0, <1>1, <2>1, <3>1, PortCarries
    <3>2. CASE ~ Is("port_scan")
      BY <1>1, <3>2 DEF PortProbes, Is
    <3> QED BY <3>1, <3>2
  <2>3. HostProbes'
    <3>1. CASE Is("host_discovery")
      BY <1>0, <1>1, <2>1, <3>1, HostCarries
    <3>2. CASE ~ Is("host_discovery")
      BY <1>1, <3>2 DEF HostProbes, Is
    <3> QED BY <3>1, <3>2
  <2> QED BY <2>2, <2>3
<1>2. ASSUME mod'.pc \notin {"run", "done"} PROVE PortProbes' /\ HostProbes'
  BY <1>2 DEF PortProbes, HostProbes, Is
<1>3. CASE UNCHANGED modVars \/ RequestCancel \/ WatchCancel
  BY <1>1, <1>2, <1>3 DEF modVars, RequestCancel, WatchCancel
<1>4. CASE BeginModules
  <2>1. mod.pc = "none" /\ mod' = mod
    BY <1>0, <1>4 DEF RunsInScan, BeginModules, DispatchValidated
  <2> QED BY <1>2, <2>1
<1>5. CASE StartModule
  BY <1>0, <1>5, StartProbes
<1>6. CASE ModuleTimeout \/ TimedOut \/ SettleModule \/ FinishScan \/ RestartAll
  BY <1>0, <1>2, <1>6
     DEF ModuleTimeout, TimedOut, SettleModule, FinishScan, RestartAll, NoModule, ModTypeOK
<1>7. ASSUME NEW k \in DOMAIN tasks, ProbeStep(k) PROVE PortProbes' /\ HostProbes'
  <2>1. mod' = mod
    BY <1>0, <1>7, ProbeEffects
  <2>2. PortProbes'
    <3>1. CASE Is("port_scan")
      BY <1>0, <1>7, <3>1, PortProbeStep
    <3>2. CASE ~ Is("port_scan")
      BY <2>1, <3>2 DEF PortProbes, Is
    <3> QED BY <3>1, <3>2
  <2>3. HostProbes'
    <3>1. CASE Is("host_discovery")
      BY <1>0, <1>7, <3>1, HostProbeStep
    <3>2. CASE ~ Is("host_discovery")
      BY <2>1, <3>2 DEF HostProbes, Is
    <3> QED BY <3>1, <3>2
  <2> QED BY <2>2, <2>3
<1>8. CASE WaveEnds
  <2>1. CASE mod'.pc \in {"run", "done"}
    <3>1. /\ mod.pc = "run" /\ tasks' = tasks /\ plan' = plan
          /\ mod' = [mod EXCEPT !.base = @ + WaveSize, !.warned = WaveWarns]
      BY <1>0, <1>8, <2>1 DEF WaveEnds, NoModule, ModTypeOK
    <3>2. mod'.name = mod.name
      BY <1>0, <3>1 DEF ModTypeOK
    <3> QED BY <1>1, <2>1, <3>1, <3>2
  <2> QED BY <1>2, <2>1
<1>9. CASE ModuleReturns
  BY <1>0, <1>1, <1>9 DEF ModuleReturns, ModTypeOK
<1> QED BY <1>3, <1>4, <1>5, <1>6, <1>7, <1>8, <1>9, UnnoticedKinds


LEMMA ProbeInit == ModInit => ProbeInv
<1> SUFFICES ASSUME ModInit PROVE ProbeInv
  OBVIOUS
<1> USE DEF ModInit
<1>1. ModTypeOK
  <2>1. plan \in PlanRecord /\ tasks \in Seq(TaskRecord)
    BY DEF NoPlan, PlanRecord
  <2>2. mod \in [name : ModuleNames \cup {"none"},
                pc : {"none", "run", "stopping", "done", "failed"}, base : Nat, warned : BOOLEAN]
    BY DEF NoModule
  <2> QED BY <2>1, <2>2 DEF ModTypeOK
<1>2. RunsInScan /\ WavesComplete /\ PortProbes /\ HostProbes
  BY DEF RunsInScan, WavesComplete, PortProbes, HostProbes, Is, NoModule
<1>3. ConnectionsOwned
  BY DEF ConnectionsOwned, Init
<1> QED BY <1>1, <1>2, <1>3 DEF ProbeInv

\* The inductive invariant of the modules, on top of the one of the guard: a
\* module runs inside execute_scan, every connection belongs to a probe, the
\* waves behind a module have no silent gap, and whatever a probe observed is
\* in the ledger of the scan.
THEOREM ProbeInvHolds == ModSpec => []ProbeInv
<1>1. ASSUME GuardInv, ProbeInv, [ModNext]_allVars PROVE ProbeInv'
  <2>1. TypeOK /\ ModTypeOK /\ RunsInScan /\ ConnectionsOwned /\ WavesComplete
    BY <1>1 DEF GuardInv, ProbeInv
  <2>2. [Next]_vars
    BY <1>1, GuardStep
  <2>3. ModTypeOK' /\ RunsInScan'
    BY <1>1, <2>1, ModTypeStep, RunsStep
  <2>4. ConnectionsOwned' /\ WavesComplete'
    BY <1>1, <2>1, OwnedStep, WavesStep
  <2>5. PortProbes' /\ HostProbes'
    BY <1>1, <2>2, ProbesStep
  <2> QED BY <2>3, <2>4, <2>5 DEF ProbeInv
<1>2. ModSpec => []GuardInv
  BY GuardIsImplemented, GuardInvHolds, PTL DEF ModulesUseTheGuard
<1> QED BY <1>1, <1>2, ProbeInit, PTL DEF ModSpec

\* The variables of the modules keep their types: in particular a wave never
\* has a probe that is neither running nor has one of the known outcomes.
THEOREM ModuleTypesHold == ModSpec => []ModTypeOK
<1>1. ProbeInv => ModTypeOK
  BY DEF ProbeInv
<1> QED BY <1>1, ProbeInvHolds, PTL

\* Between two modules no connection is open that anyone could still close
\* (NothingHeldBetweenModules).
THEOREM ModulesLetGo == ModSpec => []NothingHeldBetweenModules
<1>1. ASSUME ProbeInv, mod.pc # "run", mod.pc # "stopping" PROVE Quiet
  <2>1. \A k \in DOMAIN tasks : ~ Running(k)
    BY <1>1 DEF Running
  <2> QED BY <1>1, <2>1, OwnedIsQuiet DEF ProbeInv
<1>2. ProbeInv => NothingHeldBetweenModules
  BY <1>1 DEF NothingHeldBetweenModules
<1> QED BY <1>2, ProbeInvHolds, PTL

\* The ports that port_scan saw in some state: no port in two of them, and all
\* of them on record.
LEMMA PortsThatAre ==
  ASSUME ModTypeOK, PortProbes, Is("port_scan"), NEW a
  PROVE  /\ \A out : PortsThat(a, out) \subseteq Ports
         /\ \A x, y : x # y => PortsThat(a, x) \cap PortsThat(a, y) = {}
         /\ Exists(job.scan) =>
              /\ PortsThat(a, "open") \subseteq PortsOf(a, {"connected"})
              /\ PortsThat(a, "closed") \subseteq PortsOf(a, {"connect_failed"})
              /\ PortsThat(a, "filtered") \subseteq PortsOf(a, {"connect_failed"})
<1>1. ASSUME NEW out, NEW p \in PortsThat(a, out)
      PROVE  \E k \in DOMAIN tasks : /\ tasks[k].out = out /\ Pair(k) = <<a, p>> /\ PortProbe(k)
                                     /\ tasks[k].addr = a
  <2>1. PICK k \in DOMAIN tasks : tasks[k].addr = a /\ tasks[k].out = out /\ p = Pair(k)[2]
    BY <1>1 DEF PortsThat
  <2> QED BY <2>1 DEF Pair, PortProbes
<1>2. ASSUME NEW out, NEW p \in PortsThat(a, out) PROVE p \in Ports
  <2>1. PICK k \in DOMAIN tasks : Pair(k) = <<a, p>> /\ PortProbe(k)
    BY <1>1
  <2>2. p \in ElementsOf(plan.ports)
    BY <2>1 DEF PortProbe
  <2> QED BY <2>2 DEF PortProbes, BadPorts, ElementsOf
<1>3. ASSUME NEW x, NEW y, x # y, NEW p \in PortsThat(a, x), p \in PortsThat(a, y) PROVE FALSE
  <2>1. PICK j \in DOMAIN tasks : Pair(j) = <<a, p>> /\ tasks[j].out = x
    BY <1>1, <1>3
  <2>2. PICK k \in DOMAIN tasks : Pair(k) = <<a, p>> /\ tasks[k].out = y
    BY <1>1, <1>3
  <2> QED BY <1>3, <2>1, <2>2 DEF PortProbes
<1>4. ASSUME Exists(job.scan), NEW p \in PortsThat(a, "open") PROVE p \in PortsOf(a, {"connected"})
  <2>1. PICK k \in DOMAIN tasks :
          tasks[k].out = "open" /\ Pair(k) = <<a, p>> /\ PortProbe(k) /\ tasks[k].addr = a
    BY <1>1, <1>4
  <2> QED BY <1>4, <2>1 DEF PortProbe, OnRecord
<1>5. ASSUME Exists(job.scan), NEW out \in {"closed", "filtered"}, NEW p \in PortsThat(a, out)
      PROVE  p \in PortsOf(a, {"connect_failed"})
  <2>1. PICK k \in DOMAIN tasks :
          tasks[k].out = out /\ Pair(k) = <<a, p>> /\ PortProbe(k) /\ tasks[k].addr = a
    BY <1>1, <1>5
  <2> QED BY <1>5, <2>1 DEF PortProbe, OnRecord
<1> QED BY <1>2, <1>3, <1>4, <1>5

\* Cardinalities of disjoint sets of ports add up.
LEMMA Disjoint ==
  ASSUME NEW A \in SUBSET Ports, NEW B \in SUBSET Ports, A \cap B = {}
  PROVE  /\ Cardinality(A \cup B) = Cardinality(A) + Cardinality(B)
         /\ Cardinality(A) \in Nat /\ Cardinality(B) \in Nat
<1>1. IsFiniteSet(A) /\ IsFiniteSet(B)
  BY PortSetsFinite
<1>2. Cardinality(A) \in Nat /\ Cardinality(B) \in Nat /\ Cardinality(A \cap B) = 0
  BY <1>1, FS_CardinalityType, FS_EmptySet
<1>3. Cardinality(A \cup B) = Cardinality(A) + Cardinality(B) - Cardinality(A \cap B)
  BY <1>1, FS_Union
<1> QED BY <1>2, <1>3

\* What a module reports is on record in the audit ledger, and an observation
\* is never made up (ReportedWasProbed).
THEOREM ReportsAreOnRecord == ModSpec => []ReportedWasProbed
<1>1. ASSUME ProbeInv, mod.pc = "done", Exists(job.scan), NEW f \in PortFindings, mod.name = "port_scan"
      PROVE  \/ f.kind = "port.open" /\ f.port \in PortsOf(f.host, {"connected"})
             \/ /\ f.kind = "port.summary" /\ f.open \subseteq PortsOf(f.host, {"connected"})
                /\ f.closed + f.filtered <= Cardinality(PortsOf(f.host, {"connect_failed"}))
  <2>1. PICK a \in Observed : f = Summary(a) \/ \E p \in PortsThat(a, "open") : f = OpenFinding(a, p)
    BY <1>1 DEF PortFindings
  <2>2. ModTypeOK /\ PortProbes /\ Is("port_scan")
    BY <1>1 DEF ProbeInv, Is
  <2>3. /\ \A out : PortsThat(a, out) \subseteq Ports
        /\ PortsThat(a, "closed") \cap PortsThat(a, "filtered") = {}
        /\ PortsThat(a, "open") \subseteq PortsOf(a, {"connected"})
        /\ PortsThat(a, "closed") \subseteq PortsOf(a, {"connect_failed"})
        /\ PortsThat(a, "filtered") \subseteq PortsOf(a, {"connect_failed"})
    BY <1>1, <2>2, PortsThatAre
  <2>4. PICK C, F, P : /\ C = PortsThat(a, "closed") /\ F = PortsThat(a, "filtered")
                       /\ P = PortsOf(a, {"connect_failed"})
    OBVIOUS
  <2>5. /\ C \in SUBSET Ports /\ F \in SUBSET Ports /\ C \cap F = {} /\ C \cup F \in SUBSET P
        /\ P \in SUBSET Ports
    BY <2>3, <2>4 DEF PortsOf
  <2>6. Cardinality(C) + Cardinality(F) <= Cardinality(P)
    <3>1. IsFiniteSet(P)
      BY <2>5, PortSetsFinite
    <3>2. Cardinality(C \cup F) <= Cardinality(P)
      BY <2>5, <3>1, FS_Subset
    <3> QED BY <2>5, <3>2, Disjoint
  <2>7. CASE f = Summary(a)
    BY <2>3, <2>4, <2>6, <2>7 DEF Summary
  <2>8. CASE \E p \in PortsThat(a, "open") : f = OpenFinding(a, p)
    BY <2>3, <2>8 DEF OpenFinding
  <2> QED BY <2>1, <2>7, <2>8
<1>2. ASSUME ProbeInv, mod.pc = "done", Exists(job.scan), NEW f \in LiveFindings, mod.name = "host_discovery"
      PROVE  f.kind = "host.live" /\ f.port \in PortsOf(f.host, {"connected", "connect_failed"})
  <2>1. PICK k \in DOMAIN tasks :
          /\ tasks[k].out = "found"
          /\ f = [kind |-> "host.live", host |-> tasks[k].addr, port |-> Pair(k)[2]]
    BY <1>2 DEF LiveFindings
  <2>2. OnRecord(k, {"connected", "connect_failed"})
    BY <1>2, <2>1 DEF ProbeInv, HostProbes, HostProbe, Is
  <2> QED BY <1>2, <2>1, <2>2 DEF OnRecord
<1>3. ASSUME ProbeInv, mod.pc = "done", Exists(job.scan), NEW f \in Findings
      PROVE  \/ f.kind = "port.open" /\ f.port \in PortsOf(f.host, {"connected"})
             \/ /\ f.kind = "port.summary" /\ f.open \subseteq PortsOf(f.host, {"connected"})
                /\ f.closed + f.filtered <= Cardinality(PortsOf(f.host, {"connect_failed"}))
             \/ f.kind = "host.live" /\ f.port \in PortsOf(f.host, {"connected", "connect_failed"})
  <2>1. \/ mod.name = "port_scan" /\ f \in PortFindings
        \/ mod.name = "host_discovery" /\ f \in LiveFindings
    BY <1>3 DEF Findings
  <2> QED BY <1>1, <1>2, <1>3, <2>1
<1>4. ProbeInv => ReportedWasProbed
  BY <1>3 DEF ReportedWasProbed
<1> QED BY <1>4, ProbeInvHolds, PTL

\* A module that ends without a warning, and without a cancel request, has
\* tested everything it set out to (NoSilentGap): the counts of a summary add
\* up to the ports of the request.
THEOREM GapsAreAnnounced == ModSpec => []NoSilentGap
<1>1. ASSUME ProbeInv, mod.pc = "done", ~ mod.warned, ~ flag, NEW k \in DOMAIN tasks
      PROVE  tasks[k].out \notin Unobserved
  BY <1>1 DEF ProbeInv, WavesComplete, Unobserved
<1>2. ASSUME ProbeInv, mod.pc = "done", ~ mod.warned, ~ flag, mod.name = "port_scan",
             NEW a \in TargetAddresses
      PROVE  \E f \in PortFindings :
               /\ f.kind = "port.summary" /\ f.host = a
               /\ Cardinality(f.open) + f.closed + f.filtered = Len(ResolvedPorts)
  <2>1. ModTypeOK /\ PortProbes /\ Is("port_scan")
    BY <1>2 DEF ProbeInv, Is
  <2>2. /\ \A out : PortsThat(a, out) \subseteq Ports
        /\ \A x, y : x # y => PortsThat(a, x) \cap PortsThat(a, y) = {}
    BY <2>1, PortsThatAre
  <2>3. PICK O, C, F, P : /\ O = PortsThat(a, "open") /\ C = PortsThat(a, "closed")
                          /\ F = PortsThat(a, "filtered") /\ P = ElementsOf(plan.ports)
    OBVIOUS
  <2>4. O \in SUBSET Ports /\ C \in SUBSET Ports /\ F \in SUBSET Ports
    BY <2>2, <2>3
  <2>5. O \cap C = {} /\ (O \cup C) \cap F = {}
    BY <2>2, <2>3
  <2>6. ASSUME NEW p \in P PROVE \E k \in DOMAIN tasks : Pair(k) = <<a, p>> /\ tasks[k].out \in PortStates
    <3>1. PICK k \in DOMAIN tasks : Pair(k) = <<a, p>> /\ PortProbe(k)
      BY <1>2, <2>1, <2>3 DEF PortProbes
    <3> QED BY <1>1, <1>2, <3>1 DEF PortProbe
  <2>7. O \cup C \cup F = P
    <3>1. ASSUME NEW p \in P PROVE p \in O \cup C \cup F
      <4>1. PICK k \in DOMAIN tasks : Pair(k) = <<a, p>> /\ tasks[k].out \in PortStates
        BY <2>6
      <4>2. tasks[k].addr = a /\ Pair(k)[2] = p
        BY <4>1 DEF Pair
      <4> QED BY <2>3, <4>1, <4>2 DEF PortsThat, PortStates
    <3>2. ASSUME NEW out, NEW p \in PortsThat(a, out) PROVE p \in P
      <4>1. PICK k \in DOMAIN tasks : p = Pair(k)[2] /\ PortProbe(k)
        BY <2>1, <3>2 DEF PortsThat, PortProbes
      <4> QED BY <2>3, <4>1 DEF PortProbe
    <3> QED BY <2>3, <3>1, <3>2
  <2>8. Cardinality(O) + Cardinality(C) + Cardinality(F) = Cardinality(P)
    <3>1. O \cup C \in SUBSET Ports
      BY <2>4
    <3>2. /\ Cardinality(O \cup C) = Cardinality(O) + Cardinality(C)
          /\ Cardinality((O \cup C) \cup F) = Cardinality(O \cup C) + Cardinality(F)
      BY <2>4, <2>5, <3>1, Disjoint
    <3> QED BY <2>7, <3>2
  <2>9. Len(ResolvedPorts) = Cardinality(P)
    <3>1. P \in SUBSET Ports
      BY <2>4, <2>7
    <3>2. PICK q : q = SortedBy(P)
      OBVIOUS
    <3>3. q \in [1..Cardinality(P) -> P] /\ Cardinality(P) \in Nat
      BY <3>1, <3>2, PortSetsFinite, SortedIs
    <3>4. Len(q) = Cardinality(P)
      BY <3>3
    <3> QED BY <2>3, <3>2, <3>4 DEF ResolvedPorts, ElementsOf
  <2>10. a \in Observed
    <3>1. PICK p \in P : TRUE
      BY <2>1, <2>3 DEF PortProbes, BadPorts, ElementsOf, ModTypeOK, PlanRecord
    <3>2. PICK k \in DOMAIN tasks : Pair(k) = <<a, p>> /\ tasks[k].out \in PortStates
      BY <2>6
    <3> QED BY <3>2 DEF Observed, Pair, PortStates
  <2>11. Summary(a) \in PortFindings
    BY <2>10 DEF PortFindings
  <2>12. /\ Summary(a).kind = "port.summary" /\ Summary(a).host = a
         /\ Cardinality(Summary(a).open) + Summary(a).closed + Summary(a).filtered = Len(ResolvedPorts)
    BY <2>3, <2>8, <2>9 DEF Summary
  <2> QED BY <2>11, <2>12
<1>3. ASSUME ProbeInv, mod.pc = "done", ~ mod.warned, ~ flag, mod.name = "host_discovery",
             NEW a \in TargetAddresses, Exists(job.scan)
      PROVE  \/ \E f \in LiveFindings : f.host = a
             \/ ElementsOf(plan.discovery) \subseteq PortsOf(a, {"connect_failed"})
  <2>1. PICK k \in DOMAIN tasks : tasks[k].addr = a /\ HostProbe(k)
    BY <1>3 DEF ProbeInv, HostProbes, Is
  <2>2. tasks[k].out \in {"found", "silent"}
    BY <1>1, <1>3, <2>1 DEF HostProbe
  <2>3. CASE tasks[k].out = "found"
    <3> DEFINE f == [kind |-> "host.live", host |-> tasks[k].addr, port |-> Pair(k)[2]]
    <3>1. f \in LiveFindings
      BY <2>3 DEF LiveFindings
    <3>2. f.host = a
      BY <2>1
    <3> QED BY <3>1, <3>2
  <2>4. CASE tasks[k].out = "silent"
    <3>1. Len(tasks[k].ports) = 1 /\ OnRecord(k, {"connect_failed"})
      BY <2>1, <2>4 DEF HostProbe
    <3>2. Pair(k)[2] \in PortsOf(a, {"connect_failed"}) /\ Pair(k)[2] = Head(tasks[k].ports)
      BY <1>3, <2>1, <3>1 DEF OnRecord, Pair
    <3>3. ElementsOf(tasks[k].ports) = {Head(tasks[k].ports)}
      <4>1. tasks[k] \in TaskRecord
        BY <1>3 DEF ProbeInv, ModTypeOK
      <4>2. PICK q \in Seq(Ports \cup {NoPort}) : q = tasks[k].ports
        BY <4>1 DEF TaskRecord
      <4>3. ElementsOf(q) = {Head(q)}
        BY <3>1, <4>2 DEF ElementsOf
      <4> QED BY <4>2, <4>3
    <3>4. ElementsOf(plan.discovery) \subseteq ElementsOf(tasks[k].ports) \cup PortsOf(a, {"connect_failed"})
      BY <1>3, <2>1 DEF HostProbe
    <3> QED BY <3>2, <3>3, <3>4
  <2> QED BY <2>2, <2>3, <2>4
<1>4. ASSUME ProbeInv, mod.pc = "done", ~ mod.warned, ~ flag
      PROVE  Outs(DOMAIN tasks) \cap {"run", "untested", "budget", "rejected", "broken"} = {}
  BY <1>1, <1>4 DEF Outs, Unobserved
<1>5. ASSUME ProbeInv PROVE NoSilentGap
  <2> SUFFICES ASSUME mod.pc = "done", ~ mod.warned, ~ flag PROVE NoSilentGap
    BY DEF NoSilentGap
  <2>1. CASE mod.name = "port_scan"
    <3>1. Findings = PortFindings
      BY <2>1 DEF Findings
    <3> QED BY <1>2, <1>5, <2>1, <3>1 DEF NoSilentGap
  <2>2. CASE mod.name = "host_discovery"
    <3>1. Findings = LiveFindings
      BY <2>2 DEF Findings
    <3> QED BY <1>3, <1>5, <2>2, <3>1 DEF NoSilentGap, ElementsOf
  <2>3. CASE mod.name \notin {"port_scan", "host_discovery"}
    BY <1>4, <1>5, <2>3 DEF NoSilentGap
  <2> QED BY <2>1, <2>2, <2>3
<1>6. ProbeInv => NoSilentGap
  BY <1>5
<1> QED BY <1>6, ProbeInvHolds, PTL

-----------------------------------------------------------------------------
(* What a cancel stops *)

\* Only host_discovery and protocol_enum have probes of several ports: one for
\* each address, and two streams for each port.
ShapeOf(name, T, first) ==
  /\ name \notin {"host_discovery", "protocol_enum"} => \A k \in DOMAIN T : Len(T[k].ports) = 1
  /\ name = "host_discovery" => \A j, k \in DOMAIN T : T[j].addr = T[k].addr => j = k
  /\ name = "protocol_enum" =>
       \A k \in DOMAIN T : Len(T[k].ports) \in 1..2 /\ (k > first => Len(T[k].ports) = 2)

ProbeShapes == mod.pc = "run" => ShapeOf(mod.name, tasks, mod.base + WaveSize)

\* From here on the module begins no connection any more.
NoneBegins ==
  /\ flag /\ Quiet
  /\ \A k \in DOMAIN tasks : k > mod.base /\ tasks[k].out = "run" => Polls(k)

\* A late connection belongs to the wave in which the flag was set; but for
\* protocol_enum its probe has had no other one since.
LateInv ==
  /\ late # {} => mod.pc = "run" /\ flag
  /\ late \subseteq (DOMAIN tasks) \X Nat
  /\ mod.name = "protocol_enum" => \A l \in late : l[2] \in 1..2
  /\ mod.name # "protocol_enum" =>
       \A l \in late : /\ \A m \in late : m[1] = l[1] => m = l
                       /\ Pair(l[1]) \in Pairs => conn[Pair(l[1])] # "waiting"
  /\ \E b \in Nat : /\ \A l \in late : l[1] \in (b + 1)..(b + WaveSize)
                    /\ b = mod.base \/ NoneBegins

LEMMA FollowUpLength ==
  ASSUME NEW times \in Nat \ {0}
  PROVE  \A k \in DOMAIN FollowUp(times) : Len(FollowUp(times)[k].ports) = times
<1> DEFINE before(a, b) == a[1] < b[1] \/ (a[1] = b[1] /\ a[2] < b[2])
           pairs == CHOOSE q \in [1..Cardinality(open) -> open] :
                      \A i, j \in DOMAIN q : i < j => before(q[i], q[j])
           ports(k) == [i \in 1..times |-> pairs[k][2]]
<1>1. FollowUp(times) = [k \in DOMAIN pairs |-> Task(pairs[k][1], ports(k))]
  BY DEF FollowUp
<1> HIDE DEF pairs
<1>2. \A k : Len(ports(k)) = times
  OBVIOUS
<1> HIDE DEF ports
<1>3. \A k \in DOMAIN FollowUp(times) : FollowUp(times)[k].ports = ports(k)
  BY <1>1 DEF Task
<1> QED BY <1>2, <1>3

LEMMA ShapesAre ==
  ASSUME TypeOK, ModTypeOK, NEW name \in ModuleNames, ~ CannotRun(name), NEW T \in TasksOf(name),
         NEW first
  PROVE  ShapeOf(name, T, first)
<1>1. CASE name = "port_scan"
  BY <1>1, TasksAre DEF PortList, ShapeOf
<1>2. CASE name = "host_discovery"
  BY <1>2, TasksAre DEF HostList, ShapeOf
<1>3. CASE name = "service_detect"
  <2>1. T = FollowUp(1)
    BY <1>3 DEF TasksOf
  <2>2. \A k \in DOMAIN T : Len(T[k].ports) = 1
    <3>1. 1 \in Nat \ {0}
      OBVIOUS
    <3> QED BY <2>1, <3>1, FollowUpLength
  <2> QED BY <1>3, <2>2 DEF ShapeOf
<1>4. CASE name = "protocol_enum"
  <2>1. T = FollowUp(2)
    BY <1>4 DEF TasksOf
  <2>2. \A k \in DOMAIN T : Len(T[k].ports) = 2
    <3>1. 2 \in Nat \ {0}
      OBVIOUS
    <3> QED BY <2>1, <3>1, FollowUpLength
  <2> QED BY <1>4, <2>2 DEF ShapeOf
<1>5. CASE name = "other"
  <2>1. PICK a \in Strays, p \in Ports : T = <<Task(a, <<p>>)>>
    BY <1>5 DEF TasksOf
  <2>2. \A k \in DOMAIN T : T[k].ports = <<p>>
    BY <2>1 DEF Task
  <2> QED BY <1>5, <2>2 DEF ShapeOf
<1> QED BY <1>1, <1>2, <1>3, <1>4, <1>5 DEF ModuleNames

\* A probe keeps its address; it keeps its ports, or drops the one it observed.
LEMMA OneProbe ==
  ASSUME TypeOK, ModTypeOK, NEW k \in DOMAIN tasks, ProbeStep(k)
  PROVE  /\ tasks'[k].addr = tasks[k].addr
         /\ \/ tasks'[k].ports = tasks[k].ports
            \/ /\ Len(tasks[k].ports) > 1 /\ tasks'[k].ports = Tail(tasks[k].ports)
               /\ Observes(k)
<1>1. CASE Asks(k)
  BY <1>1 DEF Asks
<1>2. CASE GivesUp(k)
  BY <1>2, SettleIs DEF GivesUp, Outcomes, Unobserved
<1>3. CASE Observes(k)
  <2>1. PICK c \in {"held", "refused", "silent"} : Advance(k, c)
    BY <1>3 DEF Observes
  <2>2. CASE Len(tasks[k].ports) > 1 /\ GoOn(k)
    BY <1>3, <2>2, GoOnIs
  <2>3. CASE \E out \in PortStates \cup {"found", "silent"} : Settle(k, out)
    BY <2>3, SettleIs DEF Outcomes
  <2> QED BY <2>1, <2>2, <2>3, AdvanceIs
<1> QED BY <1>1, <1>2, <1>3, ProbeEffects

LEMMA ShapesStep ==
  ASSUME TypeOK, ModTypeOK, ProbeShapes, [ModNext]_allVars
  PROVE  ProbeShapes'
<1>0. mod.base \in Nat /\ WaveSize \in Nat \ {0} /\ DOMAIN tasks = 1..Len(tasks) /\ Len(tasks) \in Nat
  BY ProbeModulesAssumption DEF ModTypeOK
<1>1. ASSUME mod' = mod, tasks' = tasks PROVE ProbeShapes'
  BY <1>1 DEF ProbeShapes, ShapeOf
<1>2. ASSUME mod'.pc # "run" PROVE ProbeShapes'
  BY <1>2 DEF ProbeShapes
<1>3. CASE UNCHANGED modVars \/ BeginModules \/ RequestCancel \/ WatchCancel
  BY <1>1, <1>3 DEF modVars, BeginModules, RequestCancel, WatchCancel
<1>4. CASE StartModule
  BY <1>2, <1>4, StartIs, ShapesAre DEF ProbeShapes
<1>5. CASE ModuleTimeout \/ TimedOut \/ SettleModule \/ FinishScan \/ RestartAll \/ ModuleReturns
  BY <1>2, <1>5
     DEF ModuleTimeout, TimedOut, SettleModule, FinishScan, RestartAll, ModuleReturns, NoModule, ModTypeOK
<1>6. ASSUME NEW k \in DOMAIN tasks, ProbeStep(k) PROVE ProbeShapes'
  <2>1. mod' = mod /\ mod.pc = "run" /\ k <= mod.base + WaveSize
    BY <1>6, ProbeEffects DEF Running
  <2>2. DOMAIN tasks' = DOMAIN tasks /\ \A j \in DOMAIN tasks : j # k => tasks'[j] = tasks[j]
    BY <1>6, ProbeList
  <2>3. \A j \in DOMAIN tasks : tasks'[j].addr = tasks[j].addr
    BY <1>6, <2>2, OneProbe
  <2>4. \/ Len(tasks'[k].ports) = Len(tasks[k].ports)
        \/ Len(tasks[k].ports) > 1 /\ Len(tasks'[k].ports) = Len(tasks[k].ports) - 1
    <3>0. tasks[k] \in TaskRecord
      BY DEF ModTypeOK
    <3>1. PICK q \in Seq(Ports \cup {NoPort}) : q = tasks[k].ports
      BY <3>0 DEF TaskRecord
    <3>2. Len(q) > 1 => Len(Tail(q)) = Len(q) - 1
      OBVIOUS
    <3> QED BY <1>6, <3>1, <3>2, OneProbe
  <2>5. ~ (k > mod.base + WaveSize)
    BY <1>0, <2>1
  <2>6. ShapeOf(mod.name, tasks, mod.base + WaveSize)
    BY <2>1 DEF ProbeShapes
  <2>7. ShapeOf(mod.name, tasks', mod.base + WaveSize)
    <3>1. CASE mod.name = "host_discovery"
      BY <2>2, <2>3, <2>6, <3>1 DEF ShapeOf
    <3>2. CASE mod.name = "protocol_enum"
      <4>1. \A j \in DOMAIN tasks : /\ Len(tasks[j].ports) \in 1..2
                                    /\ j > mod.base + WaveSize => Len(tasks[j].ports) = 2
        BY <2>6, <3>2 DEF ShapeOf
      <4>2. Len(tasks'[k].ports) \in 1..2
        <5>1. PICK n \in 1..2 : n = Len(tasks[k].ports)
          BY <4>1
        <5>2. PICK m : m = Len(tasks'[k].ports)
          OBVIOUS
        <5>3. m = n \/ (n > 1 /\ m = n - 1)
          BY <2>4, <5>1, <5>2
        <5>4. m \in 1..2
          <6>1. CASE n = 1
            BY <5>3, <6>1
          <6>2. CASE n = 2
            BY <5>3, <6>2
          <6> QED BY <6>1, <6>2
        <5> QED BY <5>2, <5>4
      <4>3. \A j \in DOMAIN tasks' : /\ Len(tasks'[j].ports) \in 1..2
                                     /\ j > mod.base + WaveSize => Len(tasks'[j].ports) = 2
        BY <2>2, <2>5, <4>1, <4>2
      <4> QED BY <3>2, <4>3 DEF ShapeOf
    <3>3. CASE mod.name \notin {"host_discovery", "protocol_enum"}
      <4>1. \A j \in DOMAIN tasks : Len(tasks[j].ports) = 1
        BY <2>6, <3>3 DEF ShapeOf
      <4>2. \A j \in DOMAIN tasks' : Len(tasks'[j].ports) = 1
        <5>1. Len(tasks'[k].ports) = 1
          <6>1. Len(tasks[k].ports) = 1 /\ ~ (1 > 1)
            BY <4>1
          <6> QED BY <2>4, <6>1
        <5> QED BY <2>2, <4>1, <5>1
      <4> QED BY <3>3, <4>2 DEF ShapeOf
    <3> QED BY <3>1, <3>2, <3>3
  <2> QED BY <2>1, <2>7 DEF ProbeShapes
<1>7. CASE WaveEnds
  <2>1. CASE mod'.pc # "run"
    BY <1>2, <2>1
  <2>2. CASE mod'.pc = "run"
    <3>1. mod.pc = "run" /\ tasks' = tasks /\ mod' = [mod EXCEPT !.base = @ + WaveSize, !.warned = WaveWarns]
      BY <1>7, <2>2 DEF WaveEnds, NoModule, ModTypeOK
    <3>2. mod'.base = mod.base + WaveSize /\ mod'.name = mod.name
      BY <3>1 DEF ModTypeOK
    <3>3. \A k \in DOMAIN tasks : k > mod'.base + WaveSize => k > mod.base + WaveSize
      BY <1>0, <3>2
    <3> QED BY <3>1, <3>2, <3>3 DEF ProbeShapes, ShapeOf
  <2> QED BY <2>1, <2>2
<1> QED BY <1>3, <1>4, <1>5, <1>6, <1>7, UnnoticedKinds

\* While no probe has a connection, a probe asks for one or gives up.
LEMMA QuietProbe ==
  ASSUME TypeOK, Quiet, NEW k \in DOMAIN tasks, ProbeStep(k)
  PROVE  Asks(k) \/ GivesUp(k)
<1>0. Pair(k) = <<tasks[k].addr, Head(tasks[k].ports)>>
  BY DEF Pair
<1>1. Pair(k) \in Pairs => conn[Pair(k)] \in {"idle", "dropped"}
  BY DEF Quiet, Free
<1>2. ASSUME AtRest(k), conn' = conn PROVE LetsGo(k)
  BY <1>2 DEF AtRest, InRange, LetsGo, Free
<1>3. CASE ProbeCancelled(k) \/ ProbeOverBudget(k) \/ ProbeOutOfRange(k)
  BY <1>2, <1>3 DEF ProbeCancelled, ProbeOverBudget, ProbeOutOfRange, MayProbe, GivesUp, vars
<1>4. CASE ProbeConnects(k)
  BY <1>0, <1>4 DEF ProbeConnects, MayProbe, InRange, ConnectAdmitted, Asks, modVars
<1>5. CASE ProbeDenied(k)
  BY <1>2, <1>5 DEF ProbeDenied, MayProbe, ConnectDenied, GivesUp
<1>6. ASSUME ProbeFails(k) \/ ProbeCloses(k) \/ ProbeUpgradeFails(k) \/ ProbeBreaks(k) PROVE FALSE
  BY <1>0, <1>1, <1>6 DEF ProbeFails, ProbeCloses, ProbeUpgradeFails, ProbeBreaks, InRange,
       RecordFailed, RecordLost, RecordInterrupted, Close, Failed
<1> QED BY <1>3, <1>4, <1>5, <1>6 DEF ProbeStep

\* A module that goes on keeps its name, its probes and its flag, and only the
\* end of a wave moves on to later probes.
LEMMA ModuleGoesOn ==
  ASSUME TypeOK, ModTypeOK, RunsInScan, [ModNext]_allVars, mod.pc = "run", mod'.pc = "run", flag
  PROVE  /\ flag' /\ mod'.name = mod.name /\ DOMAIN tasks' = DOMAIN tasks
         /\ \/ mod' = mod /\ tasks' = tasks /\ conn' = conn
            \/ /\ mod' = mod /\ tasks' = tasks
               /\ \E c \in Pairs : ProbeBegins(c) \/ ProbeAnswered(c)
            \/ mod' = mod /\ \E k \in DOMAIN tasks : ProbeStep(k)
            \/ /\ mod'.base = mod.base + WaveSize /\ tasks' = tasks /\ conn' = conn
               /\ \A k \in DOMAIN tasks : ~ Running(k)
<1>1. CASE Around /\ UNCHANGED modVars
  BY <1>1, ConnUnchanged DEF Around, Execute, modVars
<1>2. CASE RequestCancel \/ WatchCancel \/ UNCHANGED allVars
  BY <1>2 DEF RequestCancel, WatchCancel, allVars, modVars, vars
<1>3. ASSUME BeginModules \/ StartModule \/ ModuleTimeout \/ TimedOut \/ SettleModule \/ FinishScan
             \/ RestartAll \/ ModuleReturns
      PROVE  FALSE
  <2>1. ASSUME BeginModules \/ StartModule PROVE FALSE
    BY <2>1 DEF RunsInScan, BeginModules, DispatchValidated, StartModule
  <2>2. ASSUME ModuleTimeout \/ TimedOut \/ ModuleReturns PROVE FALSE
    BY <2>2 DEF ModuleTimeout, TimedOut, ModuleReturns, ModTypeOK
  <2>3. ASSUME SettleModule \/ FinishScan \/ RestartAll PROVE FALSE
    BY <2>3 DEF SettleModule, FinishScan, RestartAll, NoModule
  <2> QED BY <1>3, <2>1, <2>2, <2>3
<1>4. ASSUME NEW k \in DOMAIN tasks, ProbeStep(k)
      PROVE  flag' /\ mod' = mod /\ DOMAIN tasks' = DOMAIN tasks
  BY <1>4, ProbeEffects, ProbeList
<1>5. ASSUME NEW c \in Pairs, ProbeBegins(c) \/ ProbeAnswered(c) \/ ProbeStopped(c)
      PROVE  UNCHANGED modVars /\ (ProbeBegins(c) \/ ProbeAnswered(c))
  BY <1>5 DEF ProbeBegins, ProbeAnswered, ProbeStopped
<1>6. CASE WaveEnds
  <2>1. /\ mod' = [mod EXCEPT !.base = @ + WaveSize, !.warned = WaveWarns]
        /\ UNCHANGED <<vars, tasks, flag>>
    <3>1. ASSUME mod' = NoModule \/ mod' = [mod EXCEPT !.pc = "failed"] PROVE FALSE
      BY <3>1 DEF NoModule, ModTypeOK
    <3> QED BY <1>6, <3>1 DEF WaveEnds
  <2>2. mod'.base = mod.base + WaveSize /\ mod'.name = mod.name
    BY <2>1 DEF ModTypeOK
  <2>3. \A k \in DOMAIN tasks : ~ Running(k)
    BY <1>6 DEF WaveEnds, Wave, Running
  <2> QED BY <2>1, <2>2, <2>3 DEF vars
<1> QED BY <1>1, <1>2, <1>3, <1>4, <1>5, <1>6 DEF ModNext, modVars

\* Connections begin in ProbeBegins only.
LEMMA NoLateOnes ==
  ASSUME TypeOK, late' = late \/ late' = late \cup {<<k, Len(tasks[k].ports)>> : k \in {j \in DOMAIN tasks : Begins(j)}},
         \A c \in Pairs : conn'[c] = "connecting" => conn[c] = "connecting"
  PROVE  late' = late
<1>1. \A j \in DOMAIN tasks : ~ Begins(j)
  BY DEF Begins, InRange
<1> QED BY <1>1

LEMMA PairParts ==
  ASSUME NEW S, NEW T, NEW l \in S \X T
  PROVE  l = <<l[1], l[2]>> /\ l[1] \in S /\ l[2] \in T
OBVIOUS

LEMMA LateStep ==
  ASSUME TypeOK, ModTypeOK, ModTypeOK', RunsInScan, ConnectionsOwned, ProbeShapes, LateInv,
         [CancelNext]_cancelVars
  PROVE  LateInv'
<1> DEFINE New == {<<k, Len(tasks[k].ports)>> : k \in {j \in DOMAIN tasks : Begins(j)}}
<1>0. /\ mod.base \in Nat /\ mod'.base \in Nat /\ WaveSize \in Nat \ {0}
      /\ DOMAIN tasks = 1..Len(tasks) /\ Len(tasks) \in Nat
  BY ProbeModulesAssumption DEF ModTypeOK
<1>1. ASSUME late' = {} PROVE LateInv'
  <2>1. \A l \in late' : FALSE
    BY <1>1
  <2> QED BY <1>0, <1>1, <2>1 DEF LateInv
<1>2. CASE UNCHANGED cancelVars
  BY <1>2 DEF cancelVars, allVars, modVars, vars, LateInv, NoneBegins, Quiet, Free, Polls, SecondStream, Pair, Pairs
<1>3. CASE CancelNext /\ (mod.pc # "run" \/ mod'.pc # "run" \/ ~ flag)
  <2>1. ASSUME mod.pc # "run" PROVE New = {}
    BY <2>1 DEF Begins, InRange, Running
  <2>2. mod'.pc = "run" => late = {}
    BY <1>3 DEF LateInv, CancelNext, Observe
  <2> QED BY <1>1, <1>3, <2>1, <2>2 DEF CancelNext, Observe
<1>4. CASE CancelNext /\ mod.pc = "run" /\ mod'.pc = "run" /\ flag
  <2>1. late' = late \cup New /\ [ModNext]_allVars
    BY <1>4 DEF CancelNext, Observe
  <2>2. /\ flag' /\ mod'.name = mod.name /\ DOMAIN tasks' = DOMAIN tasks
        /\ \/ mod' = mod /\ tasks' = tasks /\ conn' = conn
           \/ /\ mod' = mod /\ tasks' = tasks
              /\ \E c \in Pairs : ProbeBegins(c) \/ ProbeAnswered(c)
           \/ mod' = mod /\ \E k \in DOMAIN tasks : ProbeStep(k)
           \/ /\ mod'.base = mod.base + WaveSize /\ tasks' = tasks /\ conn' = conn
              /\ \A k \in DOMAIN tasks : ~ Running(k)
    BY <1>4, <2>1, ModuleGoesOn
  <2>3. PICK b \in Nat : /\ \A l \in late : l[1] \in (b + 1)..(b + WaveSize)
                         /\ b = mod.base \/ NoneBegins
    BY DEF LateInv
  <2>4. ASSUME late' = late,
               \A l \in late : mod.name # "protocol_enum" /\ Pair(l[1])' \in Pairs =>
                                 conn'[Pair(l[1])'] # "waiting",
               b = mod'.base \/ NoneBegins'
        PROVE  LateInv'
    <3>1. (late # {} => mod.pc = "run" /\ flag)' /\ (late \subseteq (DOMAIN tasks) \X Nat)'
      <4>1. late \subseteq (DOMAIN tasks) \X Nat /\ DOMAIN tasks' = DOMAIN tasks /\ late' = late
        BY <2>2, <2>4 DEF LateInv
      <4>2. late' \subseteq (DOMAIN tasks') \X Nat
        BY <4>1
      <4> QED BY <1>4, <2>2, <4>2
    <3>2. (mod.name = "protocol_enum" => \A l \in late : l[2] \in 1..2)'
      BY <2>2, <2>4 DEF LateInv
    <3>3. (mod.name # "protocol_enum" =>
             \A l \in late : /\ \A m \in late : m[1] = l[1] => m = l
                             /\ Pair(l[1]) \in Pairs => conn[Pair(l[1])] # "waiting")'
      BY <2>2, <2>4 DEF LateInv, Pairs, Pair
    <3> QED BY <2>3, <2>4, <3>1, <3>2, <3>3 DEF LateInv
  <2>5. CASE mod' = mod /\ tasks' = tasks /\ conn' = conn
    <3>1. late' = late
      BY <2>1, <2>5, NoLateOnes
    <3>2. NoneBegins => NoneBegins'
      BY <2>2, <2>5 DEF NoneBegins, Quiet, Free, Polls, SecondStream, Pairs
    <3>3. \A l : Pair(l)' = Pair(l)
      BY <2>5 DEF Pair
    <3> QED BY <2>3, <2>4, <2>5, <3>1, <3>2, <3>3 DEF LateInv
  <2>6. ASSUME NEW c \in Pairs, ProbeAnswered(c), mod' = mod, tasks' = tasks PROVE LateInv'
    <3>0. c = <<c[1], c[2]>>
      BY DEF Pairs
    <3>1. /\ conn[c] \in {"connecting", "opened"}
          /\ \E st \in {"refused", "silent", "opened", "held"} : conn' = [conn EXCEPT ![c] = st]
      BY <2>6, <3>0 DEF ProbeAnswered, ConnectAnswered, RecordOpened, Failed
    <3>2. \A d \in Pairs : conn'[d] = conn[d] \/ conn'[d] \in {"refused", "silent", "opened", "held"}
      BY <3>1 DEF TypeOK
    <3>3. late' = late
      BY <2>1, <3>2, NoLateOnes
    <3>4. b = mod'.base
      BY <2>3, <2>6, <3>1 DEF NoneBegins, Quiet, Free
    <3>5. \A l : Pair(l)' = Pair(l)
      BY <2>6 DEF Pair
    <3> QED BY <2>4, <3>2, <3>3, <3>4, <3>5 DEF LateInv
  <2>7. ASSUME NEW c \in Pairs, ProbeBegins(c), mod' = mod, tasks' = tasks PROVE LateInv'
    <3>0. c = <<c[1], c[2]>>
      BY DEF Pairs
    <3>1. conn[c] = "waiting" /\ conn' = [conn EXCEPT ![c] = "connecting"]
      BY <2>7, <3>0 DEF ProbeBegins, ConnectBegins
    <3>2. \A d \in Pairs : conn'[d] = conn[d] \/ (d = c /\ conn'[d] = "connecting")
      BY <3>1 DEF TypeOK
    <3>3. b = mod'.base
      BY <2>3, <2>7, <3>1 DEF NoneBegins, Quiet, Free
    <3>4. \A l : Pair(l)' = Pair(l)
      BY <2>7 DEF Pair
    <3>5. ASSUME NEW l \in New
          PROVE  /\ l \in (DOMAIN tasks) \X Nat /\ l[2] = Len(tasks[l[1]].ports)
                 /\ l[1] > mod.base /\ l[1] <= mod.base + WaveSize
                 /\ Pair(l[1]) \in Pairs /\ conn[Pair(l[1])] = "waiting" /\ conn'[Pair(l[1])] = "connecting"
      <4>1. PICK k \in DOMAIN tasks : l = <<k, Len(tasks[k].ports)>> /\ Begins(k)
        BY <3>5
      <4>2. tasks[k] \in TaskRecord
        BY DEF ModTypeOK
      <4>3. Len(tasks[k].ports) \in Nat
        BY <4>2 DEF TaskRecord
      <4>4. l[1] = k /\ l[2] = Len(tasks[k].ports)
        BY <4>1
      <4>5. /\ k > mod.base /\ k <= mod.base + WaveSize
            /\ Pair(k) \in Pairs /\ conn[Pair(k)] = "waiting" /\ conn'[Pair(k)] = "connecting"
        BY <4>1 DEF Begins, InRange, Running
      <4>6. l \in (DOMAIN tasks) \X Nat
        <5>1. PICK n \in Nat : n = Len(tasks[k].ports)
          BY <4>3
        <5>2. l = <<k, n>>
          BY <4>1, <5>1
        <5> QED BY <5>2
      <4> QED BY <4>1, <4>4, <4>5, <4>6
    <3>6. late' \subseteq (DOMAIN tasks') \X Nat
      <4>1. late \subseteq (DOMAIN tasks) \X Nat /\ New \subseteq (DOMAIN tasks) \X Nat
        BY <3>5 DEF LateInv
      <4> HIDE DEF New
      <4>2. late' \subseteq (DOMAIN tasks) \X Nat
        BY <2>1, <4>1
      <4>3. PICK D : D = DOMAIN tasks /\ D = DOMAIN tasks'
        BY <2>2
      <4>4. late' \subseteq D \X Nat
        BY <4>2, <4>3
      <4> QED BY <4>3, <4>4
    <3>7. ASSUME mod.name = "protocol_enum", NEW l \in late' PROVE l[2] \in 1..2
      <4>1. CASE l \in late
        BY <3>7, <4>1 DEF LateInv
      <4>2. CASE l \in New
        <5>1. \A k \in DOMAIN tasks : Len(tasks[k].ports) \in 1..2
          BY <1>4, <3>7 DEF ProbeShapes, ShapeOf
        <5>2. l[1] \in DOMAIN tasks /\ l[2] = Len(tasks[l[1]].ports)
          <6>1. l \in (DOMAIN tasks) \X Nat /\ l[2] = Len(tasks[l[1]].ports)
            BY <3>5, <4>2
          <6> QED BY <6>1, PairParts
        <5> QED BY <5>1, <5>2
      <4> QED BY <2>1, <4>1, <4>2
    <3>8. ASSUME mod.name # "protocol_enum", NEW l \in late'
          PROVE  /\ \A m \in late' : m[1] = l[1] => m = l
                 /\ Pair(l[1]) \in Pairs => conn'[Pair(l[1])] # "waiting"
      <4>1. \A m \in late : Pair(m[1]) \in Pairs => conn[Pair(m[1])] # "waiting"
        BY <3>8 DEF LateInv
      <4>2. \A m \in late, n \in New : m[1] # n[1]
        BY <3>5, <4>1
      <4>3. \A m, n \in New : m[1] = n[1] => m = n
        BY <3>5
      <4>4. \A m, n \in late : m[1] = n[1] => m = n
        BY <3>8 DEF LateInv
      <4>5. \A m \in late' : m[1] = l[1] => m = l
        BY <2>1, <4>2, <4>3, <4>4
      <4>6. CASE l \in late
        BY <3>2, <4>1, <4>5, <4>6
      <4>7. CASE l \in New
        BY <3>5, <4>5, <4>7
      <4> QED BY <2>1, <4>6, <4>7
    <3>9. \A l \in late' : l[1] \in (b + 1)..(b + WaveSize)
      <4>1. \A l \in New : l[1] \in (mod.base + 1)..(mod.base + WaveSize)
        BY <1>0, <3>5
      <4> QED BY <2>1, <2>3, <2>7, <3>3, <4>1
    <3> QED BY <1>4, <2>2, <2>3, <2>7, <3>3, <3>4, <3>6, <3>7, <3>8, <3>9 DEF LateInv, Pairs
  <2>8. ASSUME NEW k \in DOMAIN tasks, ProbeStep(k), mod' = mod PROVE LateInv'
    <3>1. Running(k) /\ (Asks(k) \/ GivesUp(k) \/ Observes(k))
      BY <2>8, ProbeEffects
    <3>2. \A c \in Pairs : conn'[c] # conn[c] => conn'[c] \in {"idle", "dropped"} \/ Asks(k)
      BY <3>1 DEF GivesUp, Observes, LetsGo
    <3>3. Asks(k) => \A c \in Pairs : conn'[c] # conn[c] => conn'[c] = "waiting"
      BY DEF Asks, TypeOK
    <3>4. late' = late
      BY <2>1, <3>2, <3>3, NoLateOnes
    <3>5. \A j \in DOMAIN tasks : j # k => tasks'[j] = tasks[j]
      BY <2>8, ProbeList
    <3>6. ASSUME NEW l \in late, mod.name # "protocol_enum", Pair(l[1])' \in Pairs,
                 conn'[Pair(l[1])'] = "waiting"
          PROVE  FALSE
      <4>1. PICK j \in DOMAIN tasks : j = l[1]
        <5>1. l \in (DOMAIN tasks) \X Nat
          BY DEF LateInv
        <5> QED BY <5>1, PairParts
      <4>2. ~ Asks(k)
        BY <1>4, <3>6 DEF Asks, Polls, SecondStream
      <4>3. Pair(j)' # Pair(k) /\ conn[Pair(j)'] = "waiting"
        BY <3>1, <3>6, <4>1, <4>2 DEF GivesUp, Observes, LetsGo
      <4>4. Pair(j)' # Pair(j)
        BY <3>6, <4>1, <4>3 DEF LateInv
      <4>5. j = k
        BY <3>5, <4>4 DEF Pair
      <4>6. tasks'[k].addr = tasks[k].addr /\ Len(tasks[k].ports) > 1
        BY <2>8, <4>4, <4>5, OneProbe DEF Pair
      <4>7. mod.name = "host_discovery"
        <5>1. ASSUME Len(tasks[k].ports) = 1 PROVE FALSE
          <6>1. ~ (1 > 1)
            OBVIOUS
          <6> QED BY <4>6, <5>1, <6>1
        <5> QED BY <1>4, <3>6, <5>1 DEF ProbeShapes, ShapeOf
      <4>8. PICK i \in DOMAIN tasks : Pair(i) = Pair(j)'
        BY <1>4, <3>6, <4>1, <4>3 DEF ConnectionsOwned
      <4>9. tasks[i].addr = tasks[k].addr
        BY <4>5, <4>6, <4>8 DEF Pair
      <4>10. i = k
        BY <1>4, <4>7, <4>9 DEF ProbeShapes, ShapeOf
      <4> QED BY <4>3, <4>8, <4>10
    <3>7. NoneBegins => NoneBegins'
      <4> SUFFICES ASSUME NoneBegins PROVE NoneBegins'
        OBVIOUS
      <4>1. k > mod.base /\ tasks[k].out = "run"
        BY <3>1 DEF Running
      <4>2. GivesUp(k)
        BY <2>8, <4>1, QuietProbe DEF NoneBegins, Asks
      <4>3. Quiet'
        BY <4>2 DEF GivesUp, LetsGo, NoneBegins, Quiet, Free, Pairs
      <4>4. tasks'[k].out # "run"
        BY <4>2, SettleIs DEF GivesUp, Outcomes, Unobserved
      <4>5. \A j \in DOMAIN tasks : j > mod.base /\ tasks'[j].out = "run" => Polls(j)'
        BY <2>8, <3>5, <4>4 DEF NoneBegins, Polls, SecondStream
      <4> QED BY <2>2, <2>8, <4>3, <4>5 DEF NoneBegins
    <3> QED BY <2>3, <2>4, <2>8, <3>4, <3>6, <3>7
  <2>9. CASE /\ mod'.base = mod.base + WaveSize /\ tasks' = tasks /\ conn' = conn
             /\ \A k \in DOMAIN tasks : ~ Running(k)
    <3>1. late' = late
      BY <2>1, <2>9, NoLateOnes
    <3>2. Quiet'
      <4>1. Quiet
        BY <1>4, <2>9, OwnedIsQuiet
      <4> QED BY <2>9, <4>1 DEF Quiet, Free, Pairs
    <3>3. ASSUME NEW k \in DOMAIN tasks, k > mod'.base PROVE Polls(k)'
      <4>1. CASE mod.name = "protocol_enum"
        <5>1. Len(tasks[k].ports) = 2
          BY <1>4, <2>9, <3>3, <4>1 DEF ProbeShapes, ShapeOf
        <5> QED BY <2>9, <5>1 DEF Polls, SecondStream
      <4>2. CASE mod.name # "protocol_enum"
        BY <2>2, <4>2 DEF Polls, SecondStream
      <4> QED BY <4>1, <4>2
    <3>4. NoneBegins'
      BY <2>2, <3>2, <3>3 DEF NoneBegins
    <3>5. \A l : Pair(l)' = Pair(l)
      BY <2>9 DEF Pair
    <3> QED BY <2>4, <2>9, <3>1, <3>4, <3>5 DEF LateInv
  <2> QED BY <2>2, <2>5, <2>6, <2>7, <2>8, <2>9
<1> QED BY <1>2, <1>3, <1>4

\* A set of pairs with at most one for each first component has at most as many
\* elements as there are first components.
LEMMA AtMostOneEach ==
  ASSUME NEW I, IsFiniteSet(I), NEW S, \A l \in S : l[1] \in I,
         \A l, m \in S : m[1] = l[1] => m = l
  PROVE  IsFiniteSet(S) /\ Cardinality(S) <= Cardinality(I)
<1> DEFINE f == [l \in S |-> l[1]]
<1>1. f \in Injection(S, I)
  BY DEF Injection, IsInjective
<1> QED BY <1>1, FS_Injection

LEMMA LateBound ==
  ASSUME ModTypeOK, LateInv
  PROVE  CancelOverrunBounded
<1>1. PICK b \in Nat : \A l \in late : l[1] \in (b + 1)..(b + WaveSize)
  BY DEF LateInv
<1> DEFINE I == (b + 1)..(b + WaveSize)
<1>2. WaveSize \in Nat \ {0}
  BY ProbeModulesAssumption
<1>3. IsFiniteSet(I) /\ Cardinality(I) = WaveSize
  <2>1. /\ b + 1 \in Int /\ b + WaveSize \in Int /\ ~ (b + 1 > b + WaveSize)
        /\ (b + WaveSize) - (b + 1) + 1 = WaveSize
    BY <1>2
  <2> QED BY <2>1, FS_Interval
<1>4. CASE mod.name # "protocol_enum"
  <2>1. \A l, m \in late : m[1] = l[1] => m = l
    BY <1>4 DEF LateInv
  <2>2. Cardinality(late) <= Cardinality(I)
    BY <1>1, <1>3, <2>1, AtMostOneEach
  <2>3. Streams = 1
    BY <1>4 DEF Streams
  <2> QED BY <1>2, <1>3, <2>2, <2>3 DEF CancelOverrunBounded
<1>5. CASE mod.name = "protocol_enum"
  <2>1. IsFiniteSet(1..2) /\ Cardinality(1..2) = 2
    <3>1. 1 \in Int /\ 2 \in Int /\ ~ (1 > 2) /\ 2 - 1 + 1 = 2
      OBVIOUS
    <3> QED BY <3>1, FS_Interval
  <2>2. late \subseteq I \X (1..2)
    <3>1. late \subseteq (DOMAIN tasks) \X Nat /\ \A l \in late : l[2] \in 1..2
      BY <1>5 DEF LateInv
    <3>2. \A l \in (DOMAIN tasks) \X Nat : l = <<l[1], l[2]>>
      BY PairParts
    <3>3. ASSUME NEW l \in late PROVE l \in I \X (1..2)
      <4>1. PICK i \in I, n \in 1..2 : i = l[1] /\ n = l[2]
        BY <1>1, <3>1
      <4>2. l = <<i, n>>
        BY <3>1, <3>2, <4>1
      <4> QED BY <4>2
    <3> QED BY <3>3
  <2> HIDE DEF I
  <2>3. IsFiniteSet(I \X (1..2)) /\ Cardinality(I \X (1..2)) = WaveSize * 2
    <3>1. PICK J : J = 1..2
      OBVIOUS
    <3>2. IsFiniteSet(I \X J) /\ Cardinality(I \X J) = Cardinality(I) * Cardinality(J)
      BY <1>3, <2>1, <3>1, FS_Product
    <3> QED BY <1>3, <2>1, <3>1, <3>2
  <2>4. Cardinality(late) <= WaveSize * 2
    BY <2>2, <2>3, FS_Subset
  <2> QED BY <1>5, <2>4 DEF CancelOverrunBounded, Streams
<1> QED BY <1>4, <1>5

\* Once the watcher has set the flag, a module begins at most the connections
\* that one wave of its probes had asked for before (CancelOverrunBounded): each
\* probe that looks at the flag afterwards gives up, whatever the governor makes
\* the others wait for.
THEOREM CancelOverrunIsBounded == CancelSpec => []CancelOverrunBounded
<1>1. CancelInit => ModInit /\ ProbeShapes /\ LateInv
  <2>1. ASSUME CancelInit PROVE ProbeShapes /\ LateInv
    <3>1. late = {} /\ mod = NoModule
      BY <2>1 DEF CancelInit, ModInit
    <3>2. mod.pc = "none" /\ mod.name = "none" /\ mod.base \in Nat
      BY <3>1 DEF NoModule
    <3>3. \A l \in late : FALSE
      BY <3>1
    <3> QED BY <3>1, <3>2, <3>3 DEF ProbeShapes, LateInv
  <2> QED BY <2>1 DEF CancelInit
<1>2. [CancelNext]_cancelVars => [ModNext]_allVars
  BY DEF CancelNext, cancelVars
<1>3. CancelSpec => ModSpec
  BY <1>1, <1>2, PTL DEF CancelSpec, ModSpec
<1>4. CancelSpec => [](TypeOK /\ ProbeInv)
  BY <1>3, ProbeInvHolds, GuardIsImplemented, GuardTypeCorrect, PTL DEF ModulesUseTheGuard
<1>5. ASSUME TypeOK, ProbeInv, ProbeInv', ProbeShapes, LateInv, [CancelNext]_cancelVars
      PROVE  ProbeShapes' /\ LateInv'
  <2>1. ModTypeOK /\ ModTypeOK' /\ RunsInScan /\ ConnectionsOwned
    BY <1>5 DEF ProbeInv
  <2> QED BY <1>2, <1>5, <2>1, ShapesStep, LateStep
<1>6. CancelSpec => [](ProbeShapes /\ LateInv)
  BY <1>1, <1>4, <1>5, PTL DEF CancelSpec
<1>7. ProbeInv /\ LateInv => CancelOverrunBounded
  BY LateBound DEF ProbeInv
<1> QED BY <1>4, <1>6, <1>7, PTL
=============================================================================
