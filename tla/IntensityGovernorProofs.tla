----------------------- MODULE IntensityGovernorProofs -----------------------
(***************************************************************************)
(* What the governor guarantees for any number of tasks, hosts, permits    *)
(* and probes: no permit is leaked or forged, the concurrency ceilings     *)
(* hold, a budget is overrun by less than the number of tasks, and the     *)
(* bucket hands out less than twice its rate in a second.                  *)
(***************************************************************************)
EXTENDS ConnectionRate, FiniteSetTheorems, TLAPS

-----------------------------------------------------------------------------
(* Counting tasks *)

\* 1 if b holds, else 0.
Bit(b) == IF b THEN 1 ELSE 0

\* A set of tasks that changes by t alone changes its cardinality by t alone.
LEMMA OneTaskMoves ==
  ASSUME NEW X, NEW Y, NEW t \in Tasks,
         X \subseteq Tasks, Y \subseteq Tasks, X \ {t} = Y \ {t}
  PROVE  /\ Cardinality(X) \in Nat /\ Cardinality(Y) \in Nat
         /\ Cardinality(Y) = Cardinality(X) + Bit(t \in Y) - Bit(t \in X)
<1> DEFINE R == X \ {t}
<1>1. IsFiniteSet(X) /\ IsFiniteSet(Y) /\ IsFiniteSet(R)
  BY GovernorAssumption, FS_Subset
<1>2. Cardinality(X) \in Nat /\ Cardinality(Y) \in Nat /\ Cardinality(R) \in Nat
  BY <1>1, FS_CardinalityType
<1>3. ASSUME NEW Z, IsFiniteSet(Z), Z \ {t} = R
      PROVE  Cardinality(Z) = Cardinality(R) + Bit(t \in Z)
  <2>1. CASE t \in Z
    <3>1. Z = R \cup {t} /\ t \notin R
      BY <1>3, <2>1
    <3> QED
      BY <1>1, <2>1, <3>1, FS_AddElement DEF Bit
  <2>2. CASE t \notin Z
    <3>1. Z = R
      BY <1>3, <2>2
    <3> QED
      BY <1>2, <2>2, <3>1 DEF Bit
  <2> QED
    BY <2>1, <2>2
<1>4. /\ Cardinality(X) = Cardinality(R) + Bit(t \in X)
      /\ Cardinality(Y) = Cardinality(R) + Bit(t \in Y)
  <2> HIDE DEF R
  <2>1. X \ {t} = R /\ Y \ {t} = R
    BY DEF R
  <2> QED
    BY <1>1, <1>3, <2>1
<1> QED
  BY <1>2, <1>4 DEF Bit

\* A set of tasks that t is outside of is smaller than all of them.
LEMMA RoomForOne ==
  ASSUME NEW X, NEW t \in Tasks, X \subseteq Tasks, t \notin X
  PROVE  /\ Cardinality(X) \in Nat /\ Cardinality(Tasks) \in Nat
         /\ Cardinality(X) + 1 <= Cardinality(Tasks)
<1>1. IsFiniteSet(X) /\ IsFiniteSet(Tasks) /\ IsFiniteSet(X \cup {t})
  BY GovernorAssumption, FS_Subset
<1>2. Cardinality(X \cup {t}) = Cardinality(X) + 1
  BY <1>1, FS_AddElement
<1>3. Cardinality(X \cup {t}) <= Cardinality(Tasks)
  BY <1>1, FS_Subset
<1> QED
  BY <1>1, <1>2, <1>3, FS_CardinalityType

-----------------------------------------------------------------------------
(* What a step does to one task and to the counters *)

\* Where the chain of acquires leaves t, with the permits and the charge that
\* go with the place.
Lands(t, h, p) ==
  /\ p \in {"bucket", "global", "host", "slot"}
  /\ pc' = [pc EXCEPT ![t] = p]
  /\ p \in {"bucket", "global"} => globalFree' = globalFree
  /\ p \in {"host", "slot"} => globalFree > 0 /\ globalFree' = globalFree - 1
  /\ p = "slot" => hostFree[h] > 0 /\ EnterSlot(t, h)
  /\ p # "slot" => UNCHANGED <<hostFree, scanCount, hostCount>>

\* The bucket after a step that may have asked it for a token.
BucketKept(t) ==
  /\ tokens' \in 0..Rate
  /\ \/ bucketLock' = bucketLock
     \/ bucketLock' = NoTask
     \/ bucketLock' = t /\ pc'[t] = "bucket"

\* From the global semaphore on: one of its queue, the host's queue, the slot.
LEMMA ReachGlobalLands ==
  ASSUME NEW t, NEW h, ReachGlobal(t, h)
  PROVE  \E p : Lands(t, h, p)
<1>1. CASE globalFree > 0 /\ NobodyAhead(t, "global")
  <2>1. globalFree' = globalFree - 1 /\ ReachHost(t, h)
    BY <1>1 DEF ReachGlobal
  <2>2. Lands(t, h, "slot") \/ Lands(t, h, "host")
    BY <1>1, <2>1 DEF ReachHost, EnterSlot, Lands, Goto
  <2> QED
    BY <2>2
<1>2. CASE ~(globalFree > 0 /\ NobodyAhead(t, "global"))
  <2>1. Lands(t, h, "global")
    BY <1>2 DEF ReachGlobal, Lands, Goto
  <2> QED
    BY <2>1
<1> QED
  BY <1>1, <1>2

\* With the bucket's lock.
LEMMA TryTokenLands ==
  ASSUME TypeOK, NEW t \in Tasks, NEW h, TryToken(t, h)
  PROVE  (\E p : Lands(t, h, p)) /\ BucketKept(t)
<1>1. CASE tokens >= 1
  BY <1>1, ReachGlobalLands, GovernorAssumption DEF TryToken, TypeOK, BucketKept
<1>2. CASE tokens = 0
  <2>1. Lands(t, h, "bucket")
    BY <1>2 DEF TryToken, Lands, Goto
  <2>2. BucketKept(t)
    BY <1>2 DEF TryToken, TypeOK, BucketKept, Goto
  <2> QED
    BY <2>1, <2>2
<1> QED
  BY <1>1, <1>2, GovernorAssumption DEF TypeOK

\* At the bucket.
LEMMA ReachBucketLands ==
  ASSUME TypeOK, NEW t \in Tasks, NEW h, ReachBucket(t, h)
  PROVE  (\E p : Lands(t, h, p)) /\ BucketKept(t)
<1>1. CASE TryToken(t, h)
  BY <1>1, TryTokenLands
<1>2. CASE /\ Goto(t, "bucket")
           /\ UNCHANGED <<tokens, bucketLock, globalFree, hostFree, scanCount, hostCount>>
  <2>1. Lands(t, h, "bucket")
    BY <1>2 DEF Lands, Goto
  <2>2. BucketKept(t)
    BY <1>2 DEF TypeOK, BucketKept
  <2> QED
    BY <2>1, <2>2
<1> QED
  BY <1>1, <1>2 DEF ReachBucket

-----------------------------------------------------------------------------
(* The steps, summed up: which task moved, from where to where *)

\* No other task moved.
OnlyMoves(t) ==
  \A v \in Tasks \ {t} : pc'[v] = pc[v] /\ host'[v] = host[v]

\* A new probe was within both budgets and went as far as it could.
Begins(t, h, p) ==
  /\ pc[t] = "idle" /\ ~Exhausted(h)
  /\ host' = [host EXCEPT ![t] = h]
  /\ UNCHANGED backoff
  /\ \/ Lands(t, h, p) /\ BucketKept(t)
     \/ /\ pc' = [pc EXCEPT ![t] = "backoff"]
        /\ UNCHANGED <<tokens, bucketLock, globalFree, hostFree, scanCount, hostCount>>

\* A suspended task without permits went as far as it could.
Resumes(t, p) ==
  /\ pc[t] \in {"backoff", "bucket", "global"}
  /\ bucketLock = t => bucketLock' # bucketLock \/ pc'[t] = "bucket"
  /\ Lands(t, host[t], p) /\ BucketKept(t)
  /\ UNCHANGED <<host, backoff>>

\* Every step of a task is one of these.
LEMMA StepKinds ==
  ASSUME TypeOK, NEW t \in Tasks,
         AcquireStep(t)
  PROVE  \/ \E h \in Hosts : \E p : Begins(t, h, p)
         \/ \E p : Resumes(t, p)
         \/ HostTurn(t)
<1>1. ASSUME NEW h \in Hosts, BeginAcquire(t, h) PROVE \E p : Begins(t, h, p)
  <2>1. CASE backoff[h] = 0 /\ ReachBucket(t, h)
    BY <1>1, <2>1, ReachBucketLands DEF BeginAcquire, Begins
  <2>2. CASE /\ Goto(t, "backoff")
             /\ UNCHANGED <<tokens, bucketLock, globalFree, hostFree, scanCount, hostCount>>
    BY <1>1, <2>2 DEF BeginAcquire, Begins, Goto
  <2> QED
    BY <1>1, <2>1, <2>2 DEF BeginAcquire
<1>2. ASSUME BackoffOver(t) PROVE \E p : Resumes(t, p)
  <2>1. bucketLock # t
    BY <1>2, GovernorAssumption DEF BackoffOver, TypeOK
  <2> QED
    BY <1>2, <2>1, ReachBucketLands DEF BackoffOver, Resumes
<1>3. ASSUME TokenTurn(t) PROVE \E p : Resumes(t, p)
  <2>1. bucketLock = t => bucketLock' # bucketLock
    BY <1>3, GovernorAssumption DEF TokenTurn, TryToken, TypeOK
  <2> QED
    BY <1>3, <2>1, TryTokenLands DEF TokenTurn, Resumes
<1>4. ASSUME GlobalTurn(t) PROVE \E p : Resumes(t, p)
  <2>1. bucketLock # t
    BY <1>4, GovernorAssumption DEF GlobalTurn, TypeOK
  <2>2. BucketKept(t)
    BY <1>4 DEF GlobalTurn, BucketKept, TypeOK
  <2>3. Lands(t, host[t], "slot") \/ Lands(t, host[t], "host")
    BY <1>4 DEF GlobalTurn, ReachHost, EnterSlot, Lands, Goto
  <2> QED
    BY <1>4, <2>1, <2>2, <2>3 DEF GlobalTurn, Resumes
<1> QED
  BY <1>1, <1>2, <1>3, <1>4 DEF AcquireStep

-----------------------------------------------------------------------------
(* Types *)

LEMMA TypeStep == TypeOK /\ [Next]_vars => TypeOK'
<1> SUFFICES ASSUME TypeOK, [Next]_vars PROVE TypeOK'
  OBVIOUS
<1> USE GovernorAssumption
<1>1. CASE UNCHANGED vars
  BY <1>1 DEF vars, TypeOK
<1>2. CASE Tick
  BY <1>2 DEF Tick, TypeOK
<1>3. ASSUME NEW t \in Tasks, NEW h \in Hosts, BudgetExceeded(t, h) PROVE TypeOK'
  BY <1>3 DEF BudgetExceeded, vars, TypeOK
<1>4. ASSUME NEW t \in Tasks, NEW h \in Hosts, NEW p, Begins(t, h, p) PROVE TypeOK'
  BY <1>4 DEF Begins, Lands, BucketKept, EnterSlot, Goto, TypeOK, Pcs
<1>5. ASSUME NEW t \in Tasks, NEW p, Resumes(t, p) PROVE TypeOK'
  <2>1. host[t] \in Hosts
    BY <1>5 DEF Resumes, TypeOK
  <2> QED
    BY <1>5, <2>1 DEF Resumes, Lands, BucketKept, EnterSlot, Goto, TypeOK, Pcs
<1>6. ASSUME NEW t \in Tasks, HostTurn(t) PROVE TypeOK'
  <2>1. host[t] \in Hosts
    BY <1>6 DEF HostTurn, TypeOK
  <2> QED
    BY <1>6, <2>1 DEF HostTurn, EnterSlot, Goto, TypeOK, Pcs
<1>7. ASSUME NEW t \in Tasks, ConnectStep(t) PROVE TypeOK'
  <2>1. host[t] \in Hosts
    BY <1>7 DEF ConnectStep, ConnectFails, FailedRecorded, Connected, CloseSocket, TypeOK
  <2>2. CASE ConnectFails(t)
    BY <2>1, <2>2 DEF ConnectFails, ReportError, Goto, TypeOK, Pcs
  <2>3. CASE FailedRecorded(t)
    BY <2>1, <2>3 DEF FailedRecorded, Release, EndProbe, Goto, TypeOK, Pcs
  <2>4. CASE Connected(t)
    BY <2>1, <2>4 DEF Connected, Release, Goto, TypeOK, Pcs
  <2>5. CASE CloseSocket(t)
    BY <2>1, <2>5 DEF CloseSocket, EndProbe, Goto, TypeOK, Pcs
  <2> QED
    BY <1>7, <2>2, <2>3, <2>4, <2>5 DEF ConnectStep
<1>8. ASSUME NEW t \in Tasks, CancelAcquire(t) PROVE TypeOK'
  BY <1>8 DEF CancelAcquire, EndProbe, Goto, TypeOK, Pcs
<1> QED
  BY <1>1, <1>2, <1>3, <1>4, <1>5, <1>6, <1>7, <1>8, StepKinds DEF Next

\* The governor's variables stay in their types, and a sleeper with the
\* bucket's lock is always a task that waits at the bucket.
THEOREM GovernorTypeCorrect == Spec => []TypeOK
<1>1. Init => TypeOK
  BY GovernorAssumption DEF Init, TypeOK, Pcs
<1> QED
  BY <1>1, TypeStep, PTL DEF Spec

-----------------------------------------------------------------------------
(* Counting along a step *)

SlotPcs == {"slot", "failed"}
HolderPcs == {"host", "slot", "failed"}
AdmittedPcs == {"backoff", "bucket", "global", "host"}

\* The sets the invariants count change by the task that moved.
LEMMA CountsMove ==
  ASSUME NEW t \in Tasks, OnlyMoves(t)
  PROVE  /\ Cardinality(HoldsGlobal) \in Nat
         /\ Cardinality(HoldsGlobal)' = Cardinality(HoldsGlobal)
              + Bit(pc'[t] \in HolderPcs) - Bit(pc[t] \in HolderPcs)
         /\ Cardinality(Admitted) \in Nat
         /\ Cardinality(Admitted)' = Cardinality(Admitted)
              + Bit(pc'[t] \in AdmittedPcs) - Bit(pc[t] \in AdmittedPcs)
         /\ \A h \in Hosts :
              /\ Cardinality(InSlotOf(h)) \in Nat
              /\ Cardinality(InSlotOf(h))' = Cardinality(InSlotOf(h))
                   + Bit(pc'[t] \in SlotPcs /\ host'[t] = h)
                   - Bit(pc[t] \in SlotPcs /\ host[t] = h)
              /\ Cardinality(AdmittedTo(h)) \in Nat
              /\ Cardinality(AdmittedTo(h))' = Cardinality(AdmittedTo(h))
                   + Bit(pc'[t] \in AdmittedPcs /\ host'[t] = h)
                   - Bit(pc[t] \in AdmittedPcs /\ host[t] = h)
<1> USE DEF InSlot, HoldsGlobal, InSlotOf, Admitted, AdmittedTo,
            SlotPcs, HolderPcs, AdmittedPcs
<1>1. /\ HoldsGlobal \subseteq Tasks /\ HoldsGlobal' \subseteq Tasks
      /\ HoldsGlobal \ {t} = HoldsGlobal' \ {t}
      /\ t \in HoldsGlobal <=> pc[t] \in HolderPcs
      /\ t \in HoldsGlobal' <=> pc'[t] \in HolderPcs
  BY DEF OnlyMoves
<1>2. /\ Admitted \subseteq Tasks /\ Admitted' \subseteq Tasks
      /\ Admitted \ {t} = Admitted' \ {t}
      /\ t \in Admitted <=> pc[t] \in AdmittedPcs
      /\ t \in Admitted' <=> pc'[t] \in AdmittedPcs
  BY DEF OnlyMoves
<1>3. ASSUME NEW h \in Hosts
      PROVE  /\ InSlotOf(h) \subseteq Tasks /\ InSlotOf(h)' \subseteq Tasks
             /\ InSlotOf(h) \ {t} = InSlotOf(h)' \ {t}
             /\ t \in InSlotOf(h) <=> pc[t] \in SlotPcs /\ host[t] = h
             /\ t \in InSlotOf(h)' <=> pc'[t] \in SlotPcs /\ host'[t] = h
  BY DEF OnlyMoves
<1>4. ASSUME NEW h \in Hosts
      PROVE  /\ AdmittedTo(h) \subseteq Tasks /\ AdmittedTo(h)' \subseteq Tasks
             /\ AdmittedTo(h) \ {t} = AdmittedTo(h)' \ {t}
             /\ t \in AdmittedTo(h) <=> pc[t] \in AdmittedPcs /\ host[t] = h
             /\ t \in AdmittedTo(h)' <=> pc'[t] \in AdmittedPcs /\ host'[t] = h
  BY DEF OnlyMoves
<1> HIDE DEF InSlot, HoldsGlobal, InSlotOf, Admitted, AdmittedTo,
             SlotPcs, HolderPcs, AdmittedPcs
<1>5. /\ Cardinality(HoldsGlobal) \in Nat
      /\ Cardinality(HoldsGlobal') = Cardinality(HoldsGlobal)
           + Bit(pc'[t] \in HolderPcs) - Bit(pc[t] \in HolderPcs)
  BY <1>1, OneTaskMoves DEF Bit
<1>6. /\ Cardinality(Admitted) \in Nat
      /\ Cardinality(Admitted') = Cardinality(Admitted)
           + Bit(pc'[t] \in AdmittedPcs) - Bit(pc[t] \in AdmittedPcs)
  BY <1>2, OneTaskMoves DEF Bit
<1>7. ASSUME NEW h \in Hosts
      PROVE  /\ Cardinality(InSlotOf(h)) \in Nat
             /\ Cardinality(InSlotOf(h)') = Cardinality(InSlotOf(h))
                  + Bit(pc'[t] \in SlotPcs /\ host'[t] = h)
                  - Bit(pc[t] \in SlotPcs /\ host[t] = h)
  BY <1>3, OneTaskMoves DEF Bit
<1>8. ASSUME NEW h \in Hosts
      PROVE  /\ Cardinality(AdmittedTo(h)) \in Nat
             /\ Cardinality(AdmittedTo(h)') = Cardinality(AdmittedTo(h))
                  + Bit(pc'[t] \in AdmittedPcs /\ host'[t] = h)
                  - Bit(pc[t] \in AdmittedPcs /\ host[t] = h)
  BY <1>4, OneTaskMoves DEF Bit
<1> QED
  BY <1>5, <1>6, <1>7, <1>8

-----------------------------------------------------------------------------
(* Permits *)

\* Every way into and out of a slot, cancellation included, moves a permit
\* and its holder together.
LEMMA PermitsStep ==
  TypeOK /\ PermitsConserved /\ [Next]_vars => PermitsConserved'
<1> SUFFICES ASSUME TypeOK, PermitsConserved, [Next]_vars PROVE PermitsConserved'
  OBVIOUS
<1> USE GovernorAssumption
<1>1. ASSUME UNCHANGED <<pc, host, globalFree, hostFree>> PROVE PermitsConserved'
  BY <1>1 DEF PermitsConserved, HoldsGlobal, InSlotOf, InSlot
<1>2. ASSUME NEW t \in Tasks, NEW h \in Hosts, NEW p, Begins(t, h, p)
      PROVE  PermitsConserved'
  <2>1. OnlyMoves(t)
    BY <1>2 DEF Begins, Lands, OnlyMoves, TypeOK
  <2> QED
    BY <1>2, <2>1, CountsMove
    DEF Begins, Lands, EnterSlot, Goto, TypeOK, PermitsConserved, Bit, HolderPcs, SlotPcs
<1>3. ASSUME NEW t \in Tasks, NEW p, Resumes(t, p) PROVE PermitsConserved'
  <2>1. OnlyMoves(t)
    BY <1>3 DEF Resumes, Lands, OnlyMoves, TypeOK
  <2>2. host[t] \in Hosts
    BY <1>3 DEF Resumes, TypeOK
  <2> QED
    BY <1>3, <2>1, <2>2, CountsMove
    DEF Resumes, Lands, EnterSlot, Goto, TypeOK, PermitsConserved, Bit, HolderPcs, SlotPcs
<1>4. ASSUME NEW t \in Tasks, HostTurn(t) PROVE PermitsConserved'
  <2>1. OnlyMoves(t)
    BY <1>4 DEF HostTurn, EnterSlot, Goto, OnlyMoves, TypeOK
  <2> QED
    BY <1>4, <2>1, CountsMove
    DEF HostTurn, EnterSlot, Goto, TypeOK, PermitsConserved, Bit, HolderPcs, SlotPcs
<1>5. ASSUME NEW t \in Tasks, ConnectStep(t) PROVE PermitsConserved'
  <2>1. OnlyMoves(t)
    BY <1>5 DEF ConnectStep, ConnectFails, FailedRecorded, Connected, CloseSocket,
       EndProbe, Goto, OnlyMoves, TypeOK
  <2>2. host[t] \in Hosts
    BY <1>5 DEF ConnectStep, ConnectFails, FailedRecorded, Connected, CloseSocket, TypeOK
  <2> USE <2>1, <2>2, CountsMove DEF TypeOK, PermitsConserved, Bit, HolderPcs, SlotPcs
  <2>3. CASE ConnectFails(t)
    BY <2>3 DEF ConnectFails, Goto
  <2>4. CASE FailedRecorded(t)
    BY <2>4 DEF FailedRecorded, Release, EndProbe, Goto
  <2>5. CASE Connected(t)
    BY <2>5 DEF Connected, Release, Goto
  <2>6. CASE CloseSocket(t)
    BY <2>6 DEF CloseSocket, EndProbe, Goto
  <2> QED
    BY <1>5, <2>3, <2>4, <2>5, <2>6 DEF ConnectStep
<1>6. ASSUME NEW t \in Tasks, CancelAcquire(t) PROVE PermitsConserved'
  <2>1. OnlyMoves(t)
    BY <1>6 DEF CancelAcquire, EndProbe, Goto, OnlyMoves, TypeOK
  <2> QED
    BY <1>6, <2>1, CountsMove
    DEF CancelAcquire, EndProbe, Goto, TypeOK, PermitsConserved, Bit, HolderPcs, SlotPcs
<1> QED
  BY <1>1, <1>2, <1>3, <1>4, <1>5, <1>6, StepKinds
  DEF Next, vars, Tick, BudgetExceeded

\* No permit is lost or made up, for any number of tasks, hosts and permits.
THEOREM PermitsNeverLeak == Spec => []PermitsConserved
<1>1. Init => PermitsConserved
  <2> SUFFICES ASSUME Init PROVE PermitsConserved
    OBVIOUS
  <2>1. HoldsGlobal = {} /\ \A h \in Hosts : InSlotOf(h) = {}
    BY DEF Init, HoldsGlobal, InSlot, InSlotOf
  <2> QED
    BY <2>1, FS_EmptySet, GovernorAssumption DEF Init, PermitsConserved
<1> QED
  BY <1>1, PermitsStep, GovernorTypeCorrect, PTL DEF Spec

\* At most global_concurrency connects are in progress, and at most
\* per_host_concurrency of them to any one host.
THEOREM CeilingsHold == Spec => []ConcurrencyCeiling
<1>1. TypeOK /\ PermitsConserved => ConcurrencyCeiling
  <2> SUFFICES ASSUME TypeOK, PermitsConserved PROVE ConcurrencyCeiling
    OBVIOUS
  <2>1. InSlot \subseteq HoldsGlobal /\ HoldsGlobal \subseteq Tasks
    BY DEF InSlot, HoldsGlobal
  <2>2. IsFiniteSet(HoldsGlobal)
    BY <2>1, GovernorAssumption, FS_Subset
  <2>3. IsFiniteSet(InSlot) /\ Cardinality(InSlot) <= Cardinality(HoldsGlobal)
    BY <2>1, <2>2, FS_Subset
  <2>4. \A h \in Hosts : IsFiniteSet(InSlotOf(h))
    BY <2>3, FS_Subset DEF InSlotOf
  <2> QED
    BY <2>2, <2>3, <2>4, FS_CardinalityType, GovernorAssumption
    DEF TypeOK, PermitsConserved, ConcurrencyCeiling
<1> QED
  BY <1>1, PermitsNeverLeak, GovernorTypeCorrect, PTL

-----------------------------------------------------------------------------
(* Budgets *)

\* A probe is admitted only below the budget, when at most all other tasks
\* are admitted and not counted; being counted ends being admitted.
LEMMA BudgetStep ==
  TypeOK /\ BudgetOverrunBounded /\ [Next]_vars => BudgetOverrunBounded'
<1> SUFFICES ASSUME TypeOK, BudgetOverrunBounded, [Next]_vars
             PROVE  BudgetOverrunBounded'
  OBVIOUS
<1> USE GovernorAssumption
<1>0. Cardinality(Tasks) \in Nat
  BY FS_CardinalityType
<1>1. ASSUME UNCHANGED <<pc, host, scanCount, hostCount>> PROVE BudgetOverrunBounded'
  BY <1>1 DEF BudgetOverrunBounded, Admitted, AdmittedTo
<1>2. ASSUME NEW t \in Tasks, NEW h \in Hosts, NEW p, Begins(t, h, p)
      PROVE  BudgetOverrunBounded'
  <2>1. OnlyMoves(t)
    BY <1>2 DEF Begins, Lands, OnlyMoves, TypeOK
  <2>2. Cardinality(Admitted) + 1 <= Cardinality(Tasks)
    BY <1>2, RoomForOne DEF Begins, Admitted
  <2>3. Cardinality(AdmittedTo(h)) + 1 <= Cardinality(Tasks)
    BY <1>2, RoomForOne DEF Begins, Admitted, AdmittedTo
  <2>4. scanCount + 1 <= ScanBudget /\ hostCount[h] + 1 <= HostBudget
    BY <1>2 DEF Begins, Exhausted, TypeOK
  <2>5. \/ /\ pc'[t] = "slot"
           /\ scanCount' = scanCount + 1
           /\ hostCount' = [hostCount EXCEPT ![h] = @ + 1]
        \/ pc'[t] \in AdmittedPcs /\ UNCHANGED <<scanCount, hostCount>>
    BY <1>2 DEF Begins, Lands, EnterSlot, TypeOK, AdmittedPcs
  <2>6. pc[t] = "idle" /\ host[t] = NoHost /\ host'[t] = h
    BY <1>2 DEF Begins, TypeOK
  <2>7. scanCount' + Cardinality(Admitted)' <= ScanBudget - 1 + Cardinality(Tasks)
    BY <1>0, <2>1, <2>2, <2>4, <2>5, <2>6, CountsMove DEF TypeOK, Bit, AdmittedPcs
  <2>8. hostCount'[h] + Cardinality(AdmittedTo(h))' <= HostBudget - 1 + Cardinality(Tasks)
    BY <1>0, <2>1, <2>3, <2>4, <2>5, <2>6, CountsMove DEF TypeOK, Bit, AdmittedPcs
  <2>9. ASSUME NEW g \in Hosts, g # h
        PROVE  /\ hostCount'[g] = hostCount[g]
               /\ Cardinality(AdmittedTo(g))' = Cardinality(AdmittedTo(g))
    BY <2>1, <2>5, <2>6, <2>9, CountsMove DEF TypeOK, Bit
  <2> QED
    BY <2>7, <2>8, <2>9 DEF BudgetOverrunBounded
<1>3. ASSUME NEW t \in Tasks, NEW p, Resumes(t, p) PROVE BudgetOverrunBounded'
  <2>1. OnlyMoves(t)
    BY <1>3 DEF Resumes, Lands, OnlyMoves, TypeOK
  <2>2. host[t] \in Hosts
    BY <1>3 DEF Resumes, TypeOK
  <2> QED
    BY <1>0, <1>3, <2>1, <2>2, CountsMove
    DEF Resumes, Lands, EnterSlot, Goto, TypeOK, BudgetOverrunBounded, Bit, AdmittedPcs
<1>4. ASSUME NEW t \in Tasks, HostTurn(t) PROVE BudgetOverrunBounded'
  <2>1. OnlyMoves(t)
    BY <1>4 DEF HostTurn, EnterSlot, Goto, OnlyMoves, TypeOK
  <2> QED
    BY <1>0, <1>4, <2>1, CountsMove
    DEF HostTurn, EnterSlot, Goto, TypeOK, BudgetOverrunBounded, Bit, AdmittedPcs
<1>5. ASSUME NEW t \in Tasks, ConnectStep(t) \/ CancelAcquire(t)
      PROVE  BudgetOverrunBounded'
  <2>1. OnlyMoves(t) /\ UNCHANGED <<scanCount, hostCount>> /\ pc'[t] \notin AdmittedPcs
    BY <1>5 DEF ConnectStep, ConnectFails, FailedRecorded, Connected, CloseSocket,
       CancelAcquire, EndProbe, Goto, OnlyMoves, TypeOK, AdmittedPcs
  <2> QED
    BY <1>0, <2>1, CountsMove DEF TypeOK, BudgetOverrunBounded, Bit
<1> QED
  BY <1>1, <1>2, <1>3, <1>4, <1>5, StepKinds DEF Next, vars, Tick, BudgetExceeded

\* However the tasks interleave, a scan makes fewer than ScanBudget + |Tasks|
\* probes, and fewer than HostBudget + |Tasks| of any one host.
THEOREM BudgetOverrunIsBounded == Spec => []BudgetOverrunBounded
<1>1. Init => BudgetOverrunBounded
  <2> SUFFICES ASSUME Init PROVE BudgetOverrunBounded
    OBVIOUS
  <2>1. Admitted = {} /\ \A h \in Hosts : AdmittedTo(h) = {}
    BY DEF Init, Admitted, AdmittedTo
  <2>2. Cardinality(Tasks) \in Nat /\ Cardinality({}) = 0
    BY FS_EmptySet, FS_CardinalityType, GovernorAssumption
  <2>3. \A c \in Nat : 0 <= ScanBudget - 1 + c /\ 0 <= HostBudget - 1 + c
    BY GovernorAssumption
  <2>4. scanCount + Cardinality(Admitted) = 0
    BY <2>1, <2>2 DEF Init
  <2>5. \A h \in Hosts : hostCount[h] + Cardinality(AdmittedTo(h)) = 0
    BY <2>1, <2>2 DEF Init
  <2> QED
    BY <2>2, <2>3, <2>4, <2>5 DEF BudgetOverrunBounded
<1> QED
  BY <1>1, BudgetStep, GovernorTypeCorrect, PTL DEF Spec

-----------------------------------------------------------------------------
(* The rate *)

\* What the bucket handed out in the last j ticks came from a bucket that held
\* Rate tokens at most, and j - 1 refills.
RateInv ==
  /\ taken \in [1..Rate -> Nat]
  /\ \A j \in 1..Rate : tokens + taken[j] <= Rate + j - 1

\* Observing changes nothing: the other theorems hold under RateSpec too.
LEMMA RateStepIsStep == [RateNext]_rateVars => [Next]_vars
BY DEF RateNext, rateVars, Next

\* A step of a task takes one token or none.
LEMMA TakesOneToken ==
  ASSUME TypeOK, NEW t \in Tasks,
         (\E h \in Hosts : BudgetExceeded(t, h)) \/ AcquireStep(t) \/ ConnectStep(t) \/ CancelAcquire(t)
  PROVE  tokens' = tokens \/ tokens' = tokens - 1
<1>1. ASSUME NEW h, TryToken(t, h) PROVE tokens' = tokens \/ tokens' = tokens - 1
  BY <1>1 DEF TryToken
<1>2. ASSUME NEW h, ReachBucket(t, h) PROVE tokens' = tokens \/ tokens' = tokens - 1
  BY <1>1, <1>2 DEF ReachBucket
<1>3. CASE \E h \in Hosts : BudgetExceeded(t, h)
  BY <1>3 DEF BudgetExceeded, vars
<1>4. CASE AcquireStep(t)
  BY <1>1, <1>2, <1>4 DEF AcquireStep, BeginAcquire, BackoffOver, TokenTurn, GlobalTurn, HostTurn
<1>5. CASE ConnectStep(t)
  BY <1>5 DEF ConnectStep, ConnectFails, FailedRecorded, Connected, CloseSocket
<1>6. CASE CancelAcquire(t)
  BY <1>6 DEF CancelAcquire
<1> QED BY <1>3, <1>4, <1>5, <1>6

LEMMA RateStep == TypeOK /\ RateInv /\ [RateNext]_rateVars => RateInv'
<1> SUFFICES ASSUME TypeOK, RateInv, [RateNext]_rateVars PROVE RateInv'
  OBVIOUS
<1> USE GovernorAssumption
<1>1. tokens \in 0..Rate
  BY DEF TypeOK
<1>2. CASE UNCHANGED rateVars
  BY <1>2 DEF rateVars, vars, RateInv
\* A tick moves every window by one place and fills in one token at most.
<1>3. CASE Tick /\ taken' = NextTick
  <2>1. tokens' = IF tokens < Rate THEN tokens + 1 ELSE Rate
    BY <1>3 DEF Tick
  <2>2. taken' \in [1..Rate -> Nat]
    BY <1>3 DEF NextTick, RateInv
  <2>3. ASSUME NEW j \in 1..Rate PROVE tokens' + taken'[j] <= Rate + j - 1
    <3>1. CASE j = 1
      BY <1>1, <1>3, <2>1, <3>1 DEF NextTick
    <3>2. CASE j # 1
      <4>1. j - 1 \in 1..Rate /\ taken'[j] = taken[j - 1]
        BY <1>3, <3>2 DEF NextTick
      <4>2. taken[j - 1] \in Nat /\ tokens + taken[j - 1] <= Rate + (j - 1) - 1
        BY <4>1 DEF RateInv
      <4> QED BY <1>1, <2>1, <4>1, <4>2
    <3> QED BY <3>1, <3>2
  <2> QED BY <2>2, <2>3 DEF RateInv
\* A token that is taken moves from the bucket to every window.
<1>4. ASSUME NEW t \in Tasks, Observe,
             (\E h \in Hosts : BudgetExceeded(t, h)) \/ AcquireStep(t) \/ ConnectStep(t) \/ CancelAcquire(t)
      PROVE  RateInv'
  <2>1. tokens' = tokens \/ tokens' = tokens - 1
    BY <1>4, TakesOneToken
  <2>2. CASE tokens' = tokens
    <3>1. taken' = taken
      BY <1>1, <1>4, <2>2 DEF Observe
    <3> QED BY <2>2, <3>1 DEF RateInv
  <2>3. CASE tokens' = tokens - 1
    <3>1. taken' = [i \in 1..Rate |-> taken[i] + 1]
      BY <1>1, <1>4, <2>3 DEF Observe
    <3>2. taken' \in [1..Rate -> Nat]
      BY <3>1 DEF RateInv
    <3>3. ASSUME NEW j \in 1..Rate PROVE tokens' + taken'[j] <= Rate + j - 1
      <4>1. taken[j] \in Nat /\ tokens + taken[j] <= Rate + j - 1 /\ taken'[j] = taken[j] + 1
        BY <3>1 DEF RateInv
      <4> QED BY <1>1, <2>3, <4>1
    <3> QED BY <3>2, <3>3 DEF RateInv
  <2> QED BY <2>1, <2>2, <2>3
<1> QED BY <1>2, <1>3, <1>4 DEF RateNext

\* In any second the bucket hands out less than twice its rate
\* (_TokenBucket.acquire), for any rate, tasks and hosts.
THEOREM BurstsAreBounded == RateSpec => []BurstBounded
<1>1. RateInit => Init /\ RateInv
  BY GovernorAssumption DEF RateInit, Init, RateInv
<1>2. RateSpec => Spec
  BY <1>1, RateStepIsStep, PTL DEF RateSpec, Spec
<1>3. RateSpec => []RateInv
  BY <1>1, <1>2, RateStep, GovernorTypeCorrect, PTL DEF RateSpec
<1>4. TypeOK /\ RateInv => BurstBounded
  <2> SUFFICES ASSUME TypeOK, RateInv PROVE BurstBounded
    OBVIOUS
  <2>1. Rate \in 1..Rate /\ tokens \in 0..Rate
    BY GovernorAssumption DEF TypeOK
  <2>2. taken[Rate] \in Nat /\ tokens + taken[Rate] <= Rate + Rate - 1
    BY <2>1 DEF RateInv
  <2> QED BY <2>1, <2>2, GovernorAssumption DEF BurstBounded
<1> QED BY <1>2, <1>3, <1>4, GovernorTypeCorrect, PTL
=============================================================================
