--------------------------- MODULE WorkerLockProofs ---------------------------
(***************************************************************************)
(* What the worker lock guarantees, for any set of process incarnations.   *)
(***************************************************************************)
EXTENDS LockWitness, TLAPS

-----------------------------------------------------------------------------
(* The inductive invariant                                                  *)

\* The owner of a row that a start judged stale is dead, and stays so: until
\* one of the accidents, every working process owns a fresh row.
JudgedIsGone ==
  \A w \in Workers : phase[w] = "sawStale" => judged[w] \in Workers /\ phase[judged[w]] = "gone"

WitnessInv ==
  /\ LockTypeOK
  /\ judged \in [Workers -> Workers \cup {NoWorker}] /\ accident \in BOOLEAN
  /\ ~accident => HolderOwnsRow /\ OwnerStarted /\ JudgedIsGone

-----------------------------------------------------------------------------
(* One worker *)

\* Every step of every process keeps the variables in their types, whatever
\* lapses and races happen.
LEMMA LockTypeStep == LockTypeOK /\ [LockNext]_lockVars => LockTypeOK'
<1> USE WorkerLockAssumption DEF LockTypeOK, Phases
<1>1. SUFFICES ASSUME LockTypeOK, LockNext PROVE LockTypeOK'
  BY DEF lockVars
<1>2. CASE Lapse
  BY <1>1, <1>2 DEF Lapse
<1>3. ASSUME NEW w \in Workers,
             \/ AcquireReadNone(w) \/ AcquireReadStale(w) \/ AcquireRefused(w)
             \/ BecomeUp(w) \/ Beat(w) \/ Crash(w)
      PROVE  LockTypeOK'
  BY <1>1, <1>3 DEF AcquireReadNone, AcquireReadStale, AcquireRefused,
     BecomeUp, Beat, Crash, Enter
<1>4. ASSUME NEW w \in Workers,
             \/ AcquireInsert(w) \/ AcquireTakeOver(w)
             \/ ReleaseRead(w) \/ ReleaseDelete(w)
      PROVE  LockTypeOK'
  BY <1>1, <1>4 DEF AcquireInsert, AcquireTakeOver, ReleaseRead, ReleaseDelete, Enter
<1> QED
  BY <1>1, <1>2, <1>3, <1>4 DEF LockNext

\* The type invariant holds of every behaviour of the lock.
THEOREM LockTypeCorrect == LockSpec => []LockTypeOK
<1>1. LockInit => LockTypeOK
  BY WorkerLockAssumption DEF LockInit, LockTypeOK, Phases
<1> QED
  BY <1>1, LockTypeStep, PTL DEF LockSpec

\* When starts do not race for a stale row and no live owner's row lapses,
\* every step preserves the inductive invariant.
LEMMA LockInvStep ==
  ASSUME ~RacingStarts, ~LiveLapses
  PROVE  LockInv /\ [LockNext]_lockVars => LockInv'
<1>1. CASE UNCHANGED lockVars
  BY <1>1 DEF lockVars, LockInv, LockTypeOK, HolderOwnsRow, TakeOverIsAlone,
     OwnerStarted, Running
<1>2. ASSUME LockInv, LockNext PROVE LockInv'
  <2> USE WorkerLockAssumption, <1>2
  <2>1. LockTypeOK'
    BY LockTypeStep DEF LockInv
  <2> DEFINE Kept == HolderOwnsRow' /\ TakeOverIsAlone' /\ OwnerStarted'
  <2>2. Kept
    <3> USE DEF LockInv, LockTypeOK, HolderOwnsRow, TakeOverIsAlone,
                OwnerStarted, Running, Enter
    <3>1. CASE Lapse
      BY <3>1 DEF Lapse
    <3>2. ASSUME NEW w \in Workers, AcquireReadNone(w) PROVE Kept
      BY <3>2 DEF AcquireReadNone
    <3>3. ASSUME NEW w \in Workers, AcquireReadStale(w) PROVE Kept
      BY <3>3 DEF AcquireReadStale
    <3>4. ASSUME NEW w \in Workers, AcquireRefused(w) PROVE Kept
      BY <3>4 DEF AcquireRefused
    <3>5. ASSUME NEW w \in Workers, AcquireInsert(w) PROVE Kept
      BY <3>5 DEF AcquireInsert
    <3>6. ASSUME NEW w \in Workers, AcquireTakeOver(w) PROVE Kept
      BY <3>6 DEF AcquireTakeOver
    <3>7. ASSUME NEW w \in Workers, BecomeUp(w) \/ Beat(w) \/ Crash(w) PROVE Kept
      BY <3>7 DEF BecomeUp, Beat, Crash
    <3>8. ASSUME NEW w \in Workers, ReleaseRead(w) \/ ReleaseDelete(w) PROVE Kept
      BY <3>8 DEF ReleaseRead, ReleaseDelete
    <3> HIDE DEF Kept, LockInv, LockTypeOK, HolderOwnsRow, TakeOverIsAlone,
                OwnerStarted, Running, Enter
    <3> QED
      BY <3>1, <3>2, <3>3, <3>4, <3>5, <3>6, <3>7, <3>8 DEF LockNext
  <2> QED
    BY <2>1, <2>2 DEF LockInv
<1> QED
  BY <1>1, <1>2

\* The inductive invariant: a working process owns a fresh row, and a stale
\* row is overwritten by one start at a time, after its owner died.
THEOREM LockInvHolds ==
  ASSUME ~RacingStarts, ~LiveLapses
  PROVE  LockSpec => []LockInv
<1>1. LockInit => LockInv
  BY WorkerLockAssumption DEF LockInit, LockInv, LockTypeOK, Phases,
     HolderOwnsRow, TakeOverIsAlone, OwnerStarted
<1> QED
  BY <1>1, LockInvStep, PTL DEF LockSpec

\* At most one process at a time is past acquire_worker_lock and not stopped:
\* the row decides, for any number of processes that start, crash and stop.
THEOREM OneWorkerOnly ==
  ASSUME ~RacingStarts, ~LiveLapses
  PROVE  LockSpec => []AtMostOneWorker
<1>1. LockInv => AtMostOneWorker
  BY DEF LockInv, HolderOwnsRow, AtMostOneWorker, Working
<1> QED
  BY <1>1, LockInvHolds, PTL

\* A displaced owner never gets the row back, with lapses and races too.
THEOREM DisplacedForGood == LockSpec => DisplacedStaysDisplaced
<1>1. LockTypeOK /\ [LockNext]_lockVars =>
        [\A w \in Workers :
           phase[w] \in {"locked", "up", "releasing", "gone"} /\ lockOwner # w
             => lockOwner' # w]_lockVars
  BY WorkerLockAssumption DEF LockTypeOK, LockNext, lockVars, Lapse,
     AcquireReadNone, AcquireReadStale, AcquireRefused, AcquireInsert,
     AcquireTakeOver, BecomeUp, Beat, ReleaseRead, ReleaseDelete, Crash, Enter
<1> QED
  BY <1>1, LockTypeCorrect, PTL DEF LockSpec, DisplacedStaysDisplaced

-----------------------------------------------------------------------------
(* With lapses and races: what it takes to have two workers *)

\* The witness only watches.
LEMMA WitnessWatches == [WitnessNext]_witnessVars => [LockNext]_lockVars
BY DEF WitnessNext, witnessVars, lockVars

LEMMA WitnessTypeStep ==
  WitnessInv /\ [WitnessNext]_witnessVars =>
    /\ LockTypeOK'
    /\ judged' \in [Workers -> Workers \cup {NoWorker}] /\ accident' \in BOOLEAN
    /\ ~accident' => ~accident
<1> SUFFICES ASSUME WitnessInv, [WitnessNext]_witnessVars
             PROVE  /\ LockTypeOK'
                    /\ judged' \in [Workers -> Workers \cup {NoWorker}] /\ accident' \in BOOLEAN
                    /\ ~accident' => ~accident
  OBVIOUS
<1>1. LockTypeOK'
  BY WitnessWatches, LockTypeStep DEF WitnessInv
<1>2. CASE WitnessNext
  BY <1>1, <1>2 DEF WitnessInv, LockTypeOK, WitnessNext, Observe
<1>3. CASE UNCHANGED witnessVars
  BY <1>1, <1>3 DEF WitnessInv, witnessVars
<1> QED BY <1>2, <1>3

\* Until an accident, a step of any process leaves every working process with
\* its row: a row that is overwritten belonged to a process that is gone.
LEMMA WitnessStep == WitnessInv /\ [WitnessNext]_witnessVars => WitnessInv'
<1> SUFFICES ASSUME WitnessInv, [WitnessNext]_witnessVars PROVE WitnessInv'
  OBVIOUS
<1>1. /\ LockTypeOK' /\ judged' \in [Workers -> Workers \cup {NoWorker}] /\ accident' \in BOOLEAN
      /\ ~accident' => ~accident
  BY WitnessTypeStep
<1> DEFINE Kept == HolderOwnsRow' /\ OwnerStarted' /\ JudgedIsGone'
<1>2. ASSUME ~accident' PROVE Kept
  <2>1. LockTypeOK /\ HolderOwnsRow /\ OwnerStarted /\ JudgedIsGone
    BY <1>1, <1>2 DEF WitnessInv
  <2>2. CASE UNCHANGED witnessVars
    BY <2>1, <2>2 DEF witnessVars, lockVars, HolderOwnsRow, OwnerStarted, JudgedIsGone
  <2>3. CASE WitnessNext
    <3>1. /\ \A w \in Workers : judged'[w] = IF Judge(w) THEN lockOwner ELSE judged[w]
          /\ ~LapsesAlive /\ \A w \in Workers : ~OverwritesUnseen(w)
      BY <1>2, <2>3 DEF WitnessNext, Observe
    <3> USE WorkerLockAssumption, <2>1, <3>1
        DEF LockTypeOK, HolderOwnsRow, OwnerStarted, JudgedIsGone, Running, Enter, Judge
    <3>2. CASE Lapse
      BY <3>2 DEF Lapse, LapsesAlive
    <3>3. ASSUME NEW w \in Workers, AcquireReadNone(w) \/ AcquireRefused(w) PROVE Kept
      BY <3>3 DEF AcquireReadNone, AcquireRefused
    <3>4. ASSUME NEW w \in Workers, AcquireReadStale(w) PROVE Kept
      BY <3>4 DEF AcquireReadStale, Phases
    <3>5. ASSUME NEW w \in Workers, AcquireInsert(w) PROVE Kept
      BY <3>5 DEF AcquireInsert
    <3>6. ASSUME NEW w \in Workers, AcquireTakeOver(w) PROVE Kept
      <4>1. lockOwner # NoWorker => lockOwner = judged[w] /\ phase[lockOwner] = "gone"
        BY <3>6 DEF AcquireTakeOver, OverwritesUnseen, TakesOver
      <4> QED BY <3>6, <4>1 DEF AcquireTakeOver
    <3>7. ASSUME NEW w \in Workers, BecomeUp(w) \/ Beat(w) \/ Crash(w) PROVE Kept
      BY <3>7 DEF BecomeUp, Beat, Crash
    <3>8. ASSUME NEW w \in Workers, ReleaseRead(w) \/ ReleaseDelete(w) PROVE Kept
      BY <3>8 DEF ReleaseRead, ReleaseDelete
    <3> HIDE DEF Kept, LockTypeOK, HolderOwnsRow, OwnerStarted, JudgedIsGone, Running, Enter, Judge
    <3> QED BY <2>3, <3>2, <3>3, <3>4, <3>5, <3>6, <3>7, <3>8 DEF WitnessNext, LockNext
  <2> QED BY <2>2, <2>3
<1> QED BY <1>1, <1>2 DEF WitnessInv

\* The only ways to two workers on one database are an owner that is alive and
\* misses its heartbeat, and a start that overwrites a row it did not judge
\* (acquire_worker_lock).
THEOREM TwoWorkersNeedAccident == WitnessSpec => []SecondWorkerNeedsAccident
<1>1. WitnessInit => WitnessInv
  BY WorkerLockAssumption DEF WitnessInit, LockInit, WitnessInv, LockTypeOK, Phases,
     HolderOwnsRow, OwnerStarted, JudgedIsGone
<1>2. WitnessInv => SecondWorkerNeedsAccident
  BY DEF WitnessInv, HolderOwnsRow, SecondWorkerNeedsAccident, AtMostOneWorker, Working
<1> QED BY <1>1, <1>2, WitnessStep, PTL DEF WitnessSpec
=============================================================================
