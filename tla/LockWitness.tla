------------------------------ MODULE LockWitness ------------------------------
(***************************************************************************)
(* WorkerLock with a witness of the two accidents that its check of the    *)
(* row's age cannot see: the row of a live owner grows stale, and a start  *)
(* overwrites a row that is no longer the one it judged.                   *)
(***************************************************************************)
EXTENDS WorkerLock

VARIABLES
  judged,   \* the owner each start read in the row it found stale
  accident  \* whether one of the two has happened

witnessVars == <<lockVars, judged, accident>>

WitnessInit ==
  /\ LockInit
  /\ judged = [w \in Workers |-> NoWorker]
  /\ accident = FALSE

Judge(w) == phase[w] = "off" /\ phase'[w] = "sawStale"
TakesOver(w) == phase[w] = "sawStale" /\ phase'[w] = "locked"

\* The row of an owner that is alive grows stale.
LapsesAlive == ~lockStale /\ lockStale' /\ Running(lockOwner)

\* UPDATE ... WHERE id = 1 hits a row that another start wrote meanwhile.
OverwritesUnseen(w) == TakesOver(w) /\ lockOwner # judged[w]

Observe ==
  /\ judged' = [w \in Workers |-> IF Judge(w) THEN lockOwner ELSE judged[w]]
  /\ accident' = (accident \/ LapsesAlive \/ \E w \in Workers : OverwritesUnseen(w))

WitnessNext == LockNext /\ Observe

WitnessSpec == WitnessInit /\ [][WitnessNext]_witnessVars

\* The only ways to two workers on one database: an owner that is alive missed
\* its heartbeat for thirty seconds, or two starts judged one stale row and
\* both overwrote it (acquire_worker_lock).  Crashes, refused starts, stops
\* that raise and rows that are deleted under a reader never lead there.
SecondWorkerNeedsAccident == ~accident => AtMostOneWorker
=============================================================================
