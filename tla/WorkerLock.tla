------------------------------ MODULE WorkerLock ------------------------------
(***************************************************************************)
(* The one-row table worker_lock that is to keep a database to one worker  *)
(* process.  A process draws a fresh owner id (uuid4) when it is built, so *)
(* an element of Workers is one incarnation of the program: it starts at   *)
(* most once, and a restart is another element.                            *)
(*                                                                         *)
(* acquire_worker_lock and release_worker_lock SELECT the row first and    *)
(* write it later.  The driver opens a transaction only at the first       *)
(* INSERT, UPDATE or DELETE, so the write of another process can come      *)
(* between the two: each half is an action of its own.                     *)
(***************************************************************************)
EXTENDS Integers

CONSTANTS
  Workers,        \* process incarnations, one owner id each
  NoWorker,       \* no row in worker_lock
  RacingStarts,   \* may two processes be taking over the same stale row?
  LiveLapses      \* may a row grow stale although its owner is alive
                  \* (a suspended machine, a heartbeat task that died)?

ASSUME WorkerLockAssumption ==
  /\ NoWorker \notin Workers
  /\ RacingStarts \in BOOLEAN
  /\ LiveLapses \in BOOLEAN

VARIABLES
  lockOwner,  \* owner_id of row 1, or NoWorker when there is no row
  lockStale,  \* heartbeat_at is more than LOCK_STALE_AFTER_SECONDS old
  phase       \* where each process is between its start and its end

lockVars == <<lockOwner, lockStale, phase>>

(***************************************************************************)
(* off        not started                                                  *)
(* sawNone    acquire_worker_lock read no row and will INSERT it           *)
(* sawStale   acquire_worker_lock read a stale row and will overwrite it   *)
(* locked     the lock is taken, start has not created its tasks yet       *)
(* up         the loop and the heartbeat tasks exist                       *)
(* releasing  stop cancelled them and read its own row, to delete it       *)
(* gone       refused, stopped or crashed                                  *)
(***************************************************************************)
Phases == {"off", "sawNone", "sawStale", "locked", "up", "releasing", "gone"}

Enter(w, p) == phase' = [phase EXCEPT ![w] = p]

LockInit ==
  /\ lockOwner = NoWorker
  /\ lockStale = FALSE
  /\ phase = [w \in Workers |-> "off"]

-----------------------------------------------------------------------------
(* acquire_worker_lock *)

\* The process finds no row, and goes on to insert one.
AcquireReadNone(w) ==
  /\ phase[w] = "off"
  /\ lockOwner = NoWorker
  /\ Enter(w, "sawNone")
  /\ UNCHANGED <<lockOwner, lockStale>>

\* Mutant: the age of the heartbeat is not compared.
AcquireReadStale_AnyAge(w) ==
  /\ phase[w] = "off"
  /\ lockOwner # NoWorker
  /\ RacingStarts \/ \A v \in Workers : phase[v] # "sawStale"
  /\ Enter(w, "sawStale")
  /\ UNCHANGED <<lockOwner, lockStale>>

\* A row whose heartbeat is not after stale_before does not refuse the start.
AcquireReadStale(w) ==
  /\ phase[w] = "off"
  /\ lockOwner # NoWorker /\ lockStale
  /\ RacingStarts \/ \A v \in Workers : phase[v] # "sawStale"
  /\ Enter(w, "sawStale")
  /\ UNCHANGED <<lockOwner, lockStale>>

\* A fresh row of another owner: WorkerAlreadyRunningError ends the process.
AcquireRefused(w) ==
  /\ phase[w] = "off"
  /\ lockOwner \notin {NoWorker, w} /\ ~lockStale
  /\ Enter(w, "gone")
  /\ UNCHANGED <<lockOwner, lockStale>>

\* Mutant: INSERT OR REPLACE.
AcquireInsert_Replace(w) ==
  /\ phase[w] = "sawNone"
  /\ lockOwner' = w
  /\ lockStale' = FALSE
  /\ Enter(w, "locked")

\* INSERT with the primary key 1: it fails if the row exists by now.
AcquireInsert(w) ==
  /\ phase[w] = "sawNone"
  /\ \/ /\ lockOwner = NoWorker
        /\ lockOwner' = w
        /\ lockStale' = FALSE
        /\ Enter(w, "locked")
     \/ /\ lockOwner # NoWorker
        /\ Enter(w, "gone")
        /\ UNCHANGED <<lockOwner, lockStale>>

\* UPDATE ... WHERE id = 1: it does not look at the owner it replaces, and
\* fails only if the row was deleted meanwhile.
AcquireTakeOver(w) ==
  /\ phase[w] = "sawStale"
  /\ \/ /\ lockOwner # NoWorker
        /\ lockOwner' = w
        /\ lockStale' = FALSE
        /\ Enter(w, "locked")
     \/ /\ lockOwner = NoWorker
        /\ Enter(w, "gone")
        /\ UNCHANGED <<lockOwner, lockStale>>

-----------------------------------------------------------------------------
(* start, the heartbeat, stop, and the end of a process *)

\* start creates the loop and the heartbeat tasks.
BecomeUp(w) ==
  /\ phase[w] = "locked"
  /\ Enter(w, "up")
  /\ UNCHANGED <<lockOwner, lockStale>>

\* Mutant: the heartbeat writes row 1, owner_id included.
Beat_AnyRow(w) ==
  /\ phase[w] = "up"
  /\ lockOwner # NoWorker
  /\ lockOwner' = w
  /\ lockStale' = FALSE
  /\ UNCHANGED phase

\* UPDATE ... WHERE owner_id = self: no row is touched if another owner took
\* over, and the number of rows is not looked at.
Beat(w) ==
  /\ phase[w] = "up"
  /\ lockOwner = w
  /\ lockStale' = FALSE
  /\ UNCHANGED <<lockOwner, phase>>

\* stop cancels the tasks; release_worker_lock reads the row.
ReleaseRead(w) ==
  /\ phase[w] = "up"
  /\ Enter(w, IF lockOwner = w THEN "releasing" ELSE "gone")
  /\ UNCHANGED <<lockOwner, lockStale>>

\* DELETE ... WHERE id = 1, whoever owns the row by now.
ReleaseDelete(w) ==
  /\ phase[w] = "releasing"
  /\ lockOwner' = NoWorker
  /\ lockStale' = FALSE
  /\ Enter(w, "gone")

Running(w) == phase[w] \in {"sawNone", "sawStale", "locked", "up", "releasing"}

\* The process dies (or its start or stop raises) and leaves the row behind.
Crash(w) ==
  /\ Running(w)
  /\ Enter(w, "gone")
  /\ UNCHANGED <<lockOwner, lockStale>>

\* Thirty seconds pass with no heartbeat written.  A live owner beats every
\* five, so its row lapses only under LiveLapses.
Lapse ==
  /\ lockOwner # NoWorker
  /\ ~lockStale
  /\ LiveLapses \/ ~Running(lockOwner)
  /\ lockStale' = TRUE
  /\ UNCHANGED <<lockOwner, phase>>

LockNext ==
  \/ Lapse
  \/ \E w \in Workers :
       \/ AcquireReadNone(w) \/ AcquireReadStale(w) \/ AcquireRefused(w)
       \/ AcquireInsert(w) \/ AcquireTakeOver(w)
       \/ BecomeUp(w) \/ Beat(w)
       \/ ReleaseRead(w) \/ ReleaseDelete(w) \/ Crash(w)

LockSpec == LockInit /\ [][LockNext]_lockVars

-----------------------------------------------------------------------------
(* Properties *)

LockTypeOK ==
  /\ lockOwner \in Workers \cup {NoWorker}
  /\ lockStale \in BOOLEAN
  /\ phase \in [Workers -> Phases]

\* The process passed acquire_worker_lock and may claim and execute scans.
Working(w) == phase[w] \in {"locked", "up"}

\* Two processes never work on one database ("One worker only", runner.py;
\* start refuses while another worker is alive).
AtMostOneWorker ==
  \A v, w \in Workers : Working(v) /\ Working(w) => v = w

\* A process that works, or is about to delete its row, owns a fresh row:
\* no start or stop of another process took it away.
HolderOwnsRow ==
  \A w \in Workers : phase[w] \in {"locked", "up", "releasing"} =>
    lockOwner = w /\ ~lockStale

\* Only one start at a time is about to overwrite a stale row, and the owner
\* it replaces is not alive.
TakeOverIsAlone ==
  \A w \in Workers : phase[w] = "sawStale" =>
    /\ lockOwner # NoWorker /\ lockStale
    /\ ~Running(lockOwner)
    /\ \A v \in Workers : phase[v] = "sawStale" => v = w

\* Whoever is recorded as the owner has started.
OwnerStarted == lockOwner # NoWorker => phase[lockOwner] \notin {"off", "sawNone", "sawStale"}

LockInv == LockTypeOK /\ HolderOwnsRow /\ TakeOverIsAlone /\ OwnerStarted

\* An owner that was displaced never gets the row back: its heartbeat and its
\* release touch the row only under its own id.  This holds whatever lapses
\* and races happen.
DisplacedStaysDisplaced ==
  [][\A w \in Workers :
       phase[w] \in {"locked", "up", "releasing", "gone"} /\ lockOwner # w
         => lockOwner' # w]_lockVars
=============================================================================
