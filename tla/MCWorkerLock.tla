----------------------------- MODULE MCWorkerLock -----------------------------
(***************************************************************************)
(* WorkerLock on four process incarnations: an owner that dies or is       *)
(* displaced, two that start together, and one more that meets the result. *)
(***************************************************************************)
EXTENDS LockWitness

CONSTANTS w1, w2, w3, w4
MCWorkers == {w1, w2, w3, w4}
=============================================================================
