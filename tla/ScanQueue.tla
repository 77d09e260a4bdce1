------------------------------ MODULE ScanQueue ------------------------------
(***************************************************************************)
(* What the durable queue promises to whoever submits a scan, whatever the *)
(* processes behind it do: scans are taken up in the order of submission,  *)
(* one at a time; what was taken up is concluded once, or goes back to     *)
(* wait; what is concluded stays so until it is removed.                   *)
(***************************************************************************)
EXTENDS Integers

CONSTANT Ids       \* scans, numbered in the order of submission
VARIABLE stage     \* of each scan

Stages == {"none", "waiting", "working", "over", "removed"}

QueueInit == stage = [s \in Ids |-> "none"]

In(p) == {s \in Ids : stage[s] = p}

Submit(s) ==
  /\ stage[s] = "none"
  /\ \A t \in Ids : t < s => stage[t] # "none"
  /\ stage' = [stage EXCEPT ![s] = "waiting"]

\* The oldest scan that waits is taken up, when no other is worked on.
TakeUp(s) ==
  /\ s \in In("waiting") /\ \A t \in In("waiting") : s <= t
  /\ In("working") = {}
  /\ stage' = [stage EXCEPT ![s] = "working"]

Conclude(s) ==
  /\ stage[s] = "working"
  /\ stage' = [stage EXCEPT ![s] = "over"]

\* Work that was interrupted waits again, with the place it had.
PutBack == stage' = [s \in Ids |-> IF stage[s] = "working" THEN "waiting" ELSE stage[s]]

\* Users remove any scan, the retention removes several.
Remove(gone) ==
  /\ \A s \in gone : stage[s] # "none"
  /\ stage' = [s \in Ids |-> IF s \in gone THEN "removed" ELSE stage[s]]

QueueNext ==
  \/ \E s \in Ids : Submit(s) \/ TakeUp(s) \/ Conclude(s)
  \/ PutBack
  \/ \E gone \in SUBSET Ids : Remove(gone)

QueueSpec == QueueInit /\ [][QueueNext]_stage
=============================================================================
