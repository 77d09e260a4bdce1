--------------------------- MODULE QueueRefinement ---------------------------
(***************************************************************************)
(* The worker processes of ScanRunner implement the queue of ScanQueue.    *)
(***************************************************************************)
EXTENDS ScanRunner

StageOf(status) ==
  CASE status = "none" -> "none"
    [] status = "queued" -> "waiting"
    [] status = "running" -> "working"
    [] status \in TerminalScan -> "over"
    [] status = "deleted" -> "removed"

Stage == [s \in Scans |-> StageOf(scan[s].status)]

Queue == INSTANCE ScanQueue WITH Ids <- Scans, stage <- Stage

\* First come, first served, one at a time, and never twice to an end: every
\* step of the processes, their crashes, recoveries and the requests that come
\* between claim_next_scan's read and its update, is a step of the queue that
\* is promised (claim_next_scan, recover_interrupted, _finish, delete_scan,
\* sweep_old_scans).
ImplementsQueue == Queue!QueueSpec
=============================================================================
