----------------------------- MODULE CancelWitness -----------------------------
(***************************************************************************)
(* ProbeModules with a witness of the connections that a module still      *)
(* begins after its cancel flag was set, by probes that had looked at the  *)
(* flag before and waited in the governor since.                           *)
(***************************************************************************)
EXTENDS ProbeModules

VARIABLE late   \* of the module that runs: which of its probes, and how many
                \* of the probe's ports were left

cancelVars == <<allVars, late>>

CancelInit == ModInit /\ late = {}

Begins(k) == InRange(k) /\ conn[Pair(k)] = "waiting" /\ conn'[Pair(k)] = "connecting"

Observe ==
  late' = IF mod'.pc # "run" THEN {}
          ELSE IF flag THEN late \cup {<<k, Len(tasks[k].ports)>> : k \in {j \in DOMAIN tasks : Begins(j)}}
          ELSE late

CancelNext == ModNext /\ Observe

CancelSpec == CancelInit /\ [][CancelNext]_cancelVars

-----------------------------------------------------------------------------
(* Properties *)

\* protocol_enum opens two streams to a port.
Streams == IF mod.name = "protocol_enum" THEN 2 ELSE 1

\* After the watcher has set the flag a module begins at most the connections
\* of one wave (in_bounded_waves): the probes that looked before may still be
\* waiting in the governor, every other one looks and gives up.
CancelOverrunBounded == Cardinality(late) <= WaveSize * Streams

\* What runner.py says of the flag: long-running modules poll it so that a
\* cancel stops in-flight work.  Once the flag is set no connection begins.
CancelStopsInFlight == late = {}
=============================================================================
