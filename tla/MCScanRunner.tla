----------------------------- MODULE MCScanRunner -----------------------------
(***************************************************************************)
(* ScanRunner on two process incarnations: one that stops, dies or is      *)
(* displaced in the middle of its work and one that finds what it left.    *)
(***************************************************************************)
EXTENDS QueueRefinement

CONSTANTS w1, w2
MCWorkers == {w1, w2}
=============================================================================
