----------------------------- MODULE MCScanExport -----------------------------
(***************************************************************************)
(* ScanExport on two process incarnations: a view may be read in the first *)
(* one, across its work, or in the one that repeats it.                    *)
(***************************************************************************)
EXTENDS ScanExport

CONSTANTS w1, w2
MCWorkers == {w1, w2}
MCPages == {[limit |-> 1, offset |-> 0], [limit |-> 2, offset |-> 1]}
=============================================================================
