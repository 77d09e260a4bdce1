--------------------------- MODULE MCResponseCache ---------------------------
(***************************************************************************)
(* Two tasks and one key: they miss together and store together.           *)
(***************************************************************************)
EXTENDS ResponseCache

CONSTANTS t1, t2, k1
MCTasks == {t1, t2}
MCKeys == {k1}
=============================================================================
