--------------------------- MODULE MCConnectionRate ---------------------------
(***************************************************************************)
(* Three probe tasks, two hosts, and the rate observed over one second.    *)
(***************************************************************************)
EXTENDS ConnectionRate

CONSTANTS t1, t2, t3, h1, h2
MCTasks == {t1, t2, t3}
MCHosts == {h1, h2}
=============================================================================
