---------------------------- MODULE MCEventStream ----------------------------
(***************************************************************************)
(* EventStream with the scan and its footprint ticker as publishers, and   *)
(* one client: the streams of two clients share nothing but the table.     *)
(***************************************************************************)
EXTENDS EventStream

CONSTANTS scan, ticker, browser
MCClients == {browser}
MCPublishers == {scan, ticker}
MCTicker == {ticker}
=============================================================================
