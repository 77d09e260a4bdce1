----------------------------- MODULE MCScanGuard -----------------------------
(***************************************************************************)
(* Eight addresses: 0..3 is an allowed private range, 4..5 link-local with *)
(* the metadata address 5, 6 is public and 7 multicast.                    *)
(***************************************************************************)
EXTENDS ScanGuard

CONSTANTS scope1, scan1, name1
MCScopes == {scope1}
MCScans == {scan1}
MCHosts == {name1}
MCAddresses == 0..7
MCBase == {0..3}
MCOptIns == {"allow_link_local"}
MCOptInRanges == [o \in MCOptIns |-> {4..5}]
MCUntouchable == {5}
MCSpecial == {{7}}
MCLocal == {0..3, 4..5, {7}}
\* The last two are refused: not opted in, and wider than a profile may be.
MCPayloads == {[entries |-> {0..3}, optins |-> {}],
               [entries |-> {0..1, 4..5}, optins |-> MCOptIns],
               [entries |-> {4..5}, optins |-> {}],
               [entries |-> {0..7}, optins |-> {}]}
MCTargets == {[kind |-> "ip", of |-> {2}], [kind |-> "cidr", of |-> 0..1],
              [kind |-> "cidr", of |-> 4..5], [kind |-> "host", of |-> name1]}
MCAnswers == {{}, {1}, {1, 4}, {1, 6}}
=============================================================================
