---------------------------- MODULE MCProbeModules ----------------------------
(***************************************************************************)
(* One scan of one network, with one profile that holds it: all that       *)
(* varies is what the modules meet.  0..3 has two hosts, of 2..3 only the  *)
(* first is probed, 4..7 is of IPv6 and has three hosts, one more than a   *)
(* wave, and 0..7 is more than the modules enumerate.                      *)
(***************************************************************************)
EXTENDS CancelWitness

CONSTANTS scope1, scan1
MCScopes == {scope1}
MCScans == {scan1}
MCAddresses == 0..7
MCNets == {0..7}
MCOptInRanges == [o \in {} |-> {}]
MCPayloads == {[entries |-> MCNets, optins |-> {}]}
Net(n) == [kind |-> "cidr", of |-> n]
MCTargets == {Net(0..3), Net(2..3), Net(4..7), Net(0..7)}
MCIPv6 == {4..7}
MCAnswers == {{}}
Ask(modules, discovery, ports) == [left |-> modules, discovery |-> discovery, ports |-> ports]
MCRequested == [t \in MCTargets |->
  CASE t.of = 0..3 -> {Ask(<<"host_discovery">>, <<1>>, <<>>)}
    [] t.of = 2..3 -> {Ask(<<"host_discovery">>, <<1, 2, 3>>, <<>>),
                       Ask(<<"host_discovery", "port_scan">>, <<>>, <<1, NoPort>>),
                       Ask(<<"host_discovery", "port_scan">>, <<1, NoPort>>, <<>>),
                       Ask(<<"port_scan">>, <<1>>, <<3, 1, 2, 1>>),
                       Ask(<<"port_scan", "service_detect">>, <<1>>, <<1>>),
                       Ask(<<"port_scan", "protocol_enum">>, <<1>>, <<1>>),
                       Ask(<<"service_detect", "other">>, <<1>>, <<>>)}
    [] t.of = 4..7 -> {Ask(<<"host_discovery">>, <<1>>, <<>>)}
    [] t.of = 0..7 -> {Ask(<<"host_discovery", "port_scan">>, <<1>>, <<1>>)}]
=============================================================================
