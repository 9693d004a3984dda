---------------------------- MODULE MCPortsHunt ----------------------------
(* Two COM ports: one hunt group, or two standalone lines, or one of each. *)
EXTENDS VmodemPorts, TLC
OneGroup == {[p \in Ports |-> 0]}
AnyConfig == [Ports -> 0 .. NGroups]
TwoLines == {[p \in Ports |-> NoGroup]}
NoUses == {}
DtrUse == {"DTR"}
HangupUse == {"DEINIT", "MUX_POLL", "ATH"}
Reconfigured == {"MUX_LISTEN", "MUX_HUNT_LISTEN"}
SockSymmetry == Permutations(Socks)
============================================================================
