------------------------------ MODULE MCPowerd ------------------------------
(* Powerd with its three profiles and three clients.                       *)
EXTENDS Powerd

CONSTANTS c1, c2, c3

ThreeCallers == {c1, c2, c3}
AllProfiles  == {"power-saver", "balanced", "performance"}
=============================================================================
