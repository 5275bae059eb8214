--------------------------- MODULE MCLeaderLabel ---------------------------
(* TLC instances of LeaderLabel. *)
EXTENDS LeaderLabel
CONSTANTS p1, p2
MCPods == {p1, p2}
=============================================================================
