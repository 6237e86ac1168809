---------------------------- MODULE MCUnitLauncher ----------------------------
(***************************************************************************)
(* Instances of the launcher for TLC: two runs that may meet, three pids,  *)
(* so that a server, its successor and a foreign process can exist at once.*)
(***************************************************************************)
EXTENDS UnitLauncher, TLC

CONSTANTS l1, l2, p1, p2, p3

MCLaunchers == {l1, l2}
MCPids == {p1, p2, p3}
MCSymmetry == Permutations(MCLaunchers) \cup Permutations(MCPids)
=============================================================================
