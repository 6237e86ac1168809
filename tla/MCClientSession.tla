--------------------------- MODULE MCClientSession ---------------------------
(***************************************************************************)
(* Instances of the client session for TLC: a client with a prompt and two *)
(* real-time ones on the same unit, or one real-time client alone.         *)
(***************************************************************************)
EXTENDS ClientSession, TLC

CONSTANTS a, r, s

MCSlow == {a}
MCRealTime == {r, s}
Alone == {r}
None == {}
ClientSymmetry == Permutations(MCRealTime)
=============================================================================
