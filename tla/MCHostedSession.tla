--------------------------- MODULE MCHostedSession ---------------------------
(***************************************************************************)
(* An instance of the hosted session for TLC: a client with a prompt on    *)
(* one of the two units of a process, the one of the command line.         *)
(***************************************************************************)
EXTENDS HostedSession

CONSTANTS a, u1, u2

MCSlow == {a}
MCUnits == {u1, u2}
=============================================================================
