-------------------------- MODULE MCSlowControlUnit --------------------------
(***************************************************************************)
(* Instances of the slow control unit for TLC.  Ints are three bits wide so *)
(* that both overflows happen: parameter 3 overflows in cnt = parm + 1,    *)
(* parameter 2 in the first cnt++.                                         *)
(***************************************************************************)
EXTENDS SlowControlUnit

CONSTANTS b1, b2

MCIntMin == -4
MCParms == {2, 3}
MCTimeouts == {-1, 0, 2}
MCRandMaxes == {-2, 4}
MCBlocks == {b1, b2}

\* One half, which unitInit accepts and op2 truncates to nothing.
FractionalRandMaxes == {-2, 1, 4}
=============================================================================
