---------------------------- MODULE FireContract ----------------------------
(***************************************************************************)
(* What the slow control unit promises to a client about its "fire"        *)
(* command, with no thread, no driver and no memory: an accepted command   *)
(* counts upwards by one from the value after its parameter, every count   *)
(* is shown in the output attribute out2, and the command is over exactly  *)
(* when it has shown a count above EndCount.  Before that it may only be   *)
(* given up (timeout, stop of the unit), which shows nothing new.          *)
(***************************************************************************)
EXTENDS Integers

CONSTANTS
  EndCount,   \* the count a command has to exceed, 100 in the source
  IntMin,     \* the smallest and the largest value of a C++ int
  IntMax

VARIABLES
  phase,      \* "idle", "running" or "over"
  count,      \* the count of the running command
  shown       \* the value of out2

vars == <<phase, count, shown>>

\* A C++ int after an addition: two's complement, so it wraps.
Wrap(n) == ((n - IntMin) % (IntMax - IntMin + 1)) + IntMin

Init ==
  /\ phase = "idle"
  /\ count = 0
  /\ shown = 0

Accept(p) ==
  /\ phase = "idle"
  /\ phase' = "running"
  /\ count' = Wrap(p + 1)
  /\ UNCHANGED shown

Show ==
  /\ phase = "running"
  /\ count' = Wrap(count + 1)
  /\ shown' = count'
  /\ phase' = IF count' > EndCount THEN "over" ELSE "running"

\* The command leaves, whether it is over or not; what it showed stays.
Leave ==
  /\ phase # "idle"
  /\ phase' = "idle"
  /\ count' = 0
  /\ UNCHANGED shown

Next ==
  \/ \E p \in IntMin..IntMax : Accept(p)
  \/ Show
  \/ Leave

Spec == Init /\ [][Next]_vars
=============================================================================
