------------------------------- MODULE WaitFor -------------------------------
(***************************************************************************)
(* wait-for.sh: try a TCP port until it is open or TIMEOUT tries, a second *)
(* apart, have failed.  The port opens and closes as the server behind it  *)
(* comes and goes.                                                         *)
(***************************************************************************)
EXTENDS Integers

CONSTANT Timeouts   \* values of the option -t

VARIABLES
  timeout,    \* TIMEOUT
  open,       \* the port is open
  tries,      \* tries made, the i of the loop
  verdict     \* "waiting", "connected" (exit 0) or "timedOut" (exit 1)

vars == <<timeout, open, tries, verdict>>

Init ==
  /\ timeout \in Timeouts
  /\ open \in BOOLEAN
  /\ tries = 0
  /\ verdict = "waiting"

\* The server behind the port.
Toggle ==
  /\ verdict = "waiting"
  /\ open' = ~open
  /\ UNCHANGED <<timeout, tries, verdict>>

\* seq TIMEOUT counts from 1 to TIMEOUT: it is empty when TIMEOUT is 0.
LastForgotten == 1..(timeout - 1)        \* mutant: the last try is not made
Rounds == 1..timeout

NotCounted == tries                      \* mutant: the loop does not advance
Counted == tries + 1

\* One round: announce the try, run nc, and sleep a second if it fails.
Try ==
  /\ verdict = "waiting"
  /\ tries + 1 \in Rounds
  /\ tries' = Counted
  /\ verdict' = IF open THEN "connected" ELSE "waiting"
  /\ UNCHANGED <<timeout, open>>

GiveUp ==
  /\ verdict = "waiting"
  /\ tries + 1 \notin Rounds
  /\ verdict' = "timedOut"
  /\ UNCHANGED <<timeout, open, tries>>

Next == Toggle \/ Try \/ GiveUp

\* The script runs on, whatever the server does.
Spec == Init /\ [][Next]_vars /\ WF_vars(Try \/ GiveUp)

-----------------------------------------------------------------------------
(* Properties. *)

\* The usage text says of TIMEOUT "zero for no timeout".
ZeroIsNoTimeout == timeout = 0 => verdict # "timedOut"
=============================================================================
