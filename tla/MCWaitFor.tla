------------------------------ MODULE MCWaitFor ------------------------------
(* wait-for.sh alone: no try, one, the default, and the 60 of dbinit.sh. *)
EXTENDS WaitFor

MCTimeouts == {0, 1, 15, 60}
=============================================================================
