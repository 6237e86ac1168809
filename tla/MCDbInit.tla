------------------------------ MODULE MCDbInit ------------------------------
(***************************************************************************)
(* Two runs of dbinit.sh for TLC, with one try for couchbase and two for   *)
(* mongo: wait-for.sh counts them the same way, whatever their number.     *)
(***************************************************************************)
EXTENDS DbInit

CONSTANTS r1, r2

MCRuns == {r1, r2}
MCAttempts == [couchbase |-> 1, mongo |-> 2]
=============================================================================
