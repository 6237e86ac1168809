------------------------ MODULE MCRealTimeControlUnit ------------------------
(***************************************************************************)
(* Instances of the real-time control unit for TLC: three requests that may*)
(* overlap, two values of the channel.                                     *)
(***************************************************************************)
EXTENDS RealTimeControlUnit, TLC

CONSTANTS s1, s2, s3, v1, v2

MCSetters == {s1, s2, s3}
MCValues == {v1, v2}
=============================================================================
