-------------------------- MODULE MCTrafficWriter --------------------------
(* Instances of TrafficWriter for TLC.  The liveness properties rule out     *)
(* symmetry, so this module adds no definition.                              *)
EXTENDS TrafficWriter
=============================================================================
