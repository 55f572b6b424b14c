---------------------------- MODULE MCSystemModes ----------------------------
(* Instances of SystemModes for TLC. *)
EXTENDS SystemModes
=============================================================================
