---------------------------- MODULE MCLifecycle ----------------------------
(* Instance of Lifecycle for TLC.  The bounds of each question, and the      *)
(* default of --always-netboot, are in the configurations.                   *)
EXTENDS Lifecycle
=============================================================================
