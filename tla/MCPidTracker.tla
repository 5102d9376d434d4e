---------------------------- MODULE MCPidTracker ----------------------------
(* Instances of PidTracker for TLC.                                         *)
EXTENDS PidTracker
=============================================================================
