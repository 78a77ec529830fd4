---------------------------- MODULE MCEventStream ----------------------------
(***************************************************************************)
(* An instance of EventStream for TLC: two specialists, so that they can   *)
(* run side by side, and two tools.                                        *)
(***************************************************************************)
EXTENDS EventStream
=============================================================================
