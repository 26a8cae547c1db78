---------------------------- MODULE MCSupervisor ----------------------------
(* Instances of Process for TLC. *)
EXTENDS Process
=============================================================================
