---------------------------- MODULE MCStreamStack ----------------------------
(* Instances of StreamStack. *)
EXTENDS StreamStack
=============================================================================
