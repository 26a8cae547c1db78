---------------------------- MODULE MCStreamBuf ----------------------------
(* Instances of StreamBuf for TLC. *)
EXTENDS StreamBuf, TLC

Symmetry == Permutations(Writers)
=============================================================================
