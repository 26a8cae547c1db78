------------------------------- MODULE MCSsl --------------------------------
(* Instances of Ssl for TLC. *)
EXTENDS Ssl

MCDepths == {-1, 0, 1}
=============================================================================
