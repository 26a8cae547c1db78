----------------------------- MODULE MCStreamGzip -----------------------------
(* Instances of StreamGzip. *)
EXTENDS StreamGzip
=============================================================================
