---------------------------- MODULE MCBlobSystem ----------------------------
(* Instances of BlobSystem for TLC. *)
EXTENDS BlobSystem, TLC

Symmetry == Permutations(Clients) \cup Permutations(Blobs)
=============================================================================
