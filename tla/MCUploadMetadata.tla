-------------------------- MODULE MCUploadMetadata --------------------------
(* UploadMetadata on a small instance, with symmetric runs and versions.   *)
EXTENDS UploadMetadata, TLC

Symmetry == Permutations(Runs) \union Permutations(Versions)

=============================================================================
