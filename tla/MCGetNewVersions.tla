-------------------------- MODULE MCGetNewVersions --------------------------
(* GetNewVersions on a small instance; jobs and versions are symmetric.    *)
EXTENDS GetNewVersions, TLC

Symmetry == Permutations(Jobs) \union Permutations(Versions)

=============================================================================
