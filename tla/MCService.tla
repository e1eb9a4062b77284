------------------------------ MODULE MCService ------------------------------
(* Service on a small instance, with symmetric runs and versions.          *)
EXTENDS Service, TLC

Symmetry == Permutations(Runs) \union Permutations(Versions)

=============================================================================
