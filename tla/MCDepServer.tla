---------------------------- MODULE MCDepServer ----------------------------
(* DepServer with one dependency that is asked for in two spellings and    *)
(* one that may never have been uploaded.                                  *)
EXTENDS DepServer, TLC

MCLower == [n \in {"go", "Go", "tini"} |-> IF n = "tini" THEN "tini" ELSE "go"]

Symmetry == Permutations(Requests)

=============================================================================
