-------------------------- MODULE MCReleaseListing --------------------------
(* Four releases, one on a page: a page of drafts can be the first, and    *)
(* two pages can follow it.  One tag is skipped and one is no version.     *)
EXTENDS ReleaseListing

MCName == [r \in Releases |-> CASE r = 1 -> "not semver"
                                [] r = 2 -> "skipped"
                                [] OTHER -> "version"]

=============================================================================
