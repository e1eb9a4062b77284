------------------------------ MODULE MCListings ------------------------------
(* Listings with three releases: 2 and 1, whose strings are ordered the     *)
(* other way round, and 5, which shares a page of Python with 1 and whose   *)
(* number names no channel; one version that is left out and one that is no *)
(* version.  The number of version 2 names another channel than the table.  *)
EXTENDS Listings

MCKind == [v \in Versions |-> CASE v = 3 -> "other" [] v = 4 -> "unversioned" [] OTHER -> "release"]

MCTextRank == [v \in Versions |-> CASE v = 1 -> 2 [] v = 2 -> 1 [] OTHER -> v]

MCChannels == {"2.1", "2.0"}

MCPrefix == [v \in Versions |-> IF v = 5 THEN "3.0" ELSE "2.1"]

MCWrongChannel == [v \in {2} |-> "2.0"]

MCPageKey == [v \in Versions |-> IF v = 5 THEN 1 ELSE v]

=============================================================================
