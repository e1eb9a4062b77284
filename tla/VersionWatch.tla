---------------------------- MODULE VersionWatch ----------------------------
(***************************************************************************)
(* What the hourly "Get New Versions" workflow promises of the versions of *)
(* one dependency, without its jobs: a build is requested for a version    *)
(* only while the version is not known, and only versions whose build was  *)
(* requested become known.                                                 *)
(***************************************************************************)
CONSTANT Versions

VARIABLES
  upstream,   \* the versions the upstream source lists
  known,      \* the versions recorded as handled
  requested   \* the versions a build was ever requested for

vars == <<upstream, known, requested>>

(* Whatever is known at the beginning was handled before.                  *)
Init ==
  /\ upstream \in SUBSET Versions
  /\ known \in SUBSET Versions
  /\ requested = known

Release(v) ==
  /\ upstream' = upstream \union {v}
  /\ UNCHANGED <<known, requested>>

Withdraw(v) ==
  /\ upstream' = upstream \ {v}
  /\ UNCHANGED <<known, requested>>

Request(v) ==
  /\ v \notin known
  /\ requested' = requested \union {v}
  /\ UNCHANGED <<upstream, known>>

Learn(S) ==
  /\ S \subseteq requested
  /\ known' = S
  /\ UNCHANGED <<upstream, requested>>

Next ==
  \/ \E v \in Versions : Release(v) \/ Withdraw(v) \/ Request(v)
  \/ \E S \in SUBSET Versions : Learn(S)

Spec == Init /\ [][Next]_vars

=============================================================================
