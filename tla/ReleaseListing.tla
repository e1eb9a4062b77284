--------------------------- MODULE ReleaseListing ---------------------------
(***************************************************************************)
(* GetAllVersionRefs of the dependencies whose upstream is a GitHub        *)
(* repository (pkg/dependency/internal/github_client.go and composer.go,   *)
(* icu.go, tini.go, yarn.go, nginx.go, rust.go), run by one job of the     *)
(* "Get New Versions" workflow after the other, while maintainers publish, *)
(* edit and delete releases.  GetNewVersions reads upstream in one step;   *)
(* this module is about what the many requests of one such reading see,    *)
(* and what the rest of the job makes of it.                               *)
(*                                                                         *)
(* A release is a number: GitHub lists the greatest first.                 *)
(***************************************************************************)
EXTENDS Naturals, FiniteSets

CONSTANTS
  Releases,    \* the releases (or tags) the repository may ever have
  Name,        \* how the tag of each is named
  PageSize,    \* releases per page, and tags per query: 100 in the code
  Dependency,  \* the dependencies retrieved from GitHub
  MaxChanges   \* bound: changes the maintainers make

ASSUME ReleasesAreNumbers == Releases \subseteq Nat /\ IsFiniteSet(Releases)
ASSUME NameAssumption == Name \in [Releases -> {"version", "skipped", "not semver"}]
ASSUME PageSizeAssumption == PageSize \in Nat \ {0}

(* The dependencies read with GetReleaseTags, page by page, and those read *)
(* with one query of GetTags.                                              *)
Paged  == {"composer", "icu", "tini", "yarn"}
Tagged == {"nginx", "rust"}

ASSUME DependencyAssumption == Dependency \subseteq Paged \union Tagged
ASSUME MaxChangesAssumption == MaxChanges \in Nat

VARIABLES
  dep,         \* the dependency of the job
  published,   \* the releases the repository has
  flagged,     \* those of them marked as draft or prerelease; no tag is
  pc,          \* "idle", "fetch", "filter" or "trigger"
  page,        \* number of the page requested next
  all,         \* the releases appended to allReleases
  refs,        \* the versions GetAllVersionRefs returned
  todo,        \* the new versions the job has not requested yet
  known,       \* the list of known versions
  doubled,     \* history: releases appended twice by this listing
  whole,       \* history: what could be listed since the listing began
  seen,        \* history: what could be listed at some time since then
  meanwhile,   \* history: what happened to releases since it began, and
               \* "cut" when the query left some out
  requested,   \* history: the versions ever requested
  repeated,    \* history: versions requested again
  removed,     \* history: a release was deleted or hidden at some time
  interrupted, \* history: a job ended between a request and its update
  changes      \* changes made by the maintainers

upstream == <<published, flagged>>
requests == <<known, requested, repeated, interrupted>>
job == <<pc, page, all, refs, todo, doubled>>
history == <<whole, seen, meanwhile>>
vars == <<dep, upstream, job, requests, history, removed, changes>>

(* How many of the releases are listed before r.                           *)
Rank(r) == Cardinality({s \in published : s > r})

PageOf(p) ==
  {r \in published : (p - 1) * PageSize <= Rank(r) /\ Rank(r) < p * PageSize}

(* What one reading at this instant should return: GetReleaseTags skips    *)
(* drafts and prereleases; no tag is flagged.                              *)
Listable == published \ flagged

Init ==
  /\ dep \in Dependency
  /\ published \in SUBSET Releases
  /\ flagged \in IF dep \in Tagged THEN {{}} ELSE SUBSET published
  /\ pc = "idle" /\ page = 1
  /\ all = {} /\ refs = {} /\ todo = {} /\ known = {} /\ doubled = {}
  /\ whole = {} /\ seen = {} /\ meanwhile = {}
  /\ requested = {} /\ repeated = {} /\ removed = FALSE /\ interrupted = FALSE
  /\ changes = 0

-----------------------------------------------------------------------------
(* The maintainers of the repository, and what a listing in progress       *)
(* remembers of them.                                                      *)

(* The job's call of GetAllVersionRefs has not returned yet.               *)
Listing == pc \in {"fetch", "filter"}

Happened(what) ==
  /\ meanwhile' = IF Listing THEN meanwhile \union {what} ELSE meanwhile
  /\ removed' = (removed \/ what # "appeared")

Witness ==
  /\ whole' = IF Listing THEN whole \intersect Listable' ELSE whole
  /\ seen' = IF Listing THEN seen \union Listable' ELSE seen

Publish(r) ==
  /\ r \notin published
  /\ published' = published \union {r}
  /\ \/ UNCHANGED flagged
     \/ dep \in Paged /\ flagged' = flagged \union {r}
  /\ Happened("appeared")

Delete(r) ==
  /\ r \in published
  /\ published' = published \ {r}
  /\ flagged' = flagged \ {r}
  /\ Happened("deleted")

(* A draft or prerelease becomes a release, or a release a prerelease.     *)
Edit(r) ==
  /\ dep \in Paged /\ r \in published
  /\ UNCHANGED published
  /\ \/ r \in flagged /\ flagged' = flagged \ {r} /\ Happened("appeared")
     \/ r \notin flagged /\ flagged' = flagged \union {r} /\ Happened("hidden")

Maintain ==
  /\ changes < MaxChanges
  /\ changes' = changes + 1
  /\ UNCHANGED <<dep, job, requests>>
  /\ \E r \in Releases : Publish(r) \/ Delete(r) \/ Edit(r)
  /\ Witness

-----------------------------------------------------------------------------
(* What GetReleaseTags appends of a page.                                   *)
Got(p) == PageOf(p) \ flagged

(* A job of the workflow begins to list the versions.                      *)
Start ==
  /\ pc = "idle"
  /\ pc' = "fetch"
  /\ whole' = Listable /\ seen' = Listable
  /\ UNCHANGED <<dep, upstream, page, all, refs, todo, doubled, requests, meanwhile,
                 removed, changes>>

(* The process of the job ends, and its variables with it.                 *)
End ==
  /\ pc' = "idle" /\ page' = 1 /\ all' = {} /\ refs' = {} /\ todo' = {} /\ doubled' = {}
  /\ whole' = {} /\ seen' = {} /\ meanwhile' = {}

Append(got, next) ==
  /\ page' = next
  /\ all' = all \union got
  /\ doubled' = doubled \union (all \intersect got)
  /\ UNCHANGED <<pc, history>>

Break == pc' = "filter" /\ UNCHANGED <<page, all, doubled, history>>

(* Faulty variants of ReadPage: an empty page is taken for a failure and   *)
(* the listing begun again; a page of prereleases ends the loop; pages     *)
(* overlap; the loop has no end.                                           *)
ReadPageAgain ==
  /\ dep \in Paged
  /\ Append(Got(page), IF PageOf(page) = {} THEN 1 ELSE page + 1)

ReadPageFiltered ==
  /\ dep \in Paged
  /\ IF Got(page) = {} THEN Break ELSE Append(Got(page), page + 1)

ReadPageOverlapping ==
  /\ dep \in Paged
  /\ IF PageOf(page) = {}
     THEN Break
     ELSE Append({r \in published \ flagged :
                    Rank(r) \in (page - 1) * PageSize .. page * PageSize}, page + 1)

ReadPageForever == dep \in Paged /\ Append(Got(page), page + 1)

(* GetReleaseTags: the loop ends with the first empty page; a page whose   *)
(* releases are all skipped is not empty.                                  *)
ReadPage ==
  /\ dep \in Paged
  /\ IF PageOf(page) = {} THEN Break ELSE Append(Got(page), page + 1)

(* GetTags: one GraphQL query, "first: 100", and no cursor.  An answer that *)
(* holds "errors" instead of tags has status 200, and is an empty list.    *)
ReadTags ==
  /\ dep \in Tagged
  /\ all' \in {PageOf(1), {}}
  /\ pc' = "filter"
  /\ meanwhile' = IF PageOf(1) = published THEN meanwhile ELSE meanwhile \union {"cut"}
  /\ UNCHANGED <<page, doubled, whole, seen>>

Fetch ==
  /\ pc = "fetch"
  /\ ReadPage \/ ReadTags
  /\ UNCHANGED <<dep, upstream, refs, todo, requests, removed, changes>>

(* composer, yarn and rust parse the tags: one that is no semantic version *)
(* is an error.  They skip prereleases, yarn also what is older than 0.7.0 *)
(* and rust the 0.x versions; icu skips four tags it names, tini and nginx *)
(* none.                                                                   *)
Parses == {"composer", "yarn", "rust"}
Skips  == Parses \union {"icu"}

Rejected == dep \in Parses /\ \E r \in all : Name[r] = "not semver"

Kept == IF dep \in Skips THEN {r \in all : Name[r] # "skipped"} ELSE all

(* The new versions are those that are not known.  A list without versions *)
(* is printed as null, from which jq cannot subtract: the job fails.       *)
Filter ==
  /\ pc = "filter"
  /\ IF Rejected \/ Kept = {}
     THEN End
     ELSE /\ pc' = "trigger"
          /\ refs' = Kept /\ todo' = Kept \ known
          /\ UNCHANGED <<page, all, doubled, history>>
  /\ UNCHANGED <<dep, upstream, requests, removed, changes>>

(* One round of the loop: the build of a new version is requested.         *)
Request(r) ==
  /\ pc = "trigger" /\ r \in todo
  /\ todo' = todo \ {r}
  /\ requested' = requested \union {r}
  /\ repeated' = repeated \union ({r} \intersect requested)
  /\ UNCHANGED <<dep, upstream, pc, page, all, refs, doubled, known, interrupted, history,
                 removed, changes>>

(* Faulty variant of UpdateKnown: only the new versions become known.      *)
UpdateKnownNew ==
  /\ pc = "trigger" /\ todo = {}
  /\ known' = refs \ known
  /\ End
  /\ UNCHANGED <<dep, upstream, requested, repeated, interrupted, removed, changes>>

(* After the loop the listing becomes what is known.                       *)
UpdateKnown ==
  /\ pc = "trigger" /\ todo = {}
  /\ known' = refs
  /\ End
  /\ UNCHANGED <<dep, upstream, requested, repeated, interrupted, removed, changes>>

(* A request to GitHub, a dispatch or the update fails, or the job is      *)
(* killed: what it requested is not known to the next one.                 *)
Fail ==
  /\ pc # "idle"
  /\ interrupted' = (interrupted \/ todo # refs \ known)
  /\ End
  /\ UNCHANGED <<dep, upstream, known, requested, repeated, removed, changes>>

Next ==
  \/ Maintain
  \/ Start \/ Fetch \/ Filter \/ UpdateKnown \/ Fail
  \/ \E r \in Releases : Request(r)

(* Every request of the web client ends within its timeout.                *)
Spec == Init /\ [][Next]_vars /\ WF_vars(Fetch)

-----------------------------------------------------------------------------
(* Types of the repository, of the job and of the histories.               *)
TypeOK ==
  /\ dep \in Dependency
  /\ published \in SUBSET Releases /\ flagged \in SUBSET published
  /\ pc \in {"idle", "fetch", "filter", "trigger"}
  /\ page \in 1 .. Cardinality(Releases) + 1
  /\ {all, refs, todo, known, doubled, whole, seen, requested, repeated} \subseteq SUBSET Releases
  /\ meanwhile \subseteq {"appeared", "hidden", "deleted", "cut"}
  /\ removed \in BOOLEAN /\ interrupted \in BOOLEAN /\ changes \in 0 .. MaxChanges

(* A listing of many requests is as good as one reading at one instant:    *)
(* it implements Snapshot.  Nothing is listed that could not be listed at  *)
(* some time meanwhile; and everything is that could be listed all the     *)
(* time, unless something was deleted meanwhile or GetTags met more tags   *)
(* than one query returns.  A query that failed is never the list the job  *)
(* goes on with.                                                           *)
Reading == INSTANCE Snapshot WITH
  Items <- Releases,
  listable <- Listable,
  mode <- CASE pc = "idle" -> "idle"
            [] pc = "trigger" -> "answered"
            [] OTHER -> "reading",
  whole <- whole,
  seen <- seen,
  excused <- {"deleted", "cut"} \intersect meanwhile # {},
  answer <- IF pc = "trigger" THEN all ELSE {}

ImplementsSnapshot == Reading!Spec

(* jq keeps duplicates, so a release appended twice would be requested     *)
(* twice by one job: it takes a release that appears between two pages.    *)
DoubledOnlyByPublication == doubled # {} => "appeared" \in meanwhile

(* A version is requested by two jobs only after a release was deleted or  *)
(* hidden (the new list then lacks versions that come back later) or a job *)
(* ended after it requested versions and before it recorded them.          *)
RepeatedOnlyAfterLoss == repeated # {} => removed \/ interrupted

(* However many releases appear meanwhile, GetReleaseTags reaches an empty *)
(* page.                                                                   *)
ListingEnds == pc = "fetch" ~> pc # "fetch"

=============================================================================
