--------------------------- MODULE UploadMetadata ---------------------------
(***************************************************************************)
(* The step "upload" of actions/upload-metadata/action.yml, executed by    *)
(* any number of concurrent runs of one dependency's "Test and Upload      *)
(* Metadata" workflow.  Each run downloads metadata/<dep>.json from the    *)
(* S3 bucket, computes a new list on its own runner and copies that list   *)
(* back over the object.  Nothing orders the runs: the workflow has no     *)
(* concurrency group and the copy is unconditional.                        *)
(*                                                                         *)
(* The list is modelled as the set of its entries; an entry keeps the      *)
(* fields the properties tell apart, and `run' stands for the rest of the  *)
(* payload (sha256, uri, stacks, ...), which is the run's own.             *)
(***************************************************************************)
EXTENDS Naturals

CONSTANTS
  Runs,      \* workflow runs; a re-run of a failed job is a run of its own
  Versions,  \* semantic versions of the dependency
  MaxClock,  \* bound on the seconds that pass
  NoVersion  \* the version of a run that was not dispatched yet

ASSUME MaxClockAssumption == MaxClock \in Nat
ASSUME NoVersionAssumption == NoVersion \notin Versions

VARIABLES
  clock,      \* what `date' prints on the runners, in seconds
  catalogue,  \* the entries of metadata/<dep>.json in the bucket
  pc,         \* the command each run executes next
  version,    \* the input "version" of each run
  base,       \* the downloaded file of each run
  now,        \* the shell variable `now' of each run
  overlapped  \* history: the runs that held a downloaded file at the
              \* moment a run wrote the object

vars == <<clock, catalogue, pc, version, base, now, overlapped>>

Entry == [version : Versions, created_at : Nat, modified_at : Nat, run : Runs]

Steps == {"idle", "download", "stamp", "upload", "done", "failed"}

(* Runs that hold a downloaded list they have not written back.            *)
Holding == {r \in Runs : pc[r] \in {"stamp", "upload"}}

Active == {r \in Runs : pc[r] \in {"download", "stamp", "upload"}}

EntriesOf(list, v) == {e \in list : e.version = v}

(* Faulty variants of CreatedAt: an update of a version dates it anew, and *)
(* a new version has no date.                                              *)
CreatedAtForgotten(list, v, t) == t

CreatedAtNull(list, v, t) ==
  IF EntriesOf(list, v) # {}
  THEN (CHOOSE e \in EntriesOf(list, v) : TRUE).created_at
  ELSE NoVersion

(* created_at survives an update of the same version.                      *)
CreatedAt(list, v, t) ==
  IF EntriesOf(list, v) # {}
  THEN (CHOOSE e \in EntriesOf(list, v) : TRUE).created_at
  ELSE t

NewEntry(list, v, t, r) ==
  [version |-> v, created_at |-> CreatedAt(list, v, t), modified_at |-> t, run |-> r]

(* Faulty variants of Updated: the old entry is not deleted, and the rest  *)
(* of the list is not kept.                                                *)
UpdatedNotDeleted(list, v, t, r) == list \union {NewEntry(list, v, t, r)}

UpdatedAlone(list, v, t, r) == {NewEntry(list, v, t, r)}

(* jq: del(.[] | select(.version == $version)) | [$metadata] + .           *)
Updated(list, v, t, r) ==
  (list \ EntriesOf(list, v)) \union {NewEntry(list, v, t, r)}

-----------------------------------------------------------------------------
Init ==
  /\ clock = 0
  /\ catalogue = {}
  /\ pc = [r \in Runs |-> "idle"]
  /\ version = [r \in Runs |-> NoVersion]
  /\ base = [r \in Runs |-> {}]
  /\ now = [r \in Runs |-> 0]
  /\ overlapped = [r \in Runs |-> {}]

Tick ==
  /\ clock < MaxClock
  /\ clock' = clock + 1
  /\ UNCHANGED <<catalogue, pc, version, base, now, overlapped>>

(* The workflow reaches the action with the version of its payload.        *)
Start(r, v) ==
  /\ pc[r] = "idle"
  /\ pc' = [pc EXCEPT ![r] = "download"]
  /\ version' = [version EXCEPT ![r] = v]
  /\ UNCHANGED <<clock, catalogue, base, now, overlapped>>

(* aws s3 cp s3://.../<dep>.json metadata.json                             *)
Download(r) ==
  /\ pc[r] = "download"
  /\ pc' = [pc EXCEPT ![r] = "stamp"]
  /\ base' = [base EXCEPT ![r] = catalogue]
  /\ UNCHANGED <<clock, catalogue, version, now, overlapped>>

(* Faulty variant of Stamp: the date is taken before the download.         *)
StampEarly(r) ==
  /\ \/ /\ pc[r] = "download"
        /\ now' = [now EXCEPT ![r] = clock]
        /\ UNCHANGED pc
     \/ /\ pc[r] = "stamp"
        /\ pc' = [pc EXCEPT ![r] = "upload"]
        /\ UNCHANGED now
  /\ UNCHANGED <<clock, catalogue, version, base, overlapped>>

(* now="$(date ...)": the clock of the runner; the runners' clocks are     *)
(* taken to agree.                                                         *)
Stamp(r) ==
  /\ pc[r] = "stamp"
  /\ pc' = [pc EXCEPT ![r] = "upload"]
  /\ now' = [now EXCEPT ![r] = clock]
  /\ UNCHANGED <<clock, catalogue, version, base, overlapped>>

(* aws s3 cp metadata.json s3://.../<dep>.json.  The object is replaced as *)
(* a whole; the command may still report a failure (a lost answer), which  *)
(* fails the step although the object was replaced.                        *)
Upload(r) ==
  /\ pc[r] = "upload"
  /\ \E outcome \in {"done", "failed"} : pc' = [pc EXCEPT ![r] = outcome]
  /\ catalogue' = Updated(base[r], version[r], now[r], r)
  /\ overlapped' = [overlapped EXCEPT ![r] = Holding \ {r}]
  /\ UNCHANGED <<clock, version, base, now>>

(* set -euo pipefail: a command of the step fails (or the job is           *)
(* cancelled) before the object was replaced.                              *)
Fail(r) ==
  /\ r \in Active
  /\ pc' = [pc EXCEPT ![r] = "failed"]
  /\ UNCHANGED <<clock, catalogue, version, base, now, overlapped>>

Next ==
  \/ Tick
  \/ \E r \in Runs :
       \/ \E v \in Versions : Start(r, v)
       \/ Download(r)
       \/ Stamp(r)
       \/ Upload(r)
       \/ Fail(r)

Spec == Init /\ [][Next]_vars

-----------------------------------------------------------------------------
(* Type correctness of the bucket object and of the runs' local state.     *)
TypeOK ==
  /\ clock \in Nat
  /\ catalogue \in SUBSET Entry
  /\ pc \in [Runs -> Steps]
  /\ version \in [Runs -> Versions \union {NoVersion}]
  /\ base \in [Runs -> SUBSET Entry]
  /\ now \in [Runs -> Nat]
  /\ overlapped \in [Runs -> SUBSET Runs]

Unique(list) == \A e, f \in list : e.version = f.version => e = f

(* The published list never holds two entries of one version, whatever the *)
(* interleaving of the runs that rewrite it: clients may index the answer  *)
(* of the server by version.                                               *)
UniqueVersions == Unique(catalogue)

(* A run that is about to publish dates its entry no earlier than any      *)
(* entry of the list it publishes, so the head of the published list is    *)
(* always its newest entry: the date is taken after the download.          *)
HeadIsNewest ==
  \A r \in Runs : pc[r] = "upload" =>
    \A e \in base[r] : e.modified_at <= now[r]

(* The entries a successful run published while no other run held a list   *)
(* it had downloaded.                                                      *)
PublishedAlone == {r \in Runs : pc[r] = "done" /\ overlapped[r] = {}}

(* A version published by a successful upload stays published, by an entry *)
(* at least as recent as that upload, unless another run had downloaded    *)
(* the list before and wrote it back after: overlap is the only way the    *)
(* unconditional copy of action.yml loses a version.                       *)
LostOnlyByOverlap ==
  \A r \in PublishedAlone : \E e \in catalogue :
    e.version = version[r] /\ e.modified_at >= now[r]

(* created_at of a version, once published by an upload that no other run  *)
(* overlapped, is never changed by later uploads of the same version.      *)
CreatedAtIsStable ==
  \A r \in PublishedAlone : \A e \in EntriesOf(catalogue, version[r]) :
    e.created_at = CreatedAt(base[r], version[r], now[r])

(* What the workflow's failure notice promises its readers by its absence: *)
(* every run that ended well has its version in the published metadata.    *)
(* The code does not keep this promise when runs overlap.                  *)
EveryUploadIsPublished ==
  \A r \in Runs : pc[r] = "done" => EntriesOf(catalogue, version[r]) # {}

-----------------------------------------------------------------------------
(* The list still holds what run r published.                              *)
Keeps(list, r) == \E e \in list :
  /\ e.version = version[r]
  /\ e.modified_at >= now[r]
  /\ e.created_at = CreatedAt(base[r], version[r], now[r])

(* Why the properties above are invariants: a downloaded list is as good   *)
(* as the catalogue (unique, dated in the past), and holds everything that *)
(* was published by a run that saw nobody holding a list.                  *)
InductiveInvariant ==
  /\ TypeOK
  /\ UniqueVersions
  /\ HeadIsNewest
  /\ \A r \in Runs :
       /\ pc[r] # "idle" => version[r] \in Versions
       /\ Unique(base[r])
       /\ now[r] <= clock
       /\ \A e \in base[r] : e.modified_at <= clock
  /\ \A e \in catalogue : e.modified_at <= clock
  /\ \A r \in PublishedAlone :
       /\ Keeps(catalogue, r)
       /\ \A q \in Holding : Keeps(base[q], r)

=============================================================================
