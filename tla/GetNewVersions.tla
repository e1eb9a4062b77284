--------------------------- MODULE GetNewVersions ---------------------------
(***************************************************************************)
(* The "Get New Versions" workflow of one dependency                       *)
(* (.github/templates/get-new-versions.yml with the action                 *)
(* actions/list-new-upstream-dependency-versions): hourly and manual jobs  *)
(* compare the upstream versions with the known-versions object in a GCS   *)
(* bucket, request a build for each new version and then overwrite the     *)
(* object with the upstream list.                                          *)
(***************************************************************************)
EXTENDS Naturals

CONSTANTS
  Jobs,      \* jobs of the workflow that can exist at one time
  Versions,  \* versions the upstream source can list
  MaxFaults  \* bound on the failures of remote calls and of jobs

ASSUME MaxFaultsAssumption == MaxFaults \in Nat

VARIABLES
  upstream,   \* the versions GetAllVersionRefs returns when it succeeds
  known,      \* the object known-versions/<dep>.json
  ahead,      \* the unfinished jobs that were created before each job
  pc,         \* the step each job executes next
  knownRead,  \* steps.known-versions.outputs.known-versions: {the list}, or
              \* {} when the output is empty
  listed,     \* steps.get-new-versions.outputs.upstream-versions
  todo,       \* the versions the job's loop has not requested yet
  faults,     \* failures so far
  requested,  \* history: versions a build request was sent for
  accepted,   \* history: versions a build request was accepted for
  settled     \* history: versions recorded by a job that ended well and
              \* not withdrawn by upstream since

vars == <<upstream, known, ahead, pc, knownRead, listed, todo, faults,
          requested, accepted, settled>>

job == <<ahead, pc, knownRead, listed, todo>>

JobSteps == {"idle", "turnstyle", "read", "list", "trigger", "update"}

-----------------------------------------------------------------------------
Init ==
  /\ upstream \in SUBSET Versions
  /\ known \in SUBSET Versions
  /\ ahead = [j \in Jobs |-> {}]
  /\ pc = [j \in Jobs |-> "idle"]
  /\ knownRead = [j \in Jobs |-> {}]
  /\ listed = [j \in Jobs |-> {}]
  /\ todo = [j \in Jobs |-> {}]
  /\ faults = 0
  /\ requested = known
  /\ accepted = known
  /\ settled = known \intersect upstream

(* The upstream source publishes and retires versions as it pleases.       *)
Release(v) ==
  /\ v \notin upstream
  /\ upstream' = upstream \union {v}
  /\ UNCHANGED <<known, job, faults, requested, accepted, settled>>

Withdraw(v) ==
  /\ v \in upstream
  /\ upstream' = upstream \ {v}
  /\ settled' = settled \ {v}
  /\ UNCHANGED <<known, job, faults, requested, accepted>>

(* schedule or workflow_dispatch creates a job.                            *)
Create(j) ==
  /\ pc[j] = "idle"
  /\ pc' = [pc EXCEPT ![j] = "turnstyle"]
  /\ ahead' = [ahead EXCEPT ![j] = {i \in Jobs : pc[i] # "idle"}]
  /\ UNCHANGED <<upstream, known, knownRead, listed, todo, faults,
                 requested, accepted, settled>>

(* Faulty variant of Turnstyle: no waiting.                                *)
TurnstyleOpen(j) ==
  /\ pc[j] = "turnstyle"
  /\ pc' = [pc EXCEPT ![j] = "read"]
  /\ UNCHANGED <<upstream, known, ahead, knownRead, listed, todo, faults,
                 requested, accepted, settled>>

(* softprops/turnstyle: wait until every earlier job is over.  A job is a  *)
(* new run of the workflow; a run that maintainers start again keeps its   *)
(* place before the later ones and is not modelled.                        *)
Turnstyle(j) ==
  /\ pc[j] = "turnstyle"
  /\ ahead[j] = {}
  /\ pc' = [pc EXCEPT ![j] = "read"]
  /\ UNCHANGED <<upstream, known, ahead, knownRead, listed, todo, faults,
                 requested, accepted, settled>>

ReadKnown(j) ==
  /\ pc[j] = "read"
  /\ pc' = [pc EXCEPT ![j] = "list"]
  /\ knownRead' = [knownRead EXCEPT ![j] = {known}]
  /\ UNCHANGED <<upstream, known, ahead, listed, todo, faults,
                 requested, accepted, settled>>

(* Faulty variant of ReadNothing: the failure is read as a list of "".     *)
ReadEmptyName(j) ==
  /\ pc[j] = "read"
  /\ faults < MaxFaults
  /\ faults' = faults + 1
  /\ pc' = [pc EXCEPT ![j] = "list"]
  /\ knownRead' = [knownRead EXCEPT ![j] = {{""}}]
  /\ UNCHANGED <<upstream, known, ahead, listed, todo,
                 requested, accepted, settled>>

(* The exit status of `gsutil cat' is lost inside echo "...$(...)": the    *)
(* step succeeds with an empty output.                                     *)
ReadNothing(j) ==
  /\ pc[j] = "read"
  /\ faults < MaxFaults
  /\ faults' = faults + 1
  /\ pc' = [pc EXCEPT ![j] = "list"]
  /\ knownRead' = [knownRead EXCEPT ![j] = {}]
  /\ UNCHANGED <<upstream, known, ahead, listed, todo,
                 requested, accepted, settled>>

(* GetAllVersionRefs, then jq: $upstream_versions - $known_versions.  An   *)
(* empty slice is marshalled as null and an unreadable object is no JSON:  *)
(* both make jq fail, see Abandon.                                         *)
ListVersions(j) ==
  /\ pc[j] = "list"
  /\ upstream # {}
  /\ pc' = [pc EXCEPT ![j] = "trigger"]
  /\ listed' = [listed EXCEPT ![j] = upstream]
  /\ \E read \in knownRead[j] : todo' = [todo EXCEPT ![j] = upstream \ read]
  /\ UNCHANGED <<upstream, known, ahead, knownRead, faults,
                 requested, accepted, settled>>

(* One round of the loop: curl -X POST .../dispatches, accepted.           *)
Trigger(j, v) ==
  /\ pc[j] = "trigger"
  /\ v \in todo[j]
  /\ todo' = [todo EXCEPT ![j] = @ \ {v}]
  /\ requested' = requested \union {v}
  /\ accepted' = accepted \union {v}
  /\ UNCHANGED <<upstream, known, ahead, pc, knownRead, listed, faults, settled>>

(* The API answers with an error status: curl runs without --fail, so the  *)
(* loop goes on.                                                           *)
TriggerRejected(j, v) ==
  /\ pc[j] = "trigger"
  /\ v \in todo[j]
  /\ faults < MaxFaults
  /\ faults' = faults + 1
  /\ todo' = [todo EXCEPT ![j] = @ \ {v}]
  /\ requested' = requested \union {v}
  /\ UNCHANGED <<upstream, known, ahead, pc, knownRead, listed, accepted, settled>>

(* Faulty variant of Leave: later jobs go on waiting for a finished job.   *)
LeaveUnseen(j) ==
  /\ ahead' = [ahead EXCEPT ![j] = {}]
  /\ pc' = [pc EXCEPT ![j] = "idle"]
  /\ knownRead' = [knownRead EXCEPT ![j] = {}]
  /\ listed' = [listed EXCEPT ![j] = {}]
  /\ todo' = [todo EXCEPT ![j] = {}]

(* A job is over: it leaves the turnstyle's sight and its runner is gone.  *)
Leave(j) ==
  /\ ahead' = [i \in Jobs |-> IF i = j THEN {} ELSE ahead[i] \ {j}]
  /\ pc' = [pc EXCEPT ![j] = "idle"]
  /\ knownRead' = [knownRead EXCEPT ![j] = {}]
  /\ listed' = [listed EXCEPT ![j] = {}]
  /\ todo' = [todo EXCEPT ![j] = {}]

(* The connection breaks while the request is under way: curl fails and    *)
(* with it the step (bash -e), whether or not the request arrived.         *)
TriggerBroken(j, v) ==
  /\ pc[j] = "trigger"
  /\ v \in todo[j]
  /\ faults < MaxFaults
  /\ faults' = faults + 1
  /\ requested' = requested \union {v}
  /\ accepted' \in {accepted, accepted \union {v}}
  /\ Leave(j)
  /\ UNCHANGED <<upstream, known, settled>>

LoopDone(j) ==
  /\ pc[j] = "trigger"
  /\ todo[j] = {}
  /\ pc' = [pc EXCEPT ![j] = "update"]
  /\ UNCHANGED <<upstream, known, ahead, knownRead, listed, todo, faults,
                 requested, accepted, settled>>

(* Faulty variant of UpdateKnown: upstream is listed anew for the update.  *)
UpdateKnownAnew(j) ==
  /\ pc[j] = "update"
  /\ known' = upstream
  /\ settled' = upstream
  /\ Leave(j)
  /\ UNCHANGED <<upstream, faults, requested, accepted>>

(* gsutil cp known_versions gs://...: the whole listed set replaces it.    *)
UpdateKnown(j) ==
  /\ pc[j] = "update"
  /\ known' = listed[j]
  /\ settled' = (settled \union listed[j]) \intersect upstream
  /\ Leave(j)
  /\ UNCHANGED <<upstream, faults, requested, accepted>>

(* The data makes a job's jq command fail: the job ends before the loop.   *)
Abandon(j) ==
  /\ pc[j] = "list"
  /\ upstream = {} \/ knownRead[j] = {}
  /\ Leave(j)
  /\ UNCHANGED <<upstream, known, faults, requested, accepted, settled>>

(* Any step of a job fails, or the job is cancelled or times out.          *)
Fail(j) ==
  /\ pc[j] # "idle"
  /\ faults < MaxFaults
  /\ faults' = faults + 1
  /\ Leave(j)
  /\ UNCHANGED <<upstream, known, requested, accepted, settled>>

(* The steps of a job that succeed.                                        *)
Progress(j) ==
  \/ Turnstyle(j)
  \/ ReadKnown(j)
  \/ ListVersions(j)
  \/ Abandon(j)
  \/ \E v \in Versions : Trigger(j, v)
  \/ LoopDone(j)
  \/ UpdateKnown(j)

Fault(j) ==
  \/ ReadNothing(j)
  \/ \E v \in Versions : TriggerRejected(j, v) \/ TriggerBroken(j, v)
  \/ Fail(j)

Next ==
  \/ \E v \in Versions : Release(v) \/ Withdraw(v)
  \/ \E j \in Jobs : Create(j) \/ Progress(j) \/ Fault(j)

Spec == Init /\ [][Next]_vars

(* The schedule creates a job again and again, and GitHub runs the steps   *)
(* of a job it started; upstream and the failures owe nothing.             *)
Fairness ==
  /\ \A j \in Jobs : WF_vars(Progress(j))
  /\ WF_vars(\E j \in Jobs : Create(j))

FairSpec == Spec /\ Fairness

-----------------------------------------------------------------------------
(* Types of the shared objects and of what the jobs hold.                  *)
TypeOK ==
  /\ upstream \in SUBSET Versions
  /\ known \in SUBSET Versions
  /\ ahead \in [Jobs -> SUBSET Jobs]
  /\ pc \in [Jobs -> JobSteps]
  /\ knownRead \in [Jobs -> SUBSET SUBSET Versions]
  /\ listed \in [Jobs -> SUBSET Versions]
  /\ todo \in [Jobs -> SUBSET Versions]
  /\ faults \in 0..MaxFaults
  /\ requested \in SUBSET Versions
  /\ accepted \in SUBSET requested
  /\ settled \in SUBSET Versions

(* A version that upstream keeps listing is never forgotten once a job     *)
(* recorded it, although every job overwrites the whole object with its    *)
(* own, older, view of upstream.                                           *)
SettledStaysKnown == settled \subseteq known

(* No job has a version in its loop that was recorded and never withdrawn: *)
(* a build is not requested twice because two jobs overlap.                *)
NoRepeatedRequest == \A j \in Jobs : todo[j] \intersect settled = {}

(* The jobs implement VersionWatch: in particular a version becomes known  *)
(* only after a build was requested for it, whatever step of a job fails.  *)
Watch == INSTANCE VersionWatch
ImplementsWatch == Watch!Spec

(* A version that upstream lists has a build requested for it, or is       *)
(* withdrawn, once the failures stop.                                      *)
NewVersionIsRequested ==
  \A v \in Versions : v \in upstream ~> (v \in requested \/ v \notin upstream)

(* What the workflow promises when it raises no issue: every version it    *)
(* records as known was picked up, that is, its build was accepted.  An    *)
(* error status from the dispatch API breaks it.                           *)
KnownWasPickedUp == known \subseteq accepted

-----------------------------------------------------------------------------
(* A job is in its critical section once the turnstyle let it pass.        *)
Inside(j) == pc[j] \in {"read", "list", "trigger", "update"}

(* Of two unfinished jobs one waits for the other, and a job inside waits  *)
(* for none: at most one job is inside.                                    *)
Serialised ==
  /\ \A i, j \in Jobs :
       pc[i] # "idle" /\ pc[j] # "idle" /\ i # j => i \in ahead[j] \/ j \in ahead[i]
  /\ \A j \in Jobs : Inside(j) => ahead[j] = {}

(* What the job inside holds, relative to the shared objects.              *)
Coherent(j) ==
  /\ \A read \in knownRead[j] : read = known
  /\ pc[j] \in {"idle", "turnstyle", "read"} => knownRead[j] = {}
  /\ pc[j] \notin {"trigger", "update"} => todo[j] = {}
  /\ pc[j] = "update" => todo[j] = {}
  /\ pc[j] \in {"trigger", "update"} =>
       /\ todo[j] \intersect known = {}
       /\ listed[j] \subseteq requested \union todo[j]
       /\ settled \subseteq listed[j]

(* Why the properties above hold: only the job inside writes, so what it   *)
(* read is still what the bucket holds.                                    *)
InductiveInvariant ==
  /\ TypeOK
  /\ Serialised
  /\ \A j \in Jobs : Coherent(j)
  /\ known \subseteq requested
  /\ settled \subseteq known \intersect upstream

=============================================================================
