------------------------------ MODULE Pipeline ------------------------------
(***************************************************************************)
(* The life of a build request of one dependency: the workflow "Build and  *)
(* Upload" (.github/templates/build-upload.yml with the actions            *)
(* get-upstream-dependency, build-dependency and upload-dependency), the   *)
(* dispatch that starts "Test and Upload Metadata"                         *)
(* (.github/templates/test-upload-metadata.yml) and that workflow, which   *)
(* ends in the upload-metadata action: the module UploadMetadata, whose    *)
(* actions are steps of this one.                                          *)
(*                                                                         *)
(* A file stands for its own sha256.  The bytes of a compiled artifact     *)
(* depend on its version, its source and on the build (Builds).            *)
(***************************************************************************)
EXTENDS Naturals

CONSTANTS
  Runs,         \* build requests; a re-run of a failed job is one of its own
  RawVersions,  \* versions as upstream names them
  Versions,     \* semantic versions
  SemVer,       \* what convert-semver makes of each raw version
  Sources,      \* contents an upstream file may have
  Builds,       \* outcomes of compiling one source more than once
  SkipCompile,  \* skip_compile of the dependency's configuration
  SkipTest,     \* skip_test
  Requires,     \* the dependency has a required_dependency
  MaxClock, NoVersion, \* of UploadMetadata
  NoFile        \* what an empty uri or sha256 stands for

ASSUME SemVerAssumption == SemVer \in [RawVersions -> Versions]
ASSUME ConfigurationAssumption ==
  SkipCompile \in BOOLEAN /\ SkipTest \in BOOLEAN /\ Requires \in BOOLEAN
ASSUME MaxClockAssumption == MaxClock \in Nat
ASSUME NoVersionAssumption == NoVersion \notin Versions

VARIABLES
  clock, catalogue, pc, version, base, now, overlapped, \* of UploadMetadata
  stage,    \* the step of its workflow each request is at
  raw,      \* VERSION of each request
  upstream, \* the upstream file of each raw version
  verified, \* steps.upstream.outputs.sha256
  artifact, \* the file steps.build made
  payload,  \* uri and sha256 of the dispatched client_payload
  deps,     \* the objects below deps/<dep>/ of the S3 bucket: name and file
  tested,   \* history: the downloads that passed the tests, and their uris
  issues    \* requests a workflow-failure issue was filed for

Metadata == INSTANCE UploadMetadata

metadataVars == <<clock, catalogue, pc, version, base, now, overlapped>>

vars == <<metadataVars, stage, raw, upstream, verified, artifact, payload,
          deps, tested, issues>>

Artifact == [version : RawVersions, source : Sources, build : Builds]

Files == Sources \union Artifact

ASSUME NoFileAssumption == NoFile \notin Files

BuildStages == {"upstream", "build", "upload", "dispatch"}

TestStages == {"required", "test", "semver", "stacks", "metadata"}

Stages == {"idle", "done", "failed"} \union BuildStages \union TestStages

UpstreamUri(v) == [place |-> "upstream", name |-> v]

DepsUri(name) == [place |-> "deps", name |-> name]

NoPayload == [uri |-> NoFile, sha256 |-> NoFile]

(* buildpacks-ci names the artifact after its version and its sha256       *)
(* (README.md: go_go1.16.2_linux_x64_bionic_abd965e7.tgz).                 *)
Filename(file) == file

(* The files a download from a uri can return.                             *)
Fetch(uri) ==
  {upstream[v] : v \in {w \in RawVersions : uri = UpstreamUri(w)}} \union
  {o.file : o \in {p \in deps : uri = DepsUri(p.name)}}

-----------------------------------------------------------------------------
Init ==
  /\ Metadata!Init
  /\ stage = [r \in Runs |-> "idle"]
  /\ raw = [r \in Runs |-> NoVersion]
  /\ upstream \in [RawVersions -> Sources]
  /\ verified = [r \in Runs |-> NoFile]
  /\ artifact = [r \in Runs |-> NoFile]
  /\ payload = [r \in Runs |-> NoPayload]
  /\ deps = {}
  /\ tested = {}
  /\ issues = {}

(* Upstream publishes other bytes under the same name.                     *)
Replace(v, s) ==
  /\ upstream[v] # s
  /\ upstream' = [upstream EXCEPT ![v] = s]
  /\ UNCHANGED <<metadataVars, stage, raw, verified, artifact, payload, deps,
                 tested, issues>>

Tick ==
  /\ Metadata!Tick
  /\ UNCHANGED <<stage, raw, upstream, verified, artifact, payload, deps,
                 tested, issues>>

Goto(r, next) ==
  /\ stage' = [stage EXCEPT ![r] = next]
  /\ UNCHANGED issues

(* A step fails: the job skips the others but for the notice, which may    *)
(* fail as well.                                                           *)
Failed(r) ==
  /\ stage' = [stage EXCEPT ![r] = "failed"]
  /\ issues' \in {issues, issues \union {r}}

(* repository_dispatch <dep>-build or workflow_dispatch.                   *)
Request(r, v) ==
  /\ stage[r] = "idle"
  /\ raw' = [raw EXCEPT ![r] = v]
  /\ Goto(r, "upstream")
  /\ UNCHANGED <<metadataVars, upstream, verified, artifact, payload, deps, tested>>

(* get-upstream-dependency: the sha256 is computed from a download, or the *)
(* one upstream publishes is taken, which may be of older or of newer      *)
(* bytes than those behind the uri (see Retrieval).  An answer without uri *)
(* and sha256 is possible: a retriever may return an empty DepVersion and  *)
(* no error.                                                               *)
GetUpstream(r) ==
  /\ stage[r] = "upstream"
  /\ \E file \in Sources \union {NoFile} : verified' = [verified EXCEPT ![r] = file]
  /\ Goto(r, IF SkipCompile THEN "dispatch" ELSE "build")
  /\ UNCHANGED <<metadataVars, raw, upstream, artifact, payload, deps, tested>>

(* Faulty variant of Build: the sha256 of the download is not compared.    *)
BuildUnverified(r) ==
  /\ stage[r] = "build"
  /\ \E b \in Builds : artifact' =
       [artifact EXCEPT ![r] = [version |-> raw[r], source |-> upstream[raw[r]], build |-> b]]
  /\ Goto(r, "upload")
  /\ UNCHANGED <<metadataVars, raw, upstream, verified, payload, deps, tested>>

(* build-dependency downloads the source again and compiles it only when   *)
(* its sha256 is the one that was computed before.                         *)
Build(r) ==
  /\ stage[r] = "build"
  /\ IF verified[r] = upstream[raw[r]]
     THEN /\ \E b \in Builds : artifact' =
               [artifact EXCEPT ![r] = [version |-> raw[r], source |-> verified[r], build |-> b]]
          /\ Goto(r, "upload")
     ELSE Failed(r) /\ UNCHANGED artifact
  /\ UNCHANGED <<metadataVars, raw, upstream, verified, payload, deps, tested>>

(* upload-dependency: aws s3 cp replaces an object of the same name.       *)
UploadArtifact(r) ==
  /\ stage[r] = "upload"
  /\ LET name == Filename(artifact[r]) IN
       deps' = {o \in deps : o.name # name} \union {[name |-> name, file |-> artifact[r]]}
  /\ Goto(r, "dispatch") \/ Failed(r)
  /\ UNCHANGED <<metadataVars, raw, upstream, verified, artifact, payload, tested>>

FirstTestStage ==
  IF SkipTest THEN "semver" ELSE IF Requires THEN "required" ELSE "test"

(* Faulty variants of Payload: the variable sha256 of the build script     *)
(* still holds the sha256 of the source; uri and sha256 are swapped.       *)
PayloadOfSource(r) == [uri |-> DepsUri(Filename(artifact[r])), sha256 |-> verified[r]]

PayloadSwapped(r) == [uri |-> artifact[r], sha256 |-> DepsUri(Filename(artifact[r]))]

(* The payload of the two variants of the template.                        *)
Payload(r) ==
  IF ~SkipCompile
  THEN [uri |-> DepsUri(Filename(artifact[r])), sha256 |-> artifact[r]]
  ELSE IF verified[r] = NoFile THEN NoPayload
  ELSE [uri |-> UpstreamUri(raw[r]), sha256 |-> verified[r]]

(* Faulty variant of TriggerTests: an event no workflow listens to.        *)
TriggerNothing(r) ==
  /\ stage[r] = "dispatch"
  /\ Goto(r, "idle")
  /\ UNCHANGED <<metadataVars, raw, upstream, verified, artifact, payload, deps, tested>>

(* The dispatch starts the second workflow.  When its answer is lost the   *)
(* first workflow fails and says so, but the second one runs.              *)
TriggerTests(r) ==
  /\ stage[r] = "dispatch"
  /\ payload' = [payload EXCEPT ![r] = Payload(r)]
  /\ stage' = [stage EXCEPT ![r] = FirstTestStage]
  /\ issues' \in {issues, issues \union {r}}
  /\ UNCHANGED <<metadataVars, raw, upstream, verified, artifact, deps, tested>>

(* The server is asked for the required dependency's metadata; without it  *)
(* jq fails.                                                               *)
GetRequired(r) ==
  /\ stage[r] = "required"
  /\ Goto(r, "test") \/ Failed(r)
  /\ UNCHANGED <<metadataVars, raw, upstream, verified, artifact, payload, deps, tested>>

(* Faulty variant of Test: the verdict of the container is not looked at.  *)
TestIgnored(r) ==
  /\ stage[r] = "test"
  /\ Goto(r, "semver")
  /\ \/ \E file \in Fetch(payload[r].uri) :
          tested' = tested \union {[uri |-> payload[r].uri, file |-> file]}
     \/ UNCHANGED tested
  /\ UNCHANGED <<metadataVars, raw, upstream, verified, artifact, payload, deps>>

(* test-dependency (see DependencyTest): an empty uri, or one where        *)
(* nothing is found, fails; what is found may pass or not.                 *)
Test(r) ==
  /\ stage[r] = "test"
  /\ \/ /\ \E file \in Fetch(payload[r].uri) :
             tested' = tested \union {[uri |-> payload[r].uri, file |-> file]}
        /\ Goto(r, "semver")
     \/ Failed(r) /\ UNCHANGED tested
  /\ UNCHANGED <<metadataVars, raw, upstream, verified, artifact, payload, deps>>

(* convert-semver; a version it cannot convert fails, see Fail.            *)
ConvertVersion(r) ==
  /\ stage[r] = "semver"
  /\ Goto(r, "stacks")
  /\ UNCHANGED <<metadataVars, raw, upstream, verified, artifact, payload, deps, tested>>

(* get-compatible-stacks fails when no stack is compatible; otherwise      *)
(* upload-metadata starts.                                                 *)
GetStacks(r) ==
  /\ stage[r] = "stacks"
  /\ \/ Metadata!Start(r, SemVer[raw[r]]) /\ Goto(r, "metadata")
     \/ Failed(r) /\ UNCHANGED metadataVars
  /\ UNCHANGED <<raw, upstream, verified, artifact, payload, deps, tested>>

(* The steps of upload-metadata decide how the workflow ends.              *)
UploadMetadata(r) ==
  /\ stage[r] = "metadata"
  /\ Metadata!Download(r) \/ Metadata!Stamp(r) \/ Metadata!Upload(r) \/ Metadata!Fail(r)
  /\ IF pc'[r] = "failed" THEN Failed(r)
     ELSE Goto(r, IF pc'[r] = "done" THEN "done" ELSE "metadata")
  /\ UNCHANGED <<raw, upstream, verified, artifact, payload, deps, tested>>

(* Any other step fails, or the job is cancelled or times out.             *)
Fail(r) ==
  /\ stage[r] \in (BuildStages \union TestStages) \ {"metadata"}
  /\ Failed(r)
  /\ UNCHANGED <<metadataVars, raw, upstream, verified, artifact, payload, deps, tested>>

(* A maintainer re-runs the failed second workflow of request q: the same  *)
(* payload, a new job.                                                     *)
Rerun(r, q) ==
  /\ stage[r] = "idle"
  /\ stage[q] = "failed"
  /\ payload[q] # NoPayload
  /\ raw' = [raw EXCEPT ![r] = raw[q]]
  /\ payload' = [payload EXCEPT ![r] = payload[q]]
  /\ verified' = [verified EXCEPT ![r] = verified[q]]
  /\ Goto(r, FirstTestStage)
  /\ UNCHANGED <<metadataVars, upstream, artifact, deps, tested>>

(* A step of a job that runs.                                              *)
Step(r) ==
  \/ GetUpstream(r) \/ Build(r) \/ UploadArtifact(r) \/ TriggerTests(r)
  \/ GetRequired(r) \/ Test(r) \/ ConvertVersion(r) \/ GetStacks(r)
  \/ UploadMetadata(r) \/ Fail(r)

Next ==
  \/ \E v \in RawVersions, s \in Sources : Replace(v, s)
  \/ Tick
  \/ \E r \in Runs :
       \/ \E v \in RawVersions : Request(r, v)
       \/ \E q \in Runs : Rerun(r, q)
       \/ Step(r)

Spec == Init /\ [][Next]_vars

(* GitHub executes the steps of a job it started, within its time limits.  *)
FairSpec == Spec /\ \A r \in Runs : WF_vars(Step(r))

-----------------------------------------------------------------------------
TypedRequests ==
  /\ stage \in [Runs -> Stages]
  /\ raw \in [Runs -> RawVersions \union {NoVersion}]
  /\ verified \in [Runs -> Sources \union {NoFile}]
  /\ artifact \in [Runs -> Artifact \union {NoFile}]
  /\ payload \in [Runs -> {NoPayload} \union
       [uri : {UpstreamUri(v) : v \in RawVersions} \union
              {DepsUri(Filename(a)) : a \in Artifact}, sha256 : Files]]

TypedFiles ==
  /\ upstream \in [RawVersions -> Sources]
  /\ deps \subseteq [name : {Filename(a) : a \in Artifact}, file : Artifact]
  /\ \A t \in tested : t.file \in Files

(* Types of the requests' state and of the buckets.                        *)
TypeOK ==
  /\ Metadata!TypeOK
  /\ TypedRequests
  /\ TypedFiles
  /\ issues \subseteq Runs

(* The uri of every published entry of a compiled dependency still leads   *)
(* to the file with the published sha256, however many requests build and  *)
(* upload the same version again.                                          *)
PublishedIsDownloadable ==
  ~SkipCompile => \A e \in catalogue :
    Fetch(payload[e.run].uri) = {payload[e.run].sha256}

(* Every published entry of a dependency that is not excluded from the     *)
(* tests went through them: for a compiled one the very file with the      *)
(* published sha256 passed, for the others some download from its uri.     *)
PublishedWasTested ==
  ~SkipTest => \A e \in catalogue : \E t \in tested :
    /\ t.uri = payload[e.run].uri
    /\ ~SkipCompile => t.file = payload[e.run].sha256

(* The published artifact was compiled from the source whose sha256 is     *)
(* published next to it, although the source is downloaded twice and       *)
(* upstream may replace it in between.                                     *)
BuiltFromPublishedSource ==
  ~SkipCompile => \A e \in catalogue :
    /\ payload[e.run].sha256.source = verified[e.run]
    /\ payload[e.run].sha256.version = raw[e.run]

(* A request ends: it is published, or one of its workflows failed.        *)
RequestIsSettled ==
  \A r \in Runs : stage[r] = "upstream" ~> stage[r] \in {"done", "failed"}

-----------------------------------------------------------------------------
(* What the payload of a compiled dependency points to.                    *)
Sound(r) ==
  /\ payload[r].uri = DepsUri(Filename(payload[r].sha256))
  /\ [name |-> Filename(payload[r].sha256), file |-> payload[r].sha256] \in deps
  /\ payload[r].sha256.source = verified[r]
  /\ payload[r].sha256.version = raw[r]

TestPassed(r) == \E t \in tested :
  /\ t.uri = payload[r].uri
  /\ ~SkipCompile => t.file = payload[r].sha256

(* What a request must have behind it when its metadata is written.        *)
Publishable(r) ==
  /\ stage[r] \notin {"idle"} \union BuildStages
  /\ ~SkipCompile => Sound(r)
  /\ ~SkipTest => TestPassed(r)

(* What each stage hands the next one.                                     *)
Carried(r) ==
  /\ stage[r] # "idle" => raw[r] \in RawVersions
  /\ stage[r] \in {"idle"} \union BuildStages => payload[r] = NoPayload
  /\ stage[r] \in {"build", "upload"} => ~SkipCompile
  /\ ~SkipCompile =>
       /\ stage[r] \in {"upload", "dispatch"} =>
            /\ artifact[r] \in Artifact
            /\ artifact[r].source = verified[r]
            /\ artifact[r].version = raw[r]
       /\ stage[r] = "dispatch" =>
            [name |-> Filename(artifact[r]), file |-> artifact[r]] \in deps
       /\ stage[r] \in TestStages \union {"done"} => payload[r] # NoPayload
       /\ payload[r] # NoPayload => Sound(r)
  /\ stage[r] \in {"semver", "stacks", "metadata", "done"} => Publishable(r)

AllPublishable(list) == \A e \in list : e.run \in Runs /\ Publishable(e.run)

(* Why the properties above hold: an object's name is that of its bytes,   *)
(* so no upload changes what an earlier one stored, and what a stage hands *)
(* on is never taken back.                                                 *)
InductiveInvariant ==
  /\ TypedRequests
  /\ TypedFiles
  /\ \A o \in deps : o.name = Filename(o.file)
  /\ DOMAIN base = Runs
  /\ \A r \in Runs : Carried(r) /\ AllPublishable(base[r])
  /\ AllPublishable(catalogue)

=============================================================================
