--------------------------- MODULE Pipeline_proofs ---------------------------
(* Proofs about Pipeline for any requests, versions, sources and any       *)
(* configuration of the dependency.                                        *)
EXTENDS Pipeline, TLAPS

(* Every entry a step of upload-metadata writes or reads was in a list     *)
(* before, or is the run's own.                                            *)
LEMMA MetadataStep ==
  ASSUME NEW r \in Runs, DOMAIN base = Runs,
         Metadata!Download(r) \/ Metadata!Stamp(r) \/ Metadata!Upload(r) \/ Metadata!Fail(r)
  PROVE  /\ \A e \in catalogue' : e \in catalogue \/ e \in base[r] \/ e.run = r
         /\ \A q \in Runs : \A e \in base'[q] : e \in base[q] \/ e \in catalogue
         /\ DOMAIN base' = Runs
<1>1. CASE Metadata!Download(r)
  BY <1>1 DEF Metadata!Download
<1>2. CASE Metadata!Upload(r)
  <2>1. UNCHANGED base
    BY <1>2 DEF Metadata!Upload
  <2>2. \A e \in catalogue' : e \in base[r] \/ e.run = r
    BY <1>2 DEF Metadata!Upload, Metadata!Updated, Metadata!NewEntry
  <2> QED BY <2>1, <2>2
<1>3. CASE Metadata!Stamp(r) \/ Metadata!Fail(r)
  BY <1>3 DEF Metadata!Stamp, Metadata!Fail
<1> QED BY <1>1, <1>2, <1>3

(* What a request established stays true while the objects and the passed  *)
(* tests only grow and its own results are not touched.                    *)
LEMMA PublishableStays ==
  ASSUME NEW q \in Runs, deps \subseteq deps', tested \subseteq tested',
         raw'[q] = raw[q], verified'[q] = verified[q], payload'[q] = payload[q]
  PROVE  /\ Sound(q) => Sound(q)'
         /\ TestPassed(q) => TestPassed(q)'
         /\ /\ Publishable(q)
            /\ stage'[q] \notin {"idle"} \union BuildStages
            => Publishable(q)'
<1>1. Sound(q) => Sound(q)'
  BY DEF Sound, Filename, DepsUri
<1>2. TestPassed(q) => TestPassed(q)'
  BY DEF TestPassed
<1> QED BY <1>1, <1>2 DEF Publishable

(* A step of one request leaves the others what they have.                 *)
LEMMA OthersCarry ==
  ASSUME NEW r, NEW q \in Runs \ {r}, Carried(q), deps \subseteq deps', tested \subseteq tested',
         stage'[q] = stage[q], raw'[q] = raw[q], verified'[q] = verified[q],
         artifact'[q] = artifact[q], payload'[q] = payload[q]
  PROVE  Carried(q)'
<1>1. /\ Sound(q) => Sound(q)'
      /\ Publishable(q) => Publishable(q)'
  BY PublishableStays DEF Publishable
<1> QED BY <1>1 DEF Carried, Filename

(* The lists stay publishable when no request returns to an early stage    *)
(* and no request in the lists is touched.                                 *)
LEMMA ListsStay ==
  ASSUME NEW r, NEW list, AllPublishable(list), deps \subseteq deps', tested \subseteq tested',
         \A q \in Runs \ {r} :
           /\ stage'[q] = stage[q] /\ raw'[q] = raw[q]
           /\ verified'[q] = verified[q] /\ payload'[q] = payload[q],
         r \in Runs /\ Publishable(r) => Publishable(r)'
  PROVE  \A e \in list : e.run \in Runs /\ Publishable(e.run)'
<1> SUFFICES ASSUME NEW e \in list
             PROVE  e.run \in Runs /\ Publishable(e.run)'
  OBVIOUS
<1>1. e.run \in Runs /\ Publishable(e.run)
  BY DEF AllPublishable
<1>2. CASE e.run = r
  BY <1>1, <1>2
<1>3. CASE e.run # r
  BY <1>1, <1>3, PublishableStays DEF Publishable
<1> QED BY <1>1, <1>2, <1>3

LEMMA InitInvariant == Init => InductiveInvariant
BY DEF Init, Metadata!Init, InductiveInvariant, TypedRequests, TypedFiles, Carried,
       AllPublishable, Stages, BuildStages, TestStages

(* A step changes the results of no request but r.                         *)
Untouched(r) == \A q \in Runs \ {r} :
  /\ stage'[q] = stage[q] /\ raw'[q] = raw[q] /\ verified'[q] = verified[q]
  /\ artifact'[q] = artifact[q] /\ payload'[q] = payload[q]

(* A step before upload-metadata preserves the invariant when it preserves *)
(* the part of its own request.                                            *)
LEMMA OwnStep ==
  ASSUME InductiveInvariant, NEW r \in Runs, Untouched(r), UNCHANGED <<catalogue, base>>,
         deps \subseteq deps', tested \subseteq tested',
         TypedRequests', TypedFiles', \A o \in deps' : o.name = Filename(o.file),
         Carried(r)', Publishable(r) => Publishable(r)'
  PROVE  InductiveInvariant'
<1>1. \A q \in Runs : Carried(q)'
  BY OthersCarry DEF InductiveInvariant, Untouched
<1>2. \A q \in Runs : AllPublishable(base[q])'
  <2> SUFFICES ASSUME NEW q \in Runs
               PROVE  AllPublishable(base[q])'
    OBVIOUS
  <2>1. AllPublishable(base[q])
    BY DEF InductiveInvariant
  <2>2. \A e \in base[q] : e.run \in Runs /\ Publishable(e.run)'
    BY <2>1, ListsStay DEF Untouched
  <2> QED BY <2>2 DEF AllPublishable
<1>3. AllPublishable(catalogue)'
  <2>1. AllPublishable(catalogue)
    BY DEF InductiveInvariant
  <2>2. \A e \in catalogue : e.run \in Runs /\ Publishable(e.run)'
    BY <2>1, ListsStay DEF Untouched
  <2> QED BY <2>2 DEF AllPublishable
<1>4. DOMAIN base' = Runs /\ \A o \in deps' : (o.name = Filename(o.file))'
  BY DEF InductiveInvariant, Filename
<1> QED BY <1>1, <1>2, <1>3, <1>4 DEF InductiveInvariant

(* The same for a step that only moves the request to another stage.       *)
LEMMA StageStep ==
  ASSUME InductiveInvariant, NEW r \in Runs, NEW next \in Stages,
         stage' = [stage EXCEPT ![r] = next],
         UNCHANGED <<catalogue, base, raw, upstream, verified, artifact, payload, deps>>,
         tested \subseteq tested', \A t \in tested' : t.file \in Files,
         Carried(r)', Publishable(r) => Publishable(r)'
  PROVE  InductiveInvariant'
<1>1. Untouched(r) /\ TypedRequests'
  BY DEF InductiveInvariant, TypedRequests, Untouched
<1>2. TypedFiles'
  BY DEF InductiveInvariant, TypedFiles
<1>3. \A o \in deps' : o.name = Filename(o.file)
  BY DEF InductiveInvariant
<1> QED BY <1>1, <1>2, <1>3, OwnStep

(* A request that fails keeps what it established.                         *)
LEMMA FailedStep ==
  ASSUME InductiveInvariant, NEW r \in Runs, stage[r] # "idle", Failed(r),
         UNCHANGED <<catalogue, base, raw, upstream, verified, artifact, payload, deps, tested>>
  PROVE  InductiveInvariant'
<1>1. stage' = [stage EXCEPT ![r] = "failed"] /\ "failed" \in Stages
  BY DEF Failed, Stages
<1>2. stage'[r] = "failed"
  BY <1>1 DEF InductiveInvariant, TypedRequests
<1>3. /\ Sound(r) => Sound(r)'
      /\ Publishable(r) => Publishable(r)'
  BY <1>2, PublishableStays DEF BuildStages
<1>4. Carried(r)'
  BY <1>2, <1>3 DEF InductiveInvariant, Carried, BuildStages, TestStages
<1>5. \A t \in tested' : t.file \in Files
  BY DEF InductiveInvariant, TypedFiles
<1> QED BY <1>1, <1>3, <1>4, <1>5, StageStep

(* Every step of a request preserves the invariant.                        *)
LEMMA RequestInvariant ==
  ASSUME InductiveInvariant, NEW r \in Runs, Step(r)
  PROVE  InductiveInvariant'
<1>T. TypedRequests /\ TypedFiles /\ Carried(r) /\ \A o \in deps : o.name = Filename(o.file)
  BY DEF InductiveInvariant
<1>1. CASE GetUpstream(r)
  <2>1. PICK next \in {"dispatch", "build"} :
          stage' = [stage EXCEPT ![r] = next] /\ (next = "dispatch" <=> SkipCompile)
    BY <1>1, ConfigurationAssumption DEF GetUpstream, Goto
  <2>2. PICK file \in Sources \union {NoFile} : verified' = [verified EXCEPT ![r] = file]
    BY <1>1 DEF GetUpstream
  <2>3. /\ stage[r] = "upstream"
        /\ UNCHANGED <<catalogue, base, raw, upstream, artifact, payload, deps, tested>>
    BY <1>1 DEF GetUpstream, metadataVars
  <2>4. Untouched(r) /\ TypedRequests' /\ stage'[r] = next
    BY <1>T, <2>1, <2>2, <2>3 DEF TypedRequests, Untouched, Stages, BuildStages
  <2>5. Carried(r)'
    BY <1>T, <2>1, <2>3, <2>4 DEF Carried, BuildStages, TestStages
  <2>6. ~Publishable(r)
    BY <2>3 DEF Publishable, BuildStages
  <2>7. TypedFiles'
    BY <1>T, <2>3 DEF TypedFiles
  <2> QED BY <1>T, <2>3, <2>4, <2>5, <2>6, <2>7, OwnStep
<1>2. CASE Build(r)
  <2>1. CASE verified[r] = upstream[raw[r]]
    <3>1. PICK b \in Builds : artifact' =
            [artifact EXCEPT ![r] = [version |-> raw[r], source |-> verified[r], build |-> b]]
      BY <1>2, <2>1 DEF Build
    <3>2. /\ stage[r] = "build"
          /\ stage' = [stage EXCEPT ![r] = "upload"]
          /\ UNCHANGED <<catalogue, base, raw, upstream, verified, payload, deps, tested>>
      BY <1>2, <2>1 DEF Build, Goto, metadataVars
    <3>3. raw[r] \in RawVersions /\ verified[r] \in Sources
      BY <1>T, <2>1, <3>2 DEF Carried, TypedFiles
    <3>4. artifact'[r] \in Artifact /\ artifact'[r].source = verified[r]
          /\ artifact'[r].version = raw[r]
      BY <1>T, <3>1, <3>3 DEF TypedRequests, Artifact
    <3>5. Untouched(r) /\ TypedRequests' /\ stage'[r] = "upload"
      BY <1>T, <3>1, <3>2, <3>4 DEF TypedRequests, Untouched, Stages, BuildStages
    <3>6. Carried(r)'
      BY <1>T, <3>2, <3>4, <3>5 DEF Carried, BuildStages, TestStages
    <3>7. ~Publishable(r) /\ TypedFiles'
      BY <1>T, <3>2 DEF Publishable, BuildStages, TypedFiles
    <3> QED BY <1>T, <3>2, <3>5, <3>6, <3>7, OwnStep
  <2>2. CASE verified[r] # upstream[raw[r]]
    <3>1. stage[r] = "build" /\ Failed(r)
          /\ UNCHANGED <<catalogue, base, raw, upstream, verified, artifact, payload, deps, tested>>
      BY <1>2, <2>2 DEF Build, metadataVars
    <3> QED BY <3>1, FailedStep
  <2> QED BY <2>1, <2>2
<1>3. CASE UploadArtifact(r)
  <2> DEFINE new == [name |-> Filename(artifact[r]), file |-> artifact[r]]
  <2>1. /\ stage[r] = "upload"
        /\ deps' = {o \in deps : o.name # Filename(artifact[r])} \union {new}
        /\ UNCHANGED <<catalogue, base, raw, upstream, verified, artifact, payload, tested>>
    BY <1>3 DEF UploadArtifact, metadataVars
  <2>2. PICK next \in {"dispatch", "failed"} : stage' = [stage EXCEPT ![r] = next]
    BY <1>3 DEF UploadArtifact, Goto, Failed
  <2>3. deps \subseteq deps'
    <3>1. \A o \in deps : o.name = Filename(artifact[r]) => o = new
      BY <1>T DEF TypedFiles, Filename
    <3> QED BY <2>1, <3>1
  <2>4. ~SkipCompile /\ artifact[r] \in Artifact
    BY <1>T, <2>1 DEF Carried
  <2>5. new \in [name : {Filename(a) : a \in Artifact}, file : Artifact]
    BY <2>4
  <2>6. TypedFiles' /\ \A o \in deps' : o.name = Filename(o.file)
    BY <1>T, <2>1, <2>5 DEF TypedFiles, Filename
  <2>7. Untouched(r) /\ TypedRequests' /\ stage'[r] = next
    BY <1>T, <2>1, <2>2 DEF TypedRequests, Untouched, Stages, BuildStages
  <2>8. Carried(r)'
    <3>1. new \in deps' /\ payload'[r] = NoPayload
      BY <1>T, <2>1 DEF Carried, BuildStages
    <3>2. stage'[r] # "idle" => raw'[r] \in RawVersions
      BY <1>T, <2>1 DEF Carried
    <3>3. /\ artifact'[r] \in Artifact
          /\ artifact'[r].source = verified'[r] /\ artifact'[r].version = raw'[r]
      BY <1>T, <2>1 DEF Carried
    <3> QED BY <2>1, <2>4, <2>7, <3>1, <3>2, <3>3 DEF Carried, BuildStages, TestStages, Filename
  <2>9. ~Publishable(r)
    BY <2>1 DEF Publishable, BuildStages
  <2> QED BY <2>1, <2>3, <2>6, <2>7, <2>8, <2>9, OwnStep
<1>4. CASE TriggerTests(r)
  <2>1. /\ stage[r] = "dispatch"
        /\ payload' = [payload EXCEPT ![r] = Payload(r)]
        /\ stage' = [stage EXCEPT ![r] = FirstTestStage]
        /\ UNCHANGED <<catalogue, base, raw, upstream, verified, artifact, deps, tested>>
    BY <1>4 DEF TriggerTests, metadataVars
  <2>2. FirstTestStage \in {"semver", "required", "test"} /\ (FirstTestStage = "semver" <=> SkipTest)
    BY ConfigurationAssumption DEF FirstTestStage
  <2>3. raw[r] \in RawVersions /\ payload[r] = NoPayload
    BY <1>T, <2>1 DEF Carried, BuildStages
  <2>4. CASE SkipCompile
    <3>1. Payload(r) \in {NoPayload} \union
            [uri : {UpstreamUri(v) : v \in RawVersions}, sha256 : Sources]
      BY <1>T, <2>3, <2>4 DEF Payload, TypedRequests
    <3>2. Untouched(r) /\ TypedRequests' /\ stage'[r] = FirstTestStage
      BY <1>T, <2>1, <2>2, <3>1 DEF TypedRequests, Untouched, Stages, TestStages, Files
    <3>3. Carried(r)'
      BY <2>1, <2>2, <2>3, <2>4, <3>2 DEF Carried, Publishable, BuildStages, TestStages
    <3>4. ~Publishable(r) /\ TypedFiles'
      BY <1>T, <2>1 DEF Publishable, BuildStages, TypedFiles
    <3> QED BY <1>T, <2>1, <3>2, <3>3, <3>4, OwnStep
  <2>5. CASE ~SkipCompile
    <3>1. Payload(r) = [uri |-> DepsUri(Filename(artifact[r])), sha256 |-> artifact[r]]
      BY <2>5 DEF Payload
    <3>2. /\ artifact[r] \in Artifact
          /\ artifact[r].source = verified[r] /\ artifact[r].version = raw[r]
          /\ [name |-> Filename(artifact[r]), file |-> artifact[r]] \in deps
      BY <1>T, <2>1, <2>5 DEF Carried
    <3>3. Untouched(r) /\ TypedRequests' /\ stage'[r] = FirstTestStage /\ payload'[r] = Payload(r)
      BY <1>T, <2>1, <2>2, <3>1, <3>2 DEF TypedRequests, Untouched, Stages, TestStages, Files
    <3>4. Sound(r)'
      BY <2>1, <3>1, <3>2, <3>3 DEF Sound
    <3>5. Payload(r) # NoPayload
      BY <3>1, <3>2, NoFileAssumption DEF NoPayload, Files
    <3>6. stage'[r] = "semver" => Publishable(r)'
      BY <2>2, <3>3, <3>4 DEF Publishable, BuildStages
    <3>7. Carried(r)'
      BY <2>1, <2>2, <2>3, <2>5, <3>3, <3>4, <3>5, <3>6 DEF Carried, BuildStages, TestStages
    <3>8. ~Publishable(r) /\ TypedFiles'
      BY <1>T, <2>1 DEF Publishable, BuildStages, TypedFiles
    <3> QED BY <1>T, <2>1, <3>3, <3>7, <3>8, OwnStep
  <2> QED BY <2>4, <2>5
<1>5. CASE GetRequired(r) \/ ConvertVersion(r)
  <2>1. /\ stage[r] \in {"required", "semver"}
        /\ UNCHANGED <<catalogue, base, raw, upstream, verified, artifact, payload, deps, tested>>
        /\ \/ Failed(r)
           \/ stage[r] = "required" /\ stage' = [stage EXCEPT ![r] = "test"]
           \/ stage[r] = "semver" /\ stage' = [stage EXCEPT ![r] = "stacks"]
    BY <1>5 DEF GetRequired, ConvertVersion, Goto, metadataVars
  <2>2. CASE Failed(r)
    BY <2>1, <2>2, FailedStep
  <2>3. CASE ~Failed(r)
    <3>1. PICK next \in {"test", "stacks"} :
            /\ stage' = [stage EXCEPT ![r] = next] /\ next \in Stages
            /\ next = "test" <=> stage[r] = "required"
      BY <2>1, <2>3 DEF Stages, TestStages
    <3>2. stage'[r] = next
      BY <1>T, <3>1 DEF TypedRequests
    <3>3. /\ Sound(r) => Sound(r)'
          /\ Publishable(r) => Publishable(r)'
      BY <2>1, <3>1, <3>2, PublishableStays DEF BuildStages
    <3>4. Carried(r)'
      BY <1>T, <2>1, <3>1, <3>2, <3>3 DEF Carried, BuildStages, TestStages
    <3>5. \A t \in tested' : t.file \in Files
      BY <1>T, <2>1 DEF TypedFiles
    <3> QED BY <2>1, <3>1, <3>3, <3>4, <3>5, StageStep
  <2> QED BY <2>2, <2>3
<1>6. CASE Test(r)
  <2>1. /\ stage[r] = "test"
        /\ UNCHANGED <<catalogue, base, raw, upstream, verified, artifact, payload, deps>>
        /\ \/ /\ \E file \in Fetch(payload[r].uri) :
                   tested' = tested \union {[uri |-> payload[r].uri, file |-> file]}
              /\ stage' = [stage EXCEPT ![r] = "semver"]
           \/ Failed(r) /\ UNCHANGED tested
    BY <1>6 DEF Test, Goto, metadataVars
  <2>2. CASE Failed(r) /\ UNCHANGED tested
    BY <2>1, <2>2, FailedStep
  <2>3. CASE /\ \E file \in Fetch(payload[r].uri) :
                  tested' = tested \union {[uri |-> payload[r].uri, file |-> file]}
             /\ stage' = [stage EXCEPT ![r] = "semver"]
    <3>1. PICK file \in Fetch(payload[r].uri) :
            tested' = tested \union {[uri |-> payload[r].uri, file |-> file]}
      BY <2>3
    <3>2. file \in Files
      BY <1>T DEF Fetch, TypedFiles, Files
    <3>3. /\ stage'[r] = "semver"
          /\ tested \subseteq tested' /\ \A t \in tested' : t.file \in Files
      BY <1>T, <2>3, <3>1, <3>2 DEF TypedRequests, TypedFiles
    <3>4. ~SkipCompile => file = payload[r].sha256
      <4> SUFFICES ASSUME ~SkipCompile
                   PROVE  file = payload[r].sha256
        OBVIOUS
      <4>1. payload[r].uri = DepsUri(Filename(payload[r].sha256))
        BY <1>T, <2>1 DEF Carried, TestStages, Sound
      <4>2. \A v \in RawVersions : payload[r].uri # UpstreamUri(v)
        BY <4>1 DEF DepsUri, UpstreamUri
      <4>3. PICK o \in deps : payload[r].uri = DepsUri(o.name) /\ file = o.file
        BY <3>1, <4>2 DEF Fetch
      <4>4. o.name = Filename(payload[r].sha256)
        BY <4>1, <4>3 DEF DepsUri
      <4> QED BY <1>T, <4>3, <4>4 DEF Filename
    <3>5. TestPassed(r)'
      <4> DEFINE t == [uri |-> payload[r].uri, file |-> file]
      <4>1. t \in tested' /\ t.uri = payload'[r].uri
        BY <2>1, <3>1
      <4>2. ~SkipCompile => t.file = payload'[r].sha256
        BY <2>1, <3>4
      <4> QED BY <4>1, <4>2 DEF TestPassed
    <3>6. /\ Sound(r) => Sound(r)'
          /\ Publishable(r) => Publishable(r)'
      BY <2>1, <3>3, PublishableStays DEF BuildStages
    <3>7. ~SkipCompile => Sound(r)
      BY <1>T, <2>1 DEF Carried, TestStages
    <3>8. Publishable(r)'
      BY <3>3, <3>5, <3>6, <3>7 DEF Publishable, BuildStages
    <3>9. Carried(r)'
      BY <1>T, <2>1, <3>3, <3>6, <3>8 DEF Carried, BuildStages, TestStages
    <3>10. "semver" \in Stages /\ stage' = [stage EXCEPT ![r] = "semver"]
      BY <2>3 DEF Stages, TestStages
    <3> QED BY <2>1, <3>3, <3>6, <3>9, <3>10, StageStep
  <2> QED BY <2>1, <2>2, <2>3
<1>7. CASE GetStacks(r)
  <2>1. /\ stage[r] = "stacks"
        /\ UNCHANGED <<catalogue, base, raw, upstream, verified, artifact, payload, deps, tested>>
        /\ Failed(r) \/ stage' = [stage EXCEPT ![r] = "metadata"]
    BY <1>7 DEF GetStacks, Goto, Metadata!Start, metadataVars
  <2>2. CASE Failed(r)
    BY <2>1, <2>2, FailedStep
  <2>3. CASE stage' = [stage EXCEPT ![r] = "metadata"]
    <3>1. stage'[r] = "metadata" /\ "metadata" \in Stages
      BY <1>T, <2>3 DEF TypedRequests, Stages, TestStages
    <3>2. /\ Sound(r) => Sound(r)'
          /\ Publishable(r) => Publishable(r)'
      BY <2>1, <3>1, PublishableStays DEF BuildStages
    <3>3. Carried(r)'
      BY <1>T, <2>1, <3>1, <3>2 DEF Carried, BuildStages, TestStages
    <3>4. \A t \in tested' : t.file \in Files
      BY <1>T, <2>1 DEF TypedFiles
    <3> QED BY <2>1, <2>3, <3>1, <3>2, <3>3, <3>4, StageStep
  <2> QED BY <2>1, <2>2, <2>3
<1>8. CASE UploadMetadata(r)
  <2>1. /\ stage[r] = "metadata"
        /\ UNCHANGED <<raw, upstream, verified, artifact, payload, deps, tested>>
        /\ Metadata!Download(r) \/ Metadata!Stamp(r) \/ Metadata!Upload(r) \/ Metadata!Fail(r)
    BY <1>8 DEF UploadMetadata
  <2>2. PICK next \in {"failed", "done", "metadata"} : stage' = [stage EXCEPT ![r] = next]
    BY <1>8 DEF UploadMetadata, Goto, Failed
  <2>3. /\ stage'[r] = next /\ Untouched(r) /\ TypedRequests'
        /\ TypedFiles' /\ \A o \in deps' : o.name = Filename(o.file)
    BY <1>T, <2>1, <2>2 DEF TypedRequests, TypedFiles, Untouched, Stages, TestStages
  <2>4. /\ Sound(r) => Sound(r)'
        /\ Publishable(r)'
    BY <1>T, <2>1, <2>3, PublishableStays DEF Carried, BuildStages
  <2>5. Carried(r)'
    BY <1>T, <2>1, <2>3, <2>4 DEF Carried, BuildStages, TestStages
  <2>6. \A q \in Runs : Carried(q)'
    BY <2>1, <2>3, <2>5, OthersCarry DEF InductiveInvariant, Untouched
  <2>7. /\ \A e \in catalogue : e.run \in Runs /\ Publishable(e.run)'
        /\ \A q \in Runs : \A e \in base[q] : e.run \in Runs /\ Publishable(e.run)'
    BY <2>1, <2>3, <2>4, ListsStay DEF InductiveInvariant, Untouched
  <2>8. /\ \A e \in catalogue' : e \in catalogue \/ e \in base[r] \/ e.run = r
        /\ \A q \in Runs : \A e \in base'[q] : e \in base[q] \/ e \in catalogue
        /\ DOMAIN base' = Runs
    BY <2>1, MetadataStep DEF InductiveInvariant
  <2>9. AllPublishable(catalogue)' /\ \A q \in Runs : AllPublishable(base[q])'
    BY <2>4, <2>7, <2>8 DEF AllPublishable
  <2> QED BY <2>3, <2>6, <2>8, <2>9 DEF InductiveInvariant
<1>9. CASE Fail(r)
  BY <1>9, FailedStep DEF Fail, metadataVars, BuildStages, TestStages
<1> QED
  BY <1>1, <1>2, <1>3, <1>4, <1>5, <1>6, <1>7, <1>8, <1>9 DEF Step

(* A step that concerns no request preserves the invariant.                *)
LEMMA EnvironmentStep ==
  ASSUME InductiveInvariant, upstream' \in [RawVersions -> Sources],
         UNCHANGED <<catalogue, base, stage, raw, verified, artifact, payload, deps, tested>>
  PROVE  InductiveInvariant'
<1>1. ASSUME NEW q \in Runs
      PROVE  /\ Carried(q)'
             /\ Publishable(q) => Publishable(q)'
  <2>1. /\ Sound(q) => Sound(q)'
        /\ Publishable(q) => Publishable(q)'
    BY PublishableStays DEF Publishable
  <2> QED BY <2>1 DEF InductiveInvariant, Carried, Filename
<1>2. ASSUME NEW list, AllPublishable(list)
      PROVE  \A e \in list : e.run \in Runs /\ Publishable(e.run)'
  BY <1>1, <1>2 DEF AllPublishable
<1>3. AllPublishable(catalogue)' /\ \A q \in Runs : AllPublishable(base[q])'
  BY <1>2 DEF InductiveInvariant, AllPublishable
<1>4. TypedRequests' /\ TypedFiles'
  BY DEF InductiveInvariant, TypedRequests, TypedFiles
<1>5. \A o \in deps' : (o.name = Filename(o.file))'
  BY DEF InductiveInvariant, Filename
<1> QED BY <1>1, <1>3, <1>4, <1>5 DEF InductiveInvariant

(* Every step preserves the inductive invariant.                           *)
LEMMA NextInvariant == InductiveInvariant /\ [Next]_vars => InductiveInvariant'
<1> SUFFICES ASSUME InductiveInvariant, [Next]_vars
             PROVE  InductiveInvariant'
  OBVIOUS
<1>T. TypedRequests /\ TypedFiles
  BY DEF InductiveInvariant
<1>1. CASE UNCHANGED vars \/ Tick
  <2>1. UNCHANGED <<catalogue, base, stage, raw, upstream, verified, artifact, payload,
                    deps, tested>>
    BY <1>1 DEF vars, metadataVars, Tick, Metadata!Tick
  <2> QED BY <2>1, EnvironmentStep DEF InductiveInvariant, TypedFiles
<1>2. ASSUME NEW v \in RawVersions, NEW s \in Sources, Replace(v, s)
      PROVE  InductiveInvariant'
  <2>1. /\ UNCHANGED <<catalogue, base, stage, raw, verified, artifact, payload, deps, tested>>
        /\ upstream' \in [RawVersions -> Sources]
    BY <1>T, <1>2 DEF Replace, metadataVars, TypedFiles
  <2> QED BY <2>1, EnvironmentStep DEF InductiveInvariant, TypedFiles
<1>3. ASSUME NEW r \in Runs, NEW v \in RawVersions, Request(r, v)
      PROVE  InductiveInvariant'
  <2>1. /\ stage[r] = "idle"
        /\ raw' = [raw EXCEPT ![r] = v] /\ stage' = [stage EXCEPT ![r] = "upstream"]
        /\ UNCHANGED <<catalogue, base, upstream, verified, artifact, payload, deps, tested>>
    BY <1>3 DEF Request, Goto, metadataVars
  <2>2. stage'[r] = "upstream" /\ raw'[r] = v /\ Untouched(r) /\ TypedRequests' /\ TypedFiles'
    BY <1>T, <2>1 DEF TypedRequests, TypedFiles, Untouched, Stages, BuildStages
  <2>3. payload'[r] = NoPayload
    BY <2>1 DEF InductiveInvariant, Carried
  <2>4. Carried(r)'
    BY <2>2, <2>3 DEF Carried, BuildStages, TestStages
  <2>5. ~Publishable(r) /\ \A o \in deps' : o.name = Filename(o.file)
    BY <2>1 DEF Publishable, InductiveInvariant
  <2> QED BY <2>1, <2>2, <2>4, <2>5, OwnStep
<1>4. ASSUME NEW r \in Runs, NEW q \in Runs, Rerun(r, q)
      PROVE  InductiveInvariant'
  <2>1. /\ stage[r] = "idle" /\ stage[q] = "failed" /\ payload[q] # NoPayload
        /\ raw' = [raw EXCEPT ![r] = raw[q]]
        /\ payload' = [payload EXCEPT ![r] = payload[q]]
        /\ verified' = [verified EXCEPT ![r] = verified[q]]
        /\ stage' = [stage EXCEPT ![r] = FirstTestStage]
        /\ UNCHANGED <<catalogue, base, upstream, artifact, deps, tested>>
    BY <1>4 DEF Rerun, Goto, metadataVars
  <2>2. FirstTestStage \in {"semver", "required", "test"} /\ (FirstTestStage = "semver" <=> SkipTest)
    BY ConfigurationAssumption DEF FirstTestStage
  <2>3. /\ stage'[r] = FirstTestStage /\ raw'[r] = raw[q]
        /\ payload'[r] = payload[q] /\ verified'[r] = verified[q]
        /\ Untouched(r) /\ TypedRequests' /\ TypedFiles'
    BY <1>T, <2>1, <2>2 DEF TypedRequests, TypedFiles, Untouched, Stages, TestStages
  <2>4. raw[q] \in RawVersions /\ (~SkipCompile => Sound(q))
    BY <2>1 DEF InductiveInvariant, Carried
  <2>5. ~SkipCompile => Sound(r)'
    BY <2>1, <2>3, <2>4 DEF Sound
  <2>6. stage'[r] = "semver" => Publishable(r)'
    BY <2>2, <2>3, <2>5 DEF Publishable, BuildStages
  <2>7. Carried(r)'
    BY <2>1, <2>2, <2>3, <2>4, <2>5, <2>6 DEF Carried, BuildStages, TestStages
  <2>8. ~Publishable(r) /\ \A o \in deps' : o.name = Filename(o.file)
    BY <2>1 DEF Publishable, InductiveInvariant
  <2> QED BY <2>1, <2>3, <2>7, <2>8, OwnStep
<1> QED BY <1>1, <1>2, <1>3, <1>4, RequestInvariant DEF Next

(* The inductive invariant holds of every behaviour.                       *)
THEOREM InvariantHolds == Spec => []InductiveInvariant
BY InitInvariant, NextInvariant, PTL DEF Spec

(* Whatever was built and published again since, the uri of a published    *)
(* entry leads to the file with the published sha256.                      *)
THEOREM PublishedStaysDownloadable == Spec => []PublishedIsDownloadable
<1>1. InductiveInvariant => PublishedIsDownloadable
  <2> SUFFICES ASSUME InductiveInvariant, ~SkipCompile, NEW e \in catalogue
               PROVE  Fetch(payload[e.run].uri) = {payload[e.run].sha256}
    BY DEF PublishedIsDownloadable
  <2> DEFINE p == payload[e.run]
  <2>1. Sound(e.run)
    BY DEF InductiveInvariant, AllPublishable, Publishable
  <2>2. \A v \in RawVersions : p.uri # UpstreamUri(v)
    BY <2>1 DEF Sound, DepsUri, UpstreamUri
  <2>3. \A o \in deps : p.uri = DepsUri(o.name) => o.file = p.sha256
    BY <2>1 DEF Sound, DepsUri, InductiveInvariant, Filename
  <2>4. [name |-> Filename(p.sha256), file |-> p.sha256] \in {o \in deps : p.uri = DepsUri(o.name)}
    BY <2>1 DEF Sound, DepsUri
  <2>5. {upstream[v] : v \in {w \in RawVersions : p.uri = UpstreamUri(w)}} = {}
    BY <2>2
  <2>6. {o.file : o \in {d \in deps : p.uri = DepsUri(d.name)}} = {p.sha256}
    BY <2>3, <2>4
  <2> QED BY <2>5, <2>6 DEF Fetch
<1> QED BY <1>1, InvariantHolds, PTL

(* Nothing is published that did not go through the tests.                 *)
THEOREM OnlyTestedIsPublished == Spec => []PublishedWasTested
<1>1. InductiveInvariant => PublishedWasTested
  BY DEF InductiveInvariant, AllPublishable, Publishable, TestPassed, PublishedWasTested
<1> QED BY <1>1, InvariantHolds, PTL

(* The published source sha256 is that of the source the artifact was      *)
(* compiled from.                                                          *)
THEOREM SourceIsTheOneCompiled == Spec => []BuiltFromPublishedSource
<1>1. InductiveInvariant => BuiltFromPublishedSource
  BY DEF InductiveInvariant, AllPublishable, Publishable, Sound, BuiltFromPublishedSource
<1> QED BY <1>1, InvariantHolds, PTL

(* Every step is a step of UploadMetadata or leaves its variables alone.   *)
LEMMA MetadataSteps == InductiveInvariant /\ [Next]_vars => [Metadata!Next]_(Metadata!vars)
<1> SUFFICES ASSUME InductiveInvariant, [Next]_vars
             PROVE  Metadata!Next \/ UNCHANGED metadataVars
  BY DEF metadataVars, Metadata!vars
<1>1. CASE Tick
  BY <1>1 DEF Tick, Metadata!Next
<1>2. ASSUME NEW r \in Runs, UploadMetadata(r)
      PROVE  Metadata!Next
  BY <1>2 DEF UploadMetadata, Metadata!Next
<1>3. ASSUME NEW r \in Runs, GetStacks(r)
      PROVE  Metadata!Next \/ UNCHANGED metadataVars
  <2>1. SemVer[raw[r]] \in Versions
    BY <1>3, SemVerAssumption DEF GetStacks, InductiveInvariant, Carried
  <2> QED BY <1>3, <2>1 DEF GetStacks, Metadata!Next
<1>4. ASSUME NEW r \in Runs,
             \/ GetUpstream(r) \/ Build(r) \/ UploadArtifact(r) \/ TriggerTests(r)
             \/ GetRequired(r) \/ Test(r) \/ ConvertVersion(r) \/ Fail(r)
      PROVE  UNCHANGED metadataVars
  BY <1>4 DEF GetUpstream, Build, UploadArtifact, TriggerTests, GetRequired, Test,
              ConvertVersion, Fail
<1>5. ASSUME NEW r \in Runs,
             \/ \E v \in RawVersions : Request(r, v)
             \/ \E q \in Runs : Rerun(r, q)
      PROVE  UNCHANGED metadataVars
  BY <1>5 DEF Request, Rerun
<1>6. ASSUME NEW v \in RawVersions, NEW s \in Sources, Replace(v, s)
      PROVE  UNCHANGED metadataVars
  BY <1>6 DEF Replace
<1>7. CASE UNCHANGED vars
  BY <1>7 DEF vars
<1> QED BY <1>1, <1>2, <1>3, <1>4, <1>5, <1>6, <1>7 DEF Next, Step

(* The variables of UploadMetadata behave as in that module, by the shape  *)
(* of the steps; the types of the published metadata follow from it.       *)
LEMMA MetadataBehaves == Spec => Metadata!Spec
<1>1. Init => Metadata!Init
  BY DEF Init
<1> QED
  BY <1>1, MetadataSteps, InvariantHolds, PTL DEF Spec, Metadata!Spec

(* The types of the published metadata need that a run that started has a  *)
(* version.                                                                *)
MetadataTyped ==
  Metadata!TypeOK /\ \A r \in Runs : pc[r] # "idle" => version[r] \in Versions

LEMMA MetadataStaysTyped ==
  MetadataTyped /\ [Metadata!Next]_(Metadata!vars) => MetadataTyped'
<1> SUFFICES ASSUME MetadataTyped, [Metadata!Next]_(Metadata!vars)
             PROVE  MetadataTyped'
  OBVIOUS
<1> USE DEF MetadataTyped, Metadata!TypeOK, Metadata!Steps
<1>1. CASE Metadata!Tick
  BY <1>1, MaxClockAssumption DEF Metadata!Tick
<1>2. ASSUME NEW r \in Runs, NEW v \in Versions, Metadata!Start(r, v)
      PROVE  MetadataTyped'
  BY <1>2 DEF Metadata!Start
<1>3. ASSUME NEW r \in Runs, Metadata!Download(r)
      PROVE  MetadataTyped'
  BY <1>3 DEF Metadata!Download
<1>4. ASSUME NEW r \in Runs, Metadata!Stamp(r)
      PROVE  MetadataTyped'
  BY <1>4 DEF Metadata!Stamp
<1>5. ASSUME NEW r \in Runs, Metadata!Upload(r)
      PROVE  MetadataTyped'
  <2>1. /\ base[r] \in SUBSET Metadata!Entry /\ version[r] \in Versions /\ now[r] \in Nat
        /\ Metadata!Holding \subseteq Runs
    BY <1>5 DEF Metadata!Upload, Metadata!Holding
  <2>2. Metadata!CreatedAt(base[r], version[r], now[r]) \in Nat
    BY <2>1 DEF Metadata!CreatedAt, Metadata!EntriesOf, Metadata!Entry
  <2>3. Metadata!Updated(base[r], version[r], now[r], r) \in SUBSET Metadata!Entry
    BY <2>1, <2>2 DEF Metadata!Updated, Metadata!NewEntry, Metadata!EntriesOf, Metadata!Entry
  <2>4. PICK outcome \in {"done", "failed"} : pc' = [pc EXCEPT ![r] = outcome]
    BY <1>5 DEF Metadata!Upload
  <2> QED BY <1>5, <2>1, <2>3, <2>4 DEF Metadata!Upload
<1>6. ASSUME NEW r \in Runs, Metadata!Fail(r)
      PROVE  MetadataTyped'
  BY <1>6 DEF Metadata!Fail, Metadata!Active
<1>7. CASE UNCHANGED Metadata!vars
  BY <1>7 DEF Metadata!vars
<1> QED BY <1>1, <1>2, <1>3, <1>4, <1>5, <1>6, <1>7 DEF Metadata!Next

(* Issues are only filed for requests.                                     *)
LEMMA IssuesStay == issues \subseteq Runs /\ [Next]_vars => (issues \subseteq Runs)'
<1> SUFFICES ASSUME issues \subseteq Runs, [Next]_vars
             PROVE  issues' \subseteq Runs
  OBVIOUS
<1>1. ASSUME NEW r \in Runs, Step(r)
      PROVE  issues' \subseteq Runs
  BY <1>1 DEF Step, GetUpstream, Build, UploadArtifact, TriggerTests, GetRequired, Test,
              ConvertVersion, GetStacks, UploadMetadata, Fail, Goto, Failed
<1>2. CASE ~ \E r \in Runs : Step(r)
  BY <1>2 DEF Next, vars, Replace, Tick, Request, Rerun, Goto
<1> QED BY <1>1, <1>2

(* Type correctness, the published metadata included.                      *)
THEOREM TypeCorrect == Spec => []TypeOK
<1>1. Init => MetadataTyped /\ issues \subseteq Runs
  BY MaxClockAssumption
     DEF Init, Metadata!Init, MetadataTyped, Metadata!TypeOK, Metadata!Steps
<1>2. Metadata!Spec /\ MetadataTyped => []MetadataTyped
  BY MetadataStaysTyped, PTL DEF Metadata!Spec
<1>3. Spec => [](issues \subseteq Runs)
  BY <1>1, IssuesStay, PTL DEF Spec
<1>4. InductiveInvariant /\ MetadataTyped /\ issues \subseteq Runs => TypeOK
  BY DEF InductiveInvariant, MetadataTyped, TypeOK
<1> QED
  BY <1>1, <1>2, <1>3, <1>4, InvariantHolds, MetadataBehaves, PTL DEF Spec

=============================================================================
