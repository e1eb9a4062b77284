------------------------------ MODULE Validate ------------------------------
(***************************************************************************)
(* scripts/validate/main.go: the tool that validates the dependency code   *)
(* of a buildpack by running its `retrieve', `compile' and `test' parts.   *)
(* Every call to make, to the file system or to Docker may fail; a phase   *)
(* reports failures with printError and returns an error value, which are  *)
(* two different things.  Names that DependencyTest has as well begin with *)
(* Validate here: one module proves theorems about both.                   *)
(***************************************************************************)
EXTENDS Naturals

VARIABLES
  call,       \* the call executed next
  options,    \* which optional flags were given
  tree,       \* what the buildpack directory contains
  files,      \* what the temporary directory contains
  container,  \* the compilation container
  image,      \* the image "compilation" exists
  err,        \* error value returned by each phase: TRUE unless nil
  reported,   \* history: the phases that called printError
  tested,     \* the artifact `test' runs against: "", "given" or "built"
  verdict     \* the last line printed

validateVars == <<call, options, tree, files, container, image, err, reported, tested, verdict>>

Phases == {"retrieve", "compile", "test"}

Files == {"metadata", "tgz", "checksum"}

Calls == {"start", "make_retrieve", "metadata", "docker", "build", "create", "run",
          "wait", "outputs", "cleanup_container", "select", "make_test", "cleanup",
          "verdict", "end"}

ValidateInit ==
  /\ call = "start"
  /\ options \in [artifact : BOOLEAN, version : BOOLEAN, skip_cleanup : BOOLEAN]
  /\ tree \in [dependency : BOOLEAN, compile : BOOLEAN, dockerfile : BOOLEAN, test : BOOLEAN]
  /\ files = {}
  /\ container = "none"
  /\ image = FALSE
  /\ err = [p \in Phases |-> FALSE]
  /\ reported = {}
  /\ tested = ""
  /\ verdict = ""

(* A phase calls printError and returns; only `isErr' makes main see it.   *)
Return(phase, isErr, next) ==
  /\ reported' = reported \union {phase}
  /\ err' = [err EXCEPT ![phase] = isErr]
  /\ call' = next

Continue(next) ==
  /\ call' = next
  /\ UNCHANGED <<err, reported>>

(* main: without a dependency directory the tool prints an error and ends. *)
Start ==
  /\ call = "start"
  /\ IF tree.dependency
     THEN call' = "make_retrieve" /\ UNCHANGED verdict
     ELSE call' = "end" /\ verdict' = "no dependency directory"
  /\ UNCHANGED <<options, tree, files, container, image, err, reported, tested>>

(* make retrieve.  An error of make is only reported and returned when its *)
(* output has one of two phrases; otherwise the next assignment overwrites *)
(* it.                                                                     *)
MakeRetrieve ==
  /\ call = "make_retrieve"
  /\ files' \in {files, files \union {"metadata"}}
  /\ \/ Continue("metadata")
     \/ Return("retrieve", TRUE, "docker")
  /\ UNCHANGED <<options, tree, container, image, tested, verdict>>

(* os.Stat(metadata.json) and validateMetadata: an entry with checksum or  *)
(* URI next to a compile action is reported, and nil is returned.          *)
CheckMetadata ==
  /\ call = "metadata"
  /\ IF "metadata" \notin files
     THEN Return("retrieve", TRUE, "docker")
     ELSE \/ Continue("docker")
          \/ Return("retrieve", TRUE, "docker")
          \/ tree.compile /\ Return("retrieve", FALSE, "docker")
  /\ UNCHANGED <<options, tree, files, container, image, tested, verdict>>

(* compile: skipped without a compile directory; the missing Dockerfile is *)
(* reported, and the nil error of filepath.Glob is returned.               *)
FindDockerfile ==
  /\ call = "docker"
  /\ \/ ~tree.compile /\ Continue("select")
     \/ tree.compile /\ ~tree.dockerfile /\ Return("compile", FALSE, "select")
     \/ tree.compile /\ tree.dockerfile /\ Continue("build")
     \/ tree.compile /\ Return("compile", TRUE, "select")
  /\ UNCHANGED <<options, tree, files, container, image, tested, verdict>>

(* ImageBuild and the stream of its messages.                              *)
BuildImage ==
  /\ call = "build"
  /\ \/ image' = TRUE /\ Continue("create")
     \/ UNCHANGED image /\ Return("compile", TRUE, "select")
  /\ UNCHANGED <<options, tree, files, container, tested, verdict>>

CreateContainer ==
  /\ call = "create"
  /\ \/ container' = "created" /\ Continue("run")
     \/ UNCHANGED container /\ Return("compile", TRUE, "select")
  /\ UNCHANGED <<options, tree, files, image, tested, verdict>>

StartContainer ==
  /\ call = "run"
  /\ \/ container' = "running" /\ Continue("wait")
     \/ UNCHANGED container /\ Return("compile", TRUE, "select")
  /\ UNCHANGED <<options, tree, files, image, tested, verdict>>

(* The container writes its outputs and exits; its status is logged and    *)
(* nothing else, so a failed compilation is judged by its outputs alone.   *)
WaitContainer ==
  /\ call = "wait"
  /\ \/ /\ container' \in {"exited", "exited with an error"}
        /\ \E out \in SUBSET {"tgz", "checksum"} : files' = files \union out
        /\ Continue("outputs")
     \/ /\ Return("compile", TRUE, "select")
        /\ UNCHANGED <<container, files>>
  /\ UNCHANGED <<options, tree, image, tested, verdict>>

(* Faulty variant of FindOutputs: the checksum is not asked for.           *)
FindTarballOnly ==
  /\ call = "outputs"
  /\ IF "tgz" \in files
     THEN Continue("cleanup_container")
     ELSE Return("compile", FALSE, "select")
  /\ UNCHANGED <<options, tree, files, container, image, tested, verdict>>

(* The artifact and its checksum are looked for; what is missing is        *)
(* reported with the nil error of filepath.Glob.                           *)
FindOutputs ==
  /\ call = "outputs"
  /\ IF {"tgz", "checksum"} \subseteq files
     THEN Continue("cleanup_container")
     ELSE Return("compile", FALSE, "select")
  /\ UNCHANGED <<options, tree, files, container, image, tested, verdict>>

(* containerCleanup: each removal may fail with a warning.                 *)
CleanupContainer ==
  /\ call = "cleanup_container"
  /\ container' \in {"removed", container}
  /\ image' \in {FALSE, image}
  /\ tested' = "built"
  /\ Continue("select")
  /\ UNCHANGED <<options, tree, files, verdict>>

(* main: --artifact-path replaces what compile returned.  test is skipped  *)
(* without a test directory, a version or an artifact.                     *)
SelectArtifact ==
  /\ call = "select"
  /\ tested' = IF options.artifact THEN "given" ELSE tested
  /\ Continue(IF tree.test /\ options.version /\ tested' # ""
              THEN "make_test" ELSE "cleanup")
  /\ UNCHANGED <<options, tree, files, container, image, verdict>>

(* Faulty variant of MakeTest: the error is kept under another name.       *)
MakeTests ==
  /\ call = "make_test"
  /\ Continue("cleanup") \/ Return("tests", TRUE, "cleanup")
  /\ UNCHANGED <<options, tree, files, container, image, tested, verdict>>

MakeTest ==
  /\ call = "make_test"
  /\ Continue("cleanup") \/ Return("test", TRUE, "cleanup")
  /\ UNCHANGED <<options, tree, files, container, image, tested, verdict>>

Cleanup ==
  /\ call = "cleanup"
  /\ files' = IF options.skip_cleanup THEN files ELSE {}
  /\ Continue("verdict")
  /\ UNCHANGED <<options, tree, container, image, tested, verdict>>

(* retrieveErr != nil && compileErr != nil && testErr != nil               *)
ValidationFailed == \A p \in Phases : err[p]

PrintVerdict ==
  /\ call = "verdict"
  /\ verdict' = IF ValidationFailed THEN "Validation failed" ELSE "All checks passed"
  /\ Continue("end")
  /\ UNCHANGED <<options, tree, files, container, image, tested>>

ValidateNext ==
  \/ Start \/ MakeRetrieve \/ CheckMetadata \/ FindDockerfile \/ BuildImage
  \/ CreateContainer \/ StartContainer \/ WaitContainer \/ FindOutputs
  \/ CleanupContainer \/ SelectArtifact \/ MakeTest \/ Cleanup \/ PrintVerdict

ValidateSpec == ValidateInit /\ [][ValidateNext]_validateVars

-----------------------------------------------------------------------------
(* Types of the tool's state.                                              *)
ValidateTypeOK ==
  /\ call \in Calls
  /\ files \in SUBSET Files
  /\ container \in {"none", "created", "running", "exited", "exited with an error", "removed"}
  /\ image \in BOOLEAN
  /\ err \in [Phases -> BOOLEAN]
  /\ reported \in SUBSET Phases
  /\ tested \in {"", "given", "built"}
  /\ verdict \in {"", "no dependency directory", "Validation failed", "All checks passed"}

(* `make test' never runs against a half-made compilation: when the        *)
(* artifact comes from the compilation, it and its checksum are both still *)
(* in the temporary directory.                                             *)
TestedArtifactIsComplete ==
  call = "make_test" /\ tested = "built" => {"tgz", "checksum"} \subseteq files

(* "All checks passed" is printed when no phase returned an error: the     *)
(* tool validates that retrieve, test and compile each work (README.md of  *)
(* scripts/validate, lines 60-61).                                         *)
PassedMeansNoError ==
  verdict = "All checks passed" => \A p \in Phases : ~err[p]

=============================================================================
