--------------------------- MODULE DependencyTest ---------------------------
(***************************************************************************)
(* The test-dependency action: actions/test-dependency/entrypoint and the  *)
(* dependency-tests/<name>/run scripts.  Some of them start the dependency *)
(* as a server and poll it; the server is a process of its own: it may     *)
(* come up early, late or never, may accept a request and keep it, and may *)
(* die at any time.  The others check the version and let the dependency   *)
(* do some work, or nothing.                                               *)
(***************************************************************************)
EXTENDS Naturals

CONSTANTS
  Scripts,   \* dependencies that have a script
  Servers,   \* those whose script starts a server
  Working,   \* those of the others that are put to work (curl, php, tini,
             \* yarn)
  Needing,   \* those whose script extracts a required dependency (bundler,
             \* pip, pipenv, poetry, yarn, dotnet-runtime, dotnet-aspnetcore)
  Matching,  \* those that look for the version as a regular expression in
             \* what both archives list (dotnet-runtime, dotnet-aspnetcore)
  Daemons,   \* those whose start command reports whether the server started
             \* (httpd, nginx); the others put the server in the background
  Quoted,    \* those whose last test is [[ ! "${succeeded}" ]] (go, node,
             \* rust) rather than [[ ${succeeded} -eq 0 ]]
  Versions,  \* versions an artifact can report
  Found,     \* the versions a version, read as an expression, is found in:
             \* 6.0.1 is found in 6.0.1 and in 6.0.10
  MaxTries   \* rounds of the polling loop: for _ in {1..5}

ASSUME ScriptsAssumption ==
  /\ Servers \subseteq Scripts /\ Needing \subseteq Scripts
  /\ Working \subseteq Scripts \ Servers
  /\ Matching \subseteq Needing
  /\ Daemons \subseteq Servers /\ Quoted \subseteq Servers
ASSUME FoundAssumption ==
  Found \in [Versions -> SUBSET Versions] /\ \A v \in Versions : v \in Found[v]
ASSUME MaxTriesAssumption == MaxTries \in Nat \ {0}

VARIABLES
  pc,         \* the command executed next; "exited" at the end
  input,      \* the arguments of the action
  artifact,   \* what curl -O saved: an archive of that version, or neither
  required,   \* what it saved of the required dependency: an archive that
              \* brings a version of the tested dependency, another archive,
              \* or neither
  work,       \* what became of the work the dependency was put to
  server,     \* the server process
  tries,      \* rounds of the loop so far
  succeeded,  \* the shell variable: 0 or 1
  exitCode    \* exit status of the container; 2 while it runs

vars == <<pc, input, artifact, required, work, server, tries, succeeded, exitCode>>

Inputs == [name : Scripts, version : Versions, complete : BOOLEAN,
           mixins : {"none", "packages", "set"}, requires : BOOLEAN]

Saved == Versions \union {"nothing", "garbage"}

SavedRequired == Saved \union {"archive"}

Steps == {"arguments", "mixins", "download", "required", "extract",
          "extract required", "version", "work", "start", "poll", "kill",
          "verdict", "exited"}

Init ==
  /\ pc = "arguments"
  /\ input \in Inputs
  /\ artifact = "nothing"
  /\ required = "nothing"
  /\ work = "none"
  /\ server = "down"
  /\ tries = 0
  /\ succeeded = 0
  /\ exitCode = 2

Goto(step) == pc' = step /\ UNCHANGED exitCode

Exit(code) == pc' = "exited" /\ exitCode' = code

(* --name, --version and --dependency-url must not be empty.               *)
CheckArguments ==
  /\ pc = "arguments"
  /\ IF input.complete THEN Goto("mixins") ELSE Exit(1)
  /\ UNCHANGED <<input, artifact, required, work, server, tries, succeeded>>

(* A set: mixin is refused; apt-get may fail for the packages of others.   *)
InstallMixins ==
  /\ pc = "mixins"
  /\ \/ input.mixins # "set" /\ Goto("download")
     \/ input.mixins # "none" /\ Exit(1)
  /\ UNCHANGED <<input, artifact, required, work, server, tries, succeeded>>

(* curl -s -O without --fail: an error page is saved as the artifact; a    *)
(* failed connection ends the script.                                      *)
Download ==
  /\ pc = "download"
  /\ \/ /\ artifact' \in Versions \union {"garbage"}
        /\ Goto(IF input.requires THEN "required" ELSE "extract")
     \/ Exit(1) /\ UNCHANGED artifact
  /\ UNCHANGED <<input, required, work, server, tries, succeeded>>

(* The same curl for the required dependency, whose url get-required       *)
(* -dependency chose.  A .NET archive may bring the tested runtime along.  *)
DownloadRequired ==
  /\ pc = "required"
  /\ \/ /\ \/ required' \in {"archive", "garbage"}
           \/ input.name \in Matching /\ required' \in Versions
        /\ Goto("extract")
     \/ Exit(1) /\ UNCHANGED required
  /\ UNCHANGED <<input, artifact, work, server, tries, succeeded>>

(* extract_tarball                                                         *)
Extract ==
  /\ pc = "extract"
  /\ IF artifact \in Versions
     THEN Goto(IF input.name \in Needing THEN "extract required" ELSE "version")
     ELSE Exit(1)
  /\ UNCHANGED <<input, artifact, required, work, server, tries, succeeded>>

(* extract_tarball_node, _python, _ruby, and the second tar of the .NET    *)
(* scripts: an action called without a required dependency has no such     *)
(* directory.                                                              *)
ExtractRequired ==
  /\ pc = "extract required"
  /\ IF required \in Versions \union {"archive"} THEN Goto("version") ELSE Exit(1)
  /\ UNCHANGED <<input, artifact, required, work, server, tries, succeeded>>

(* What the dependency reports is compared with the dispatched version; the*)
(* .NET scripts, which extract both archives into one directory, look for  *)
(* it with =~ in the list of all the runtimes there.                       *)
VersionFound ==
  \/ artifact = input.version
  \/ /\ input.name \in Matching
     /\ {artifact, required} \intersect Found[input.version] # {}

(* check_version: the command that asks for the version may fail itself.   *)
CheckVersion ==
  /\ pc = "version"
  /\ \/ /\ VersionFound
        /\ Goto(CASE input.name \in Servers -> "start"
                  [] input.name \in Working -> "work"
                  [] OTHER -> "verdict")
     \/ Exit(1)
  /\ UNCHANGED <<input, artifact, required, work, server, tries, succeeded>>

(* check_yarn, check_php_parsing, check_spawn, ...: commands, each checked *)
(* under set +e; the first that does not do what it should ends the script.*)
Work ==
  /\ pc = "work"
  /\ work' \in {"done", "failed"}
  /\ IF work' = "failed" THEN Exit(1) ELSE Goto("verdict")
  /\ UNCHANGED <<input, artifact, required, server, tries, succeeded>>

(* check_server starts the server; only a daemon's start command tells the *)
(* script, still under set -e, that the server does not start.             *)
StartServer ==
  /\ pc = "start"
  /\ \/ server' = "starting" /\ Goto("poll")
     \/ input.name \in Daemons /\ Exit(1) /\ UNCHANGED server
  /\ UNCHANGED <<input, artifact, required, work, tries, succeeded>>

(* One round of a loop of `last' rounds: the server answers, or sleep 1    *)
(* and try again.  curl has no --max-time: a server that accepts the       *)
(* request and does not answer holds the round until it answers or dies.   *)
PollUntil(last) ==
  /\ pc = "poll"
  /\ \/ /\ server \in {"up", "answered"}
        /\ succeeded' = 1
        /\ Goto("kill")
        /\ UNCHANGED <<server, tries>>
     \/ /\ server = "up"
        /\ server' = "holding"
        /\ UNCHANGED <<pc, exitCode, succeeded, tries>>
     \/ /\ server \in {"starting", "crashed"}
        /\ tries' = tries + 1
        /\ Goto(IF tries' = last THEN "kill" ELSE "poll")
        /\ UNCHANGED <<server, succeeded>>
  /\ UNCHANGED <<input, artifact, required, work>>

(* Faulty variants of Poll: a loop that gives up a round early, one that   *)
(* makes a round too many and one that does not count.                     *)
PollTooFew == PollUntil(MaxTries - 1)

PollTooMany == PollUntil(MaxTries + 1)

PollForever ==
  /\ pc = "poll"
  /\ \/ server \in {"up", "answered"} /\ succeeded' = 1 /\ Goto("kill")
     \/ server \in {"starting", "crashed"} /\ UNCHANGED <<pc, exitCode, succeeded>>
  /\ UNCHANGED <<input, artifact, required, work, server, tries>>

Poll == PollUntil(MaxTries)

(* kill is sent; it may fail when the server is gone (set +e).             *)
Kill ==
  /\ pc = "kill"
  /\ server' = "killed"
  /\ Goto("verdict")
  /\ UNCHANGED <<input, artifact, required, work, tries, succeeded>>

(* Faulty variant of FailureDetected: the quoted test in every script.     *)
FailureDetectedQuoted == FALSE

(* [[ ! "${succeeded}" ]] asks whether the string is empty: "0" is not.    *)
FailureDetected ==
  /\ input.name \in Servers \ Quoted
  /\ succeeded = 0

(* The last test, if any, and "All tests passed!".                         *)
Verdict ==
  /\ pc = "verdict"
  /\ IF FailureDetected THEN Exit(1) ELSE Exit(0)
  /\ UNCHANGED <<input, artifact, required, work, server, tries, succeeded>>

(* The server process, in its own time.  It may begin to answer a request  *)
(* it holds, or keep it for ever.                                          *)
ServerStep ==
  /\ \/ server = "starting" /\ server' \in {"up", "crashed"}
     \/ server = "up" /\ server' = "crashed"
     \/ server = "holding" /\ server' \in {"answered", "crashed"}
  /\ UNCHANGED <<pc, input, artifact, required, work, tries, succeeded, exitCode>>

ScriptStep ==
  \/ CheckArguments \/ InstallMixins \/ Download \/ DownloadRequired
  \/ Extract \/ ExtractRequired \/ CheckVersion \/ Work \/ StartServer \/ Poll \/ Kill \/ Verdict

Next == ScriptStep \/ ServerStep

Spec == Init /\ [][Next]_vars

(* The shell runs its next command; the server owes nothing.               *)
FairSpec == Spec /\ WF_vars(ScriptStep)

-----------------------------------------------------------------------------
(* Types of the script's state.                                            *)
TypeOK ==
  /\ pc \in Steps
  /\ input \in Inputs
  /\ artifact \in Saved
  /\ required \in SavedRequired
  /\ work \in {"none", "done", "failed"}
  /\ server \in {"down", "starting", "up", "holding", "answered", "crashed", "killed"}
  /\ tries \in 0..MaxTries
  /\ succeeded \in {0, 1}
  /\ exitCode \in {0, 1, 2}

(* A dependency whose server was started is rejected only after every      *)
(* round of the loop failed: a server that comes up late, between two      *)
(* rounds, is not taken for a broken one.                                  *)
RejectedAfterAllTries ==
  exitCode = 1 /\ server = "killed" => tries = MaxTries /\ succeeded = 0

(* "All tests passed!" is only printed for an archive that reports the     *)
(* dispatched version, whose server answered a request, as the message     *)
(* "Failed to curl server" of every such script says, or which did the     *)
(* work it was put to, together with the required dependency if the script *)
(* needs one.  The .NET scripts promise less: the dispatched version is    *)
(* found in that of either archive.                                        *)
PassedMeansServed ==
  exitCode = 0 =>
    /\ artifact \in Versions
    /\ input.name \notin Matching => artifact = input.version
    /\ input.name \in Matching =>
         \E v \in {artifact, required} : v \in Found[input.version]
    /\ input.name \in Servers => succeeded = 1
    /\ input.name \in Working => work = "done"
    /\ input.name \in Needing => required \in Versions \union {"archive"}

(* The loop is bounded, so the script ends however late the server comes   *)
(* up and whenever it dies, unless the server takes a request and neither  *)
(* answers it nor dies: nothing then takes the script out of curl.         *)
ScriptEnds == <>(pc = "exited") \/ <>[](pc = "poll" /\ server = "holding")

=============================================================================
