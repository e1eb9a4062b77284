------------------------ MODULE ArtifactTests_proofs -------------------------
(* Proofs about the two tools that test an artifact before it is used:     *)
(* DependencyTest, for any scripts, versions and tries, and Validate, for  *)
(* every behaviour of its calls.                                           *)
EXTENDS DependencyTest, Validate, TLAPS

-----------------------------------------------------------------------------
(* DependencyTest.                                                         *)

(* The steps a script takes only with the right archive in its directory.  *)
Checked == {"work", "start", "poll", "kill", "verdict"}

(* What the script knows at each place: the checks it passed, and that the *)
(* server is killed only after an answer or the last round.                *)
Progress ==
  /\ pc \in Checked => VersionFound
  /\ pc \in Checked \union {"version", "extract required"} => artifact \in Versions
  /\ pc \in Checked \union {"version"} /\ input.name \in Needing
       => required \in Versions \union {"archive"}
  /\ pc = "work" => input.name \in Working
  /\ pc \in {"start", "poll", "kill"} => input.name \in Servers
  /\ pc = "verdict" /\ input.name \in Working => work = "done"
  /\ pc = "verdict" /\ input.name \in Servers => server = "killed"
  /\ pc = "poll" => tries < MaxTries /\ succeeded = 0
  /\ server = "killed" => pc \in {"verdict", "exited"}
  /\ pc = "kill" \/ server = "killed" => succeeded = 1 \/ tries = MaxTries
  /\ pc \in {"arguments", "mixins", "download", "required", "extract",
             "extract required", "version", "work", "start"}
       => tries = 0 /\ succeeded = 0 /\ server = "down"
  /\ pc # "exited" <=> exitCode = 2

(* What holds of a script that has ended.                                  *)
Outcome ==
  /\ exitCode = 1 /\ server = "killed" => tries = MaxTries /\ succeeded = 0
  /\ exitCode = 0 =>
       /\ VersionFound /\ artifact \in Versions
       /\ input.name \in Servers \ Quoted => succeeded = 1
       /\ input.name \in Working => work = "done"
       /\ input.name \in Needing => required \in Versions \union {"archive"}

(* Why the properties of a script are invariants.                          *)
IInv == TypeOK /\ Progress /\ Outcome

(* A script begins with nothing downloaded and no server.                  *)
LEMMA InitInvariant == Init => IInv
BY MaxTriesAssumption
   DEF Init, IInv, TypeOK, Progress, Outcome, Steps, Saved, SavedRequired, Checked, Inputs

(* A script that ends before it kills the server has nothing left to keep. *)
LEMMA EndedEarly ==
  ASSUME pc' = "exited", exitCode' = 1, server' = "down"
  PROVE  Progress'
<1>1. /\ pc' \notin Checked \union {"version", "extract required"}
      /\ pc' \notin {"work", "start", "poll", "kill", "verdict"}
  BY DEF Checked
<1>2. (pc # "exited" <=> exitCode = 2)'
  OBVIOUS
<1>3. (pc \in {"arguments", "mixins", "download", "required", "extract",
               "extract required", "version", "work", "start"}
         => tries = 0 /\ succeeded = 0 /\ server = "down")'
  OBVIOUS
<1> QED BY <1>1, <1>2, <1>3 DEF Progress

(* Before the archive is extracted there is nothing to know.               *)
LEMMA NothingChecked ==
  ASSUME pc' \in {"mixins", "download", "required", "extract"}, exitCode' = 2,
         tries' = 0, succeeded' = 0, server' = "down"
  PROVE  Progress'
<1>1. /\ pc' \notin Checked \union {"version", "extract required"}
      /\ pc' \notin {"work", "start", "poll", "kill", "verdict", "exited"}
  BY DEF Checked
<1> QED BY <1>1 DEF Progress

(* Every command of the script, and every step of the server, preserves    *)
(* the invariant.                                                          *)
LEMMA NextInvariant == IInv /\ [Next]_vars => IInv'
<1> SUFFICES ASSUME IInv, [Next]_vars PROVE IInv'
  OBVIOUS
<1>0. TypeOK /\ Progress /\ Outcome
  BY DEF IInv
<1> USE DEF TypeOK, Progress, Outcome, Steps, Saved, SavedRequired, Checked, Goto, Exit
<1>V. input' = input /\ artifact' = artifact /\ required' = required
        => (VersionFound' <=> VersionFound)
  BY DEF VersionFound
<1>1. CASE CheckArguments
  <2>1. TypeOK'
    BY <1>0, <1>V, <1>1 DEF CheckArguments
  <2>2. Progress'
    <3>0. tries' = 0 /\ succeeded' = 0 /\ server' = "down" /\ exitCode = 2
      BY <1>0, <1>1 DEF CheckArguments
    <3>1. CASE pc' = "exited" /\ exitCode' = 1
      BY <3>0, <3>1, EndedEarly
    <3>2. CASE pc' # "exited"
      <4>1. /\ pc' \in {"mixins", "download", "required", "extract"}
            /\ exitCode' = exitCode
        BY <1>1, <3>2 DEF CheckArguments
      <4> HIDE DEF Progress
      <4> QED BY <3>0, <4>1, NothingChecked
    <3> QED BY <1>1, <3>1, <3>2 DEF CheckArguments
  <2>3. Outcome'
    BY <1>0, <1>V, <1>1 DEF CheckArguments
  <2> QED BY <2>1, <2>2, <2>3 DEF IInv
<1>2. CASE InstallMixins
  <2>1. TypeOK'
    BY <1>0, <1>V, <1>2 DEF InstallMixins
  <2>2. Progress'
    <3>0. tries' = 0 /\ succeeded' = 0 /\ server' = "down" /\ exitCode = 2
      BY <1>0, <1>2 DEF InstallMixins
    <3>1. CASE pc' = "exited" /\ exitCode' = 1
      BY <3>0, <3>1, EndedEarly
    <3>2. CASE pc' # "exited"
      <4>1. /\ pc' \in {"mixins", "download", "required", "extract"}
            /\ exitCode' = exitCode
        BY <1>2, <3>2 DEF InstallMixins
      <4> HIDE DEF Progress
      <4> QED BY <3>0, <4>1, NothingChecked
    <3> QED BY <1>2, <3>1, <3>2 DEF InstallMixins
  <2>3. Outcome'
    BY <1>0, <1>V, <1>2 DEF InstallMixins
  <2> QED BY <2>1, <2>2, <2>3 DEF IInv
<1>3. CASE Download
  <2>1. TypeOK'
    BY <1>0, <1>V, <1>3 DEF Download
  <2>2. Progress'
    <3>0. tries' = 0 /\ succeeded' = 0 /\ server' = "down" /\ exitCode = 2
      BY <1>0, <1>3 DEF Download
    <3>1. CASE pc' = "exited" /\ exitCode' = 1
      BY <3>0, <3>1, EndedEarly
    <3>2. CASE pc' # "exited"
      <4>1. /\ pc' \in {"mixins", "download", "required", "extract"}
            /\ exitCode' = exitCode
        BY <1>3, <3>2 DEF Download
      <4> HIDE DEF Progress
      <4> QED BY <3>0, <4>1, NothingChecked
    <3> QED BY <1>3, <3>1, <3>2 DEF Download
  <2>3. Outcome'
    BY <1>0, <1>V, <1>3 DEF Download
  <2> QED BY <2>1, <2>2, <2>3 DEF IInv
<1>4. CASE DownloadRequired
  <2>1. TypeOK'
    BY <1>0, <1>V, <1>4 DEF DownloadRequired
  <2>2. Progress'
    <3>0. tries' = 0 /\ succeeded' = 0 /\ server' = "down" /\ exitCode = 2
      BY <1>0, <1>4 DEF DownloadRequired
    <3>1. CASE pc' = "exited" /\ exitCode' = 1
      BY <3>0, <3>1, EndedEarly
    <3>2. CASE pc' # "exited"
      <4>1. /\ pc' \in {"mixins", "download", "required", "extract"}
            /\ exitCode' = exitCode
        BY <1>4, <3>2 DEF DownloadRequired
      <4> HIDE DEF Progress
      <4> QED BY <3>0, <4>1, NothingChecked
    <3> QED BY <1>4, <3>1, <3>2 DEF DownloadRequired
  <2>3. Outcome'
    BY <1>0, <1>V, <1>4 DEF DownloadRequired
  <2> QED BY <2>1, <2>2, <2>3 DEF IInv
<1>5. CASE Extract
  <2>1. TypeOK'
    BY <1>0, <1>V, <1>5 DEF Extract
  <2>2. Progress'
    <3>0. input' = input /\ UNCHANGED <<artifact, required, work, server, tries, succeeded>>
      BY <1>5 DEF Extract
    <3>1. CASE pc' = "exited" /\ exitCode' = 1
      BY <1>0, <3>0, <3>1, <1>5, EndedEarly DEF Extract
    <3>2. CASE pc' = "version" /\ exitCode' = exitCode /\ input.name \notin Needing
      BY <1>0, <1>V, <3>0, <3>2, <1>5 DEF Extract
    <3>3. CASE pc' = "extract required" /\ exitCode' = exitCode
      BY <1>0, <1>V, <3>0, <3>3, <1>5 DEF Extract
    <3> QED BY <3>1, <3>2, <3>3, <1>5 DEF Extract
  <2>3. Outcome'
    BY <1>0, <1>V, <1>5 DEF Extract
  <2> QED BY <2>1, <2>2, <2>3 DEF IInv
<1>6. CASE ExtractRequired
  <2>1. TypeOK'
    BY <1>0, <1>V, <1>6 DEF ExtractRequired
  <2>2. Progress'
    <3>0. /\ UNCHANGED <<input, artifact, required, work, server, tries, succeeded>>
          /\ pc = "extract required"
      BY <1>6 DEF ExtractRequired
    <3>1. CASE pc' = "exited" /\ exitCode' = 1
      BY <1>0, <3>0, <3>1, EndedEarly
    <3>2. CASE pc' = "version" /\ exitCode' = exitCode /\ required \in Versions \union {"archive"}
      BY <1>0, <1>V, <3>0, <3>2, <1>6 DEF ExtractRequired
    <3> QED BY <3>1, <3>2, <1>6 DEF ExtractRequired
  <2>3. Outcome'
    BY <1>0, <1>V, <1>6 DEF ExtractRequired
  <2> QED BY <2>1, <2>2, <2>3 DEF IInv
<1>7. CASE CheckVersion
  <2>1. TypeOK'
    BY <1>0, <1>V, <1>7, ScriptsAssumption, MaxTriesAssumption DEF CheckVersion
  <2>0. /\ UNCHANGED <<input, artifact, required, work, server, tries, succeeded>>
        /\ pc = "version" /\ tries = 0 /\ succeeded = 0 /\ server = "down"
    BY <1>0, <1>7 DEF CheckVersion
  <2>2. Progress'
    <3>1. CASE pc' = "exited" /\ exitCode' = 1
      BY <2>0, <3>1, EndedEarly
    <3>2. CASE pc' = "start" /\ exitCode' = exitCode /\ input.name \in Servers /\ VersionFound
      BY <1>0, <1>V, <2>0, <3>2, ScriptsAssumption, MaxTriesAssumption
    <3>3. CASE pc' = "work" /\ exitCode' = exitCode /\ input.name \in Working /\ VersionFound
      BY <1>0, <1>V, <2>0, <3>3, ScriptsAssumption, MaxTriesAssumption
    <3>4. CASE /\ pc' = "verdict" /\ exitCode' = exitCode /\ VersionFound
               /\ input.name \notin Servers \union Working
      BY <1>0, <1>V, <2>0, <3>4, ScriptsAssumption, MaxTriesAssumption
    <3> QED BY <1>7, <3>1, <3>2, <3>3, <3>4 DEF CheckVersion
  <2>3. Outcome'
    BY <1>0, <1>V, <1>7, ScriptsAssumption, MaxTriesAssumption DEF CheckVersion
  <2> QED BY <2>1, <2>2, <2>3 DEF IInv
<1>8. CASE Work
  <2>1. TypeOK'
    BY <1>0, <1>V, <1>8, ScriptsAssumption DEF Work
  <2>0. /\ UNCHANGED <<input, artifact, required, server, tries, succeeded>>
        /\ pc = "work" /\ tries = 0 /\ succeeded = 0 /\ server = "down"
    BY <1>0, <1>8 DEF Work
  <2>2. Progress'
    <3>1. CASE pc' = "exited" /\ exitCode' = 1
      BY <2>0, <3>1, EndedEarly
    <3>2. CASE pc' = "verdict" /\ exitCode' = exitCode /\ work' = "done"
      BY <1>0, <1>V, <2>0, <3>2, ScriptsAssumption
    <3> QED BY <1>8, <3>1, <3>2 DEF Work
  <2>3. Outcome'
    BY <1>0, <1>V, <1>8, ScriptsAssumption DEF Work
  <2> QED BY <2>1, <2>2, <2>3 DEF IInv
<1>9. CASE StartServer
  <2>1. TypeOK'
    BY <1>0, <1>V, <1>9, MaxTriesAssumption DEF StartServer
  <2>2. Progress'
    <3>0. UNCHANGED <<input, artifact, required, work, tries, succeeded>>
      BY <1>9 DEF StartServer
    <3>1. CASE pc' = "exited" /\ exitCode' = 1 /\ server' = server
      BY <1>0, <1>V, <3>0, <3>1, <1>9, MaxTriesAssumption DEF StartServer
    <3>2. CASE pc' = "poll" /\ exitCode' = exitCode /\ server' = "starting"
      BY <1>0, <1>V, <3>0, <3>2, <1>9, MaxTriesAssumption DEF StartServer
    <3> QED BY <3>1, <3>2, <1>9 DEF StartServer
  <2>3. Outcome'
    BY <1>0, <1>V, <1>9, MaxTriesAssumption DEF StartServer
  <2> QED BY <2>1, <2>2, <2>3 DEF IInv
<1>10. CASE Poll
  <2>0. UNCHANGED <<input, artifact, required, work, exitCode>> /\ pc = "poll"
    BY <1>10 DEF Poll, PollUntil
  <2>1. CASE pc' = "kill" /\ succeeded' = 1 /\ UNCHANGED <<server, tries>>
    <3>1. TypeOK' /\ Outcome'
      BY <1>0, <1>V, <2>0, <2>1
    <3>2. Progress'
      BY <1>0, <1>V, <2>0, <2>1
    <3> QED BY <3>1, <3>2 DEF IInv
  <2>2. CASE server' = "holding" /\ UNCHANGED <<pc, succeeded, tries>>
    <3>1. TypeOK' /\ Outcome'
      BY <1>0, <1>V, <2>0, <2>2
    <3>2. Progress'
      BY <1>0, <1>V, <2>0, <2>2
    <3> QED BY <3>1, <3>2 DEF IInv
  <2>3. CASE /\ tries' = tries + 1 /\ UNCHANGED <<server, succeeded>>
             /\ pc' = IF tries' = MaxTries THEN "kill" ELSE "poll"
    <3>0. tries' \in 0..MaxTries
      BY <1>0, <1>V, <2>0, <2>3, MaxTriesAssumption
    <3>1. TypeOK' /\ Outcome'
      BY <1>0, <1>V, <2>0, <2>3, <3>0
    <3>2. Progress'
      BY <1>0, <1>V, <2>0, <2>3, <3>0, MaxTriesAssumption
    <3> QED BY <3>1, <3>2 DEF IInv
  <2> QED BY <2>1, <2>2, <2>3, <1>10 DEF Poll, PollUntil
<1>11. CASE Kill
  <2>1. TypeOK'
    BY <1>0, <1>V, <1>11, ScriptsAssumption DEF Kill
  <2>2. Progress'
    BY <1>0, <1>V, <1>11, ScriptsAssumption DEF Kill
  <2>3. Outcome'
    BY <1>0, <1>V, <1>11, ScriptsAssumption DEF Kill
  <2> QED BY <2>1, <2>2, <2>3 DEF IInv
<1>12. CASE Verdict
  <2>1. TypeOK'
    BY <1>0, <1>V, <1>12 DEF Verdict
  <2>0. /\ UNCHANGED <<input, artifact, required, work, server, tries, succeeded>>
        /\ pc = "verdict" /\ pc' = "exited" /\ exitCode' \in {0, 1}
    BY <1>12 DEF Verdict
  <2>2. Progress'
    BY <1>0, <1>V, <2>0
  <2>3. Outcome'
    <3>1. CASE FailureDetected
      BY <1>0, <1>V, <1>12, <2>0, <3>1 DEF Verdict, FailureDetected
    <3>2. CASE ~FailureDetected
      BY <1>0, <1>V, <1>12, <2>0, <3>2 DEF Verdict, FailureDetected
    <3> QED BY <3>1, <3>2
  <2> QED BY <2>1, <2>2, <2>3 DEF IInv
<1>13. CASE ServerStep
  <2>1. TypeOK'
    BY <1>0, <1>V, <1>13 DEF ServerStep
  <2>2. Progress'
    BY <1>0, <1>V, <1>13 DEF ServerStep
  <2>3. Outcome'
    BY <1>0, <1>V, <1>13 DEF ServerStep
  <2> QED BY <2>1, <2>2, <2>3 DEF IInv
<1>14. CASE UNCHANGED vars
  <2>1. TypeOK'
    BY <1>0, <1>V, <1>14 DEF vars
  <2>2. Progress'
    BY <1>0, <1>V, <1>14 DEF vars
  <2>3. Outcome'
    BY <1>0, <1>V, <1>14 DEF vars
  <2> QED BY <2>1, <2>2, <2>3 DEF IInv
<1> QED
  BY <1>1, <1>2, <1>3, <1>4, <1>5, <1>6, <1>7, <1>8, <1>9, <1>10, <1>11, <1>12,
     <1>13, <1>14 DEF Next, ScriptStep

(* The invariant holds in every reachable state.                           *)
THEOREM InvariantHolds == Spec => []IInv
BY InitInvariant, NextInvariant, PTL DEF Spec

(* The script's variables keep their types, for any number of tries.       *)
THEOREM TypeCorrect == Spec => []TypeOK
<1>1. IInv => TypeOK
  BY DEF IInv
<1> QED BY <1>1, InvariantHolds, PTL

(* However late the server comes up and whenever it dies, the script does  *)
(* not give up on it before the last try.                                  *)
THEOREM RejectionsTookAllTries == Spec => []RejectedAfterAllTries
<1>1. IInv => RejectedAfterAllTries
  BY DEF IInv, Outcome, RejectedAfterAllTries
<1> QED BY <1>1, InvariantHolds, PTL

(* If every script ended with the comparison -eq, passing would mean that  *)
(* the dependency was the right one and answered or worked.                *)
THEOREM PassedScriptsServed ==
  ASSUME Quoted = {}
  PROVE  Spec => []PassedMeansServed
<1>1. IInv => PassedMeansServed
  BY FoundAssumption DEF IInv, TypeOK, Inputs, Outcome, VersionFound, PassedMeansServed
<1> QED BY <1>1, InvariantHolds, PTL

-----------------------------------------------------------------------------
(* Validate.                                                               *)

(* The calls before main looks at the result of compile.                   *)
Early == {"start", "make_retrieve", "metadata", "docker", "build", "create", "run",
          "wait", "outputs", "cleanup_container"}

Complete == {"tgz", "checksum"} \subseteq files

(* What is known at each call: nothing was built before the outputs were   *)
(* found, and they stay until the clean-up.                                *)
Knowledge ==
  /\ call \in Early => tested = ""
  /\ call = "cleanup_container" => Complete
  /\ call \in {"select", "make_test"} /\ tested = "built" => Complete

(* Why the properties of the tool are invariants.                          *)
ValidateInvariant == ValidateTypeOK /\ Knowledge

(* Nothing is reported when the tool starts.                               *)
LEMMA ValidateInitInvariant == ValidateInit => ValidateInvariant
<1> SUFFICES ASSUME ValidateInit PROVE ValidateInvariant
  OBVIOUS
<1>1. err \in [Phases -> BOOLEAN] /\ \A p \in Phases : ~err[p]
  BY Zenon DEF ValidateInit
<1>2. ValidateTypeOK
  BY <1>1 DEF ValidateInit, ValidateTypeOK, Calls, Files, Phases
<1>3. Knowledge
  BY <1>1 DEF ValidateInit, Knowledge, Early, Phases
<1> QED BY <1>2, <1>3 DEF ValidateInvariant

(* Every call, whether it fails or not, preserves the invariant.           *)
LEMMA ValidateNextInvariant == ValidateInvariant /\ [ValidateNext]_validateVars => ValidateInvariant'
<1> SUFFICES ASSUME ValidateInvariant, [ValidateNext]_validateVars PROVE ValidateInvariant'
  OBVIOUS
<1>0. ValidateTypeOK /\ Knowledge
  BY DEF ValidateInvariant
<1> USE DEF ValidateTypeOK, Knowledge, Calls, Phases, Files, Early, Complete, Return, Continue
<1>1. CASE Start
  <2>1. ValidateTypeOK'
    BY <1>0, <1>1 DEF Start
  <2>2. Knowledge'
    BY <1>0, <1>1 DEF Start
  <2> QED BY <2>1, <2>2 DEF ValidateInvariant
<1>2. CASE MakeRetrieve
  <2>1. ValidateTypeOK'
    BY <1>0, <1>2 DEF MakeRetrieve
  <2>2. Knowledge'
    BY <1>0, <1>2 DEF MakeRetrieve
  <2> QED BY <2>1, <2>2 DEF ValidateInvariant
<1>3. CASE CheckMetadata
  <2>1. ValidateTypeOK'
    BY <1>0, <1>3 DEF CheckMetadata
  <2>2. Knowledge'
    BY <1>0, <1>3 DEF CheckMetadata
  <2> QED BY <2>1, <2>2 DEF ValidateInvariant
<1>4. CASE FindDockerfile
  <2>1. ValidateTypeOK'
    BY <1>0, <1>4 DEF FindDockerfile
  <2>2. Knowledge'
    BY <1>0, <1>4 DEF FindDockerfile
  <2> QED BY <2>1, <2>2 DEF ValidateInvariant
<1>5. CASE BuildImage
  <2>1. ValidateTypeOK'
    BY <1>0, <1>5 DEF BuildImage
  <2>2. Knowledge'
    BY <1>0, <1>5 DEF BuildImage
  <2> QED BY <2>1, <2>2 DEF ValidateInvariant
<1>6. CASE CreateContainer
  <2>1. ValidateTypeOK'
    BY <1>0, <1>6 DEF CreateContainer
  <2>2. Knowledge'
    BY <1>0, <1>6 DEF CreateContainer
  <2> QED BY <2>1, <2>2 DEF ValidateInvariant
<1>7. CASE StartContainer
  <2>1. ValidateTypeOK'
    BY <1>0, <1>7 DEF StartContainer
  <2>2. Knowledge'
    BY <1>0, <1>7 DEF StartContainer
  <2> QED BY <2>1, <2>2 DEF ValidateInvariant
<1>8. CASE WaitContainer
  <2>1. ValidateTypeOK'
    BY <1>0, <1>8 DEF WaitContainer
  <2>2. Knowledge'
    BY <1>0, <1>8 DEF WaitContainer
  <2> QED BY <2>1, <2>2 DEF ValidateInvariant
<1>9. CASE FindOutputs
  <2>1. ValidateTypeOK'
    BY <1>0, <1>9 DEF FindOutputs
  <2>2. Knowledge'
    BY <1>0, <1>9 DEF FindOutputs
  <2> QED BY <2>1, <2>2 DEF ValidateInvariant
<1>10. CASE CleanupContainer
  <2>1. ValidateTypeOK'
    BY <1>0, <1>10 DEF CleanupContainer
  <2>2. Knowledge'
    BY <1>0, <1>10 DEF CleanupContainer
  <2> QED BY <2>1, <2>2 DEF ValidateInvariant
<1>11. CASE SelectArtifact
  <2>1. ValidateTypeOK'
    BY <1>0, <1>11 DEF SelectArtifact
  <2>2. Knowledge'
    BY <1>0, <1>11 DEF SelectArtifact
  <2> QED BY <2>1, <2>2 DEF ValidateInvariant
<1>12. CASE MakeTest
  <2>1. ValidateTypeOK'
    BY <1>0, <1>12 DEF MakeTest
  <2>2. Knowledge'
    BY <1>0, <1>12 DEF MakeTest
  <2> QED BY <2>1, <2>2 DEF ValidateInvariant
<1>13. CASE Cleanup
  <2>1. ValidateTypeOK'
    BY <1>0, <1>13 DEF Cleanup
  <2>2. Knowledge'
    BY <1>0, <1>13 DEF Cleanup
  <2> QED BY <2>1, <2>2 DEF ValidateInvariant
<1>14. CASE PrintVerdict
  <2>1. ValidateTypeOK'
    BY <1>0, <1>14 DEF PrintVerdict
  <2>2. Knowledge'
    BY <1>0, <1>14 DEF PrintVerdict
  <2> QED BY <2>1, <2>2 DEF ValidateInvariant
<1>15. CASE UNCHANGED validateVars
  <2>1. ValidateTypeOK' /\ Knowledge'
    BY <1>0, <1>15 DEF validateVars
  <2> QED BY <2>1 DEF ValidateInvariant
<1> QED
  BY <1>1, <1>2, <1>3, <1>4, <1>5, <1>6, <1>7, <1>8, <1>9, <1>10, <1>11, <1>12,
     <1>13, <1>14, <1>15 DEF ValidateNext

(* The invariant holds in every reachable state.                           *)
THEOREM ValidateInvariantHolds == ValidateSpec => []ValidateInvariant
BY ValidateInitInvariant, ValidateNextInvariant, PTL DEF ValidateSpec

(* The tool's variables keep their types.                                  *)
THEOREM ValidateTypeCorrect == ValidateSpec => []ValidateTypeOK
<1>1. ValidateInvariant => ValidateTypeOK
  BY DEF ValidateInvariant
<1> QED BY <1>1, ValidateInvariantHolds, PTL

(* Whatever fails before, make test meets a whole compilation or a given   *)
(* artifact.                                                               *)
THEOREM TestedArtifactsAreComplete == ValidateSpec => []TestedArtifactIsComplete
<1>1. ValidateInvariant => TestedArtifactIsComplete
  BY DEF ValidateInvariant, Knowledge, Complete, TestedArtifactIsComplete
<1> QED BY <1>1, ValidateInvariantHolds, PTL

=============================================================================
