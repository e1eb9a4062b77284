------------------------ MODULE GetNewVersions_proofs ------------------------
(* Proofs about GetNewVersions for any set of jobs and versions.           *)
EXTENDS GetNewVersions, TLAPS

(* At most one job is past the turnstyle.                                  *)
LEMMA OneInside ==
  ASSUME Serialised, NEW i \in Jobs, NEW j \in Jobs, Inside(i), Inside(j)
  PROVE  i = j
BY DEF Serialised, Inside

(* The inductive invariant holds initially.                                *)
LEMMA InitInvariant == Init => InductiveInvariant
BY MaxFaultsAssumption
   DEF Init, InductiveInvariant, TypeOK, Serialised, Inside, Coherent, JobSteps

(* A job that leaves takes its local state with it and frees the others.   *)
LEMMA LeaveJob ==
  ASSUME TypeOK, Serialised, NEW j \in Jobs, Leave(j)
  PROVE  /\ ahead' \in [Jobs -> SUBSET Jobs]
         /\ pc' \in [Jobs -> JobSteps]
         /\ knownRead' \in [Jobs -> SUBSET SUBSET Versions]
         /\ listed' \in [Jobs -> SUBSET Versions]
         /\ todo' \in [Jobs -> SUBSET Versions]
         /\ Serialised'
         /\ pc'[j] = "idle" /\ knownRead'[j] = {} /\ todo'[j] = {}
         /\ \A i \in Jobs \ {j} : /\ pc'[i] = pc[i]
                                  /\ knownRead'[i] = knownRead[i]
                                  /\ listed'[i] = listed[i]
                                  /\ todo'[i] = todo[i]
<1>1. /\ pc'[j] = "idle" /\ knownRead'[j] = {} /\ todo'[j] = {}
      /\ \A i \in Jobs \ {j} : /\ pc'[i] = pc[i]
                               /\ knownRead'[i] = knownRead[i]
                               /\ listed'[i] = listed[i]
                               /\ todo'[i] = todo[i]
  BY DEF TypeOK, Leave
<1>2. \A i \in Jobs : ahead'[i] = IF i = j THEN {} ELSE ahead[i] \ {j}
  BY DEF Leave
<1>3. Serialised'
  BY <1>1, <1>2 DEF Serialised, Inside
<1>4. /\ ahead' \in [Jobs -> SUBSET Jobs]
      /\ pc' \in [Jobs -> JobSteps]
      /\ knownRead' \in [Jobs -> SUBSET SUBSET Versions]
      /\ listed' \in [Jobs -> SUBSET Versions]
      /\ todo' \in [Jobs -> SUBSET Versions]
  BY DEF TypeOK, Leave, JobSteps
<1> QED BY <1>1, <1>3, <1>4

(* Every step preserves the inductive invariant.                           *)
LEMMA NextInvariant == InductiveInvariant /\ [Next]_vars => InductiveInvariant'
<1> SUFFICES ASSUME InductiveInvariant, [Next]_vars
             PROVE  InductiveInvariant'
  OBVIOUS
<1>T. TypeOK /\ Serialised
  BY DEF InductiveInvariant
<1>1. ASSUME NEW v \in Versions, Release(v) \/ Withdraw(v)
      PROVE  InductiveInvariant'
  <2>1. /\ UNCHANGED <<known, job, faults, requested, accepted>>
        /\ upstream' \in SUBSET Versions
        /\ settled' \subseteq settled /\ settled' \subseteq upstream'
    BY <1>T, <1>1 DEF Release, Withdraw, TypeOK, InductiveInvariant
  <2>2. TypeOK' /\ Serialised'
    BY <1>T, <2>1 DEF TypeOK, Serialised, Inside, job
  <2>3. \A j \in Jobs : Coherent(j)'
    BY <2>1 DEF InductiveInvariant, Coherent, job
  <2> QED BY <2>1, <2>2, <2>3 DEF InductiveInvariant
<1>2. ASSUME NEW j \in Jobs, Create(j)
      PROVE  InductiveInvariant'
  <2>1. /\ UNCHANGED <<upstream, known, knownRead, listed, todo, faults,
                       requested, accepted, settled>>
        /\ pc[j] = "idle"
        /\ pc' = [pc EXCEPT ![j] = "turnstyle"]
        /\ ahead' = [ahead EXCEPT ![j] = {i \in Jobs : pc[i] # "idle"}]
    BY <1>2 DEF Create
  <2>2. TypeOK'
    BY <1>T, <2>1 DEF TypeOK, JobSteps
  <2>3. Serialised'
    BY <1>T, <2>1 DEF TypeOK, Serialised, Inside
  <2>4. \A i \in Jobs : Coherent(i)'
    BY <1>T, <2>1 DEF InductiveInvariant, TypeOK, Coherent
  <2> QED BY <2>1, <2>2, <2>3, <2>4 DEF InductiveInvariant
<1>3. ASSUME NEW j \in Jobs, Turnstyle(j)
      PROVE  InductiveInvariant'
  <2>1. /\ UNCHANGED <<upstream, known, ahead, knownRead, listed, todo, faults,
                       requested, accepted, settled>>
        /\ pc[j] = "turnstyle" /\ ahead[j] = {}
        /\ pc' = [pc EXCEPT ![j] = "read"]
    BY <1>3 DEF Turnstyle
  <2>2. TypeOK'
    BY <1>T, <2>1 DEF TypeOK, JobSteps
  <2>3. Serialised'
    BY <1>T, <2>1 DEF TypeOK, Serialised, Inside
  <2>4. \A i \in Jobs : Coherent(i)'
    BY <1>T, <2>1 DEF InductiveInvariant, TypeOK, Coherent
  <2> QED BY <2>1, <2>2, <2>3, <2>4 DEF InductiveInvariant
<1>4. ASSUME NEW j \in Jobs, ReadKnown(j) \/ ReadNothing(j)
      PROVE  InductiveInvariant'
  <2>1. PICK read \in {{}, {known}} :
          /\ UNCHANGED <<upstream, known, ahead, listed, todo, requested, accepted, settled>>
          /\ pc[j] = "read"
          /\ pc' = [pc EXCEPT ![j] = "list"]
          /\ knownRead' = [knownRead EXCEPT ![j] = read]
    BY <1>4 DEF ReadKnown, ReadNothing
  <2>2. faults' \in 0..MaxFaults
    BY <1>T, <1>4, MaxFaultsAssumption DEF ReadKnown, ReadNothing, TypeOK
  <2>3. TypeOK'
    BY <1>T, <2>1, <2>2 DEF TypeOK, JobSteps
  <2>4. Serialised'
    BY <1>T, <2>1 DEF TypeOK, Serialised, Inside
  <2>5. \A i \in Jobs : Coherent(i)'
    BY <1>T, <2>1 DEF InductiveInvariant, TypeOK, Coherent
  <2> QED BY <2>1, <2>3, <2>4, <2>5 DEF InductiveInvariant
<1>5. ASSUME NEW j \in Jobs, ListVersions(j)
      PROVE  InductiveInvariant'
  <2>1. PICK read \in knownRead[j] :
          /\ UNCHANGED <<upstream, known, ahead, knownRead, faults, requested, accepted, settled>>
          /\ pc[j] = "list"
          /\ pc' = [pc EXCEPT ![j] = "trigger"]
          /\ listed' = [listed EXCEPT ![j] = upstream]
          /\ todo' = [todo EXCEPT ![j] = upstream \ read]
    BY <1>5 DEF ListVersions
  <2>2. read = known
    BY <2>1 DEF InductiveInvariant, Coherent
  <2>3. TypeOK'
    BY <1>T, <2>1 DEF TypeOK, JobSteps
  <2>4. Serialised'
    BY <1>T, <2>1 DEF TypeOK, Serialised, Inside
  <2>5. Coherent(j)'
    BY <1>T, <2>1, <2>2 DEF InductiveInvariant, TypeOK, Coherent
  <2>6. \A i \in Jobs \ {j} : Coherent(i)'
    BY <1>T, <2>1 DEF InductiveInvariant, TypeOK, Coherent
  <2> QED BY <2>1, <2>3, <2>4, <2>5, <2>6 DEF InductiveInvariant
<1>6. ASSUME NEW j \in Jobs, NEW v \in Versions, Trigger(j, v) \/ TriggerRejected(j, v)
      PROVE  InductiveInvariant'
  <2>1. /\ UNCHANGED <<upstream, known, ahead, pc, knownRead, listed, settled>>
        /\ pc[j] = "trigger"
        /\ todo' = [todo EXCEPT ![j] = @ \ {v}]
        /\ requested' = requested \union {v}
    BY <1>6 DEF Trigger, TriggerRejected
  <2>2. faults' \in 0..MaxFaults /\ accepted' \in SUBSET requested'
    BY <1>T, <1>6, MaxFaultsAssumption DEF Trigger, TriggerRejected, TypeOK
  <2>3. TypeOK'
    BY <1>T, <2>1, <2>2 DEF TypeOK
  <2>4. Serialised'
    BY <1>T, <2>1 DEF Serialised, Inside
  <2>5. Coherent(j)'
    BY <1>T, <2>1 DEF InductiveInvariant, TypeOK, Coherent
  <2>6. \A i \in Jobs \ {j} : Coherent(i)'
    BY <1>T, <2>1 DEF InductiveInvariant, TypeOK, Coherent
  <2> QED BY <2>1, <2>3, <2>4, <2>5, <2>6 DEF InductiveInvariant
<1>7. ASSUME NEW j \in Jobs, LoopDone(j)
      PROVE  InductiveInvariant'
  <2>1. /\ UNCHANGED <<upstream, known, ahead, knownRead, listed, todo, faults,
                       requested, accepted, settled>>
        /\ pc[j] = "trigger" /\ todo[j] = {}
        /\ pc' = [pc EXCEPT ![j] = "update"]
    BY <1>7 DEF LoopDone
  <2>2. TypeOK'
    BY <1>T, <2>1 DEF TypeOK, JobSteps
  <2>3. Serialised'
    BY <1>T, <2>1 DEF TypeOK, Serialised, Inside
  <2>4. \A i \in Jobs : Coherent(i)'
    BY <1>T, <2>1 DEF InductiveInvariant, TypeOK, Coherent
  <2> QED BY <2>1, <2>2, <2>3, <2>4 DEF InductiveInvariant
<1>8. ASSUME NEW j \in Jobs, UpdateKnown(j)
      PROVE  InductiveInvariant'
  <2>1. /\ UNCHANGED <<upstream, faults, requested, accepted>>
        /\ pc[j] = "update" /\ Leave(j)
        /\ known' = listed[j]
        /\ settled' = (settled \union listed[j]) \intersect upstream
    BY <1>8 DEF UpdateKnown
  <2>2. TypeOK' /\ Serialised'
    BY <1>T, <2>1, LeaveJob DEF TypeOK
  <2>3. listed[j] \subseteq requested /\ settled \subseteq listed[j]
    BY <2>1 DEF InductiveInvariant, Coherent
  <2>4. \A i \in Jobs \ {j} : ~Inside(i)
    BY <1>T, <2>1, OneInside DEF Inside
  <2>5. Coherent(j)'
    BY <1>T, <2>1, LeaveJob DEF Coherent
  <2>6. ASSUME NEW i \in Jobs \ {j}
        PROVE  Coherent(i)'
    <3>1. pc[i] \in {"idle", "turnstyle"}
      BY <1>T, <2>4 DEF TypeOK, JobSteps, Inside
    <3>2. /\ pc'[i] = pc[i] /\ knownRead'[i] = knownRead[i]
          /\ todo'[i] = todo[i]
      BY <1>T, <2>1, LeaveJob
    <3> QED BY <3>1, <3>2 DEF InductiveInvariant, Coherent
  <2> QED BY <2>1, <2>2, <2>3, <2>5, <2>6 DEF InductiveInvariant
<1>9. ASSUME NEW j \in Jobs,
             \/ Abandon(j)
             \/ Fail(j)
             \/ \E v \in Versions : TriggerBroken(j, v)
      PROVE  InductiveInvariant'
  <2>1. UNCHANGED <<upstream, known, settled>> /\ Leave(j)
    BY <1>9 DEF Abandon, Fail, TriggerBroken
  <2>2. /\ faults' \in 0..MaxFaults
        /\ requested \subseteq requested' /\ requested' \in SUBSET Versions
        /\ accepted' \in SUBSET requested'
    BY <1>T, <1>9, MaxFaultsAssumption DEF Abandon, Fail, TriggerBroken, TypeOK
  <2>3. TypeOK' /\ Serialised'
    BY <1>T, <2>1, <2>2, LeaveJob DEF TypeOK
  <2>4. Coherent(j)'
    BY <1>T, <2>1, LeaveJob DEF Coherent
  <2>5. ASSUME NEW i \in Jobs \ {j}
        PROVE  Coherent(i)'
    <3>1. /\ pc'[i] = pc[i] /\ knownRead'[i] = knownRead[i]
          /\ listed'[i] = listed[i] /\ todo'[i] = todo[i]
      BY <1>T, <2>1, LeaveJob
    <3> QED BY <2>1, <2>2, <3>1 DEF InductiveInvariant, Coherent
  <2> QED BY <2>1, <2>2, <2>3, <2>4, <2>5 DEF InductiveInvariant
<1>10. CASE UNCHANGED vars
  BY <1>10 DEF vars, InductiveInvariant, TypeOK, Serialised, Inside, Coherent
<1> QED
  BY <1>1, <1>2, <1>3, <1>4, <1>5, <1>6, <1>7, <1>8, <1>9, <1>10
     DEF Next, Progress, Fault

(* The inductive invariant holds in every reachable state.                 *)
THEOREM InvariantHolds == Spec => []InductiveInvariant
BY InitInvariant, NextInvariant, PTL DEF Spec

(* Type correctness, for any number of jobs.                               *)
THEOREM TypeCorrect == Spec => []TypeOK
<1>1. InductiveInvariant => TypeOK
  BY DEF InductiveInvariant
<1> QED BY <1>1, InvariantHolds, PTL

(* A version that stays available upstream is never forgotten.             *)
THEOREM SettledVersionsStayKnown == Spec => []SettledStaysKnown
<1>1. InductiveInvariant => SettledStaysKnown
  BY DEF InductiveInvariant, SettledStaysKnown
<1> QED BY <1>1, InvariantHolds, PTL

(* No job is about to repeat the request of a settled version.             *)
THEOREM RequestsAreNotRepeated == Spec => []NoRepeatedRequest
<1>1. InductiveInvariant => NoRepeatedRequest
  <2> SUFFICES ASSUME InductiveInvariant, NEW j \in Jobs
               PROVE  todo[j] \intersect settled = {}
    BY DEF NoRepeatedRequest
  <2>1. settled \subseteq known /\ Coherent(j)
    BY DEF InductiveInvariant
  <2> QED BY <2>1 DEF Coherent
<1> QED BY <1>1, InvariantHolds, PTL

(* The jobs, however they fail, implement the abstract watch.              *)
THEOREM JobsImplementWatch == Spec => ImplementsWatch
<1>1. Init => Watch!Init
  BY DEF Init, Watch!Init
<1>2. InductiveInvariant /\ [Next]_vars => [Watch!Next]_(Watch!vars)
  <2> SUFFICES ASSUME InductiveInvariant, [Next]_vars
               PROVE  Watch!Next \/ UNCHANGED <<upstream, known, requested>>
    BY DEF Watch!vars
  <2>1. ASSUME NEW v \in Versions, Release(v) \/ Withdraw(v)
        PROVE  Watch!Next
    BY <2>1 DEF Release, Withdraw, Watch!Release, Watch!Withdraw, Watch!Next
  <2>2. ASSUME NEW j \in Jobs, NEW v \in Versions,
               Trigger(j, v) \/ TriggerRejected(j, v) \/ TriggerBroken(j, v)
        PROVE  Watch!Next
    <3>1. v \notin known
      BY <2>2 DEF InductiveInvariant, Coherent, Trigger, TriggerRejected, TriggerBroken
    <3>2. Watch!Request(v)
      BY <2>2, <3>1 DEF Trigger, TriggerRejected, TriggerBroken, Watch!Request
    <3> QED BY <3>2 DEF Watch!Next
  <2>3. ASSUME NEW j \in Jobs, UpdateKnown(j)
        PROVE  Watch!Next
    <3>1. listed[j] \subseteq requested /\ listed[j] \in SUBSET Versions
      BY <2>3 DEF InductiveInvariant, TypeOK, Coherent, UpdateKnown
    <3>2. Watch!Learn(listed[j])
      BY <2>3, <3>1 DEF UpdateKnown, Watch!Learn
    <3> QED BY <3>1, <3>2 DEF Watch!Next
  <2>4. ASSUME NEW j \in Jobs,
               \/ Create(j) \/ Turnstyle(j) \/ ReadKnown(j) \/ ReadNothing(j)
               \/ ListVersions(j) \/ Abandon(j) \/ LoopDone(j) \/ Fail(j)
        PROVE  UNCHANGED <<upstream, known, requested>>
    BY <2>4 DEF Create, Turnstyle, ReadKnown, ReadNothing, ListVersions, Abandon,
                LoopDone, Fail
  <2>5. CASE UNCHANGED vars
    BY <2>5 DEF vars
  <2> QED BY <2>1, <2>2, <2>3, <2>4, <2>5 DEF Next, Progress, Fault
<1> QED
  BY <1>1, <1>2, InvariantHolds, PTL DEF Spec, ImplementsWatch, Watch!Spec

=============================================================================
