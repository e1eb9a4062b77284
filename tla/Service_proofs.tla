--------------------------- MODULE Service_proofs ---------------------------
(* Proofs about UploadMetadata and about Service, for any runs, versions,  *)
(* requests and sizes of the object: first what the runs keep in the list  *)
(* they publish (the theorems about Spec), then that it reaches clients    *)
(* (those about ServiceSpec).                                              *)
EXTENDS Service, TLAPS

-----------------------------------------------------------------------------
(* UploadMetadata.                                                         *)

(* The entry a run computes is an entry, and keeps the created_at of the   *)
(* entry of the same version when the list has one.                        *)
LEMMA CreatedAtOfEntry ==
  ASSUME NEW list \in SUBSET Entry, NEW v \in Versions, NEW t \in Nat
  PROVE  /\ CreatedAt(list, v, t) \in Nat
         /\ Unique(list) => \A e \in list :
              e.version = v => CreatedAt(list, v, t) = e.created_at
<1> DEFINE E == EntriesOf(list, v)
<1>1. E \subseteq list
  BY DEF EntriesOf
<1>2. CASE E = {}
  <2>1. CreatedAt(list, v, t) = t
    BY <1>2 DEF CreatedAt
  <2>2. \A e \in list : e.version # v
    BY <1>2 DEF EntriesOf
  <2> QED BY <2>1, <2>2
<1>3. CASE E # {}
  <2> DEFINE c == CHOOSE e \in E : TRUE
  <2>1. c \in E
    BY <1>3
  <2>2. CreatedAt(list, v, t) = c.created_at
    BY <1>3 DEF CreatedAt
  <2>3. c \in list /\ c.version = v
    BY <2>1 DEF EntriesOf
  <2>4. c.created_at \in Nat
    BY <2>3 DEF Entry
  <2>5. ASSUME Unique(list), NEW e \in list, e.version = v
        PROVE  c = e
    BY <2>3, <2>5 DEF Unique
  <2> QED BY <2>2, <2>4, <2>5
<1> QED BY <1>2, <1>3

(* What the jq program of the step guarantees about its output.            *)
LEMMA UpdatedList ==
  ASSUME NEW list \in SUBSET Entry, NEW v \in Versions, NEW t \in Nat,
         NEW r \in Runs
  PROVE  LET new == NewEntry(list, v, t, r) IN
         /\ new \in Entry
         /\ new.version = v /\ new.modified_at = t
         /\ new.created_at = CreatedAt(list, v, t)
         /\ new \in Updated(list, v, t, r)
         /\ Updated(list, v, t, r) \in SUBSET Entry
         /\ \A e \in Updated(list, v, t, r) : e = new \/ (e \in list /\ e.version # v)
         /\ \A e \in list : e.version # v => e \in Updated(list, v, t, r)
         /\ Unique(list) => Unique(Updated(list, v, t, r))
<1> DEFINE new == NewEntry(list, v, t, r)
           out == Updated(list, v, t, r)
<1>1. /\ new \in Entry
      /\ new.version = v /\ new.modified_at = t
      /\ new.created_at = CreatedAt(list, v, t)
  BY CreatedAtOfEntry DEF NewEntry, Entry
<1>2. /\ new \in out
      /\ out \in SUBSET Entry
      /\ \A e \in out : e = new \/ (e \in list /\ e.version # v)
      /\ \A e \in list : e.version # v => e \in out
  BY <1>1 DEF Updated, EntriesOf
<1>3. Unique(list) => Unique(out)
  BY <1>1, <1>2 DEF Unique
<1> HIDE DEF new, out
<1> QED BY <1>1, <1>2, <1>3 DEF new, out

(* The inductive invariant holds initially.                                *)
LEMMA InitInvariant == Init => InductiveInvariant
BY MaxClockAssumption, NoVersionAssumption
   DEF Init, InductiveInvariant, TypeOK, UniqueVersions, Unique, HeadIsNewest,
       PublishedAlone, Steps

(* What run r published is still kept by a list that a run q computes from *)
(* a list that kept it.                                                    *)
LEMMA UpdateKeeps ==
  ASSUME TypeOK, NEW r \in Runs, NEW q \in Runs,
         version[r] \in Versions, version[q] \in Versions,
         Unique(base[q]), Keeps(base[q], r),
         \A e \in base[q] : e.modified_at <= now[q]
  PROVE  Keeps(Updated(base[q], version[q], now[q], q), r)
<1> DEFINE new == NewEntry(base[q], version[q], now[q], q)
           out == Updated(base[q], version[q], now[q], q)
<1>1. base[q] \in SUBSET Entry /\ now[q] \in Nat /\ now[r] \in Nat
  BY DEF TypeOK
<1>2. /\ new \in Entry /\ new \in out
      /\ new.version = version[q] /\ new.modified_at = now[q]
      /\ new.created_at = CreatedAt(base[q], version[q], now[q])
      /\ \A e \in base[q] : e.version # version[q] => e \in out
  BY <1>1, UpdatedList
<1>3. PICK e \in base[q] :
        /\ e.version = version[r]
        /\ e.modified_at >= now[r]
        /\ e.created_at = CreatedAt(base[r], version[r], now[r])
  BY DEF Keeps
<1> HIDE DEF new, out
<1>4. CASE version[q] = version[r]
  <2>1. new.created_at = e.created_at
    BY <1>1, <1>2, <1>3, <1>4, CreatedAtOfEntry
  <2>2. e.modified_at \in Nat /\ e.modified_at <= now[q]
    BY <1>1 DEF Entry
  <2>3. new.modified_at >= now[r]
    BY <1>1, <1>2, <1>3, <2>2
  <2> QED BY <1>2, <1>3, <1>4, <2>1, <2>3 DEF Keeps, out
<1>5. CASE version[q] # version[r]
  BY <1>2, <1>3, <1>5 DEF Keeps, out
<1> QED BY <1>4, <1>5

(* The list a run computes keeps what the run itself publishes.            *)
LEMMA UpdateKeepsOwn ==
  ASSUME TypeOK, NEW r \in Runs, version[r] \in Versions
  PROVE  Keeps(Updated(base[r], version[r], now[r], r), r)
<1>1. base[r] \in SUBSET Entry /\ now[r] \in Nat
  BY DEF TypeOK
<1> DEFINE new == NewEntry(base[r], version[r], now[r], r)
           out == Updated(base[r], version[r], now[r], r)
<1>2. /\ new \in out
      /\ new.version = version[r] /\ new.modified_at = now[r]
      /\ new.created_at = CreatedAt(base[r], version[r], now[r])
  BY DEF NewEntry, Updated
<1> HIDE DEF new, out
<1>3. new.modified_at >= now[r]
  BY <1>1, <1>2
<1> QED BY <1>2, <1>3 DEF Keeps, out

(* Every step preserves the inductive invariant.                           *)
LEMMA NextInvariant == InductiveInvariant /\ [Next]_vars => InductiveInvariant'
<1> SUFFICES ASSUME InductiveInvariant, [Next]_vars
             PROVE  InductiveInvariant'
  OBVIOUS
<1>T. TypeOK
  BY DEF InductiveInvariant
<1>1. CASE Tick
  <2>1. /\ clock' \in Nat /\ clock <= clock'
        /\ UNCHANGED <<catalogue, pc, version, base, now, overlapped>>
    BY <1>T, <1>1, MaxClockAssumption DEF Tick, TypeOK
  <2>2. TypeOK' /\ UniqueVersions' /\ HeadIsNewest'
    BY <1>T, <2>1 DEF InductiveInvariant, TypeOK, UniqueVersions, HeadIsNewest
  <2>3. \A e \in Entry : e.modified_at \in Nat
    BY DEF Entry
  <2>4. /\ \A r \in Runs : now[r] <= clock' /\ \A e \in base[r] : e.modified_at <= clock'
        /\ \A e \in catalogue : e.modified_at <= clock'
    BY <1>T, <2>1, <2>3 DEF InductiveInvariant, TypeOK
  <2>5. PublishedAlone' = PublishedAlone /\ Holding' = Holding
    BY <2>1 DEF PublishedAlone, Holding
  <2>6. \A list : \A r \in Runs : Keeps(list, r)' <=> Keeps(list, r)
    BY <2>1 DEF Keeps
  <2> QED
    BY <2>1, <2>2, <2>4, <2>5, <2>6 DEF InductiveInvariant, Keeps
<1>2. ASSUME NEW r \in Runs, NEW v \in Versions, Start(r, v)
      PROVE  InductiveInvariant'
  <2>1. /\ UNCHANGED <<clock, catalogue, base, now, overlapped>>
        /\ version' = [version EXCEPT ![r] = v]
        /\ pc' = [pc EXCEPT ![r] = "download"] /\ pc[r] = "idle"
    BY <1>2 DEF Start
  <2>2. TypeOK'
    BY <1>T, <2>1 DEF TypeOK, Steps
  <2>3. \A q \in Runs : q # r => pc'[q] = pc[q] /\ version'[q] = version[q]
    BY <1>T, <2>1 DEF TypeOK
  <2>4. pc'[r] = "download" /\ version'[r] = v
    BY <1>T, <2>1 DEF TypeOK
  <2>5. PublishedAlone' = PublishedAlone /\ Holding' = Holding
    BY <2>1, <2>3, <2>4 DEF PublishedAlone, Holding
  <2>6. \A q \in PublishedAlone : q \in Runs /\ q # r
    BY <2>1 DEF PublishedAlone
  <2>7. UniqueVersions' /\ HeadIsNewest'
    BY <2>1, <2>3, <2>4 DEF InductiveInvariant, UniqueVersions, HeadIsNewest
  <2>8. \A q \in Runs : pc'[q] # "idle" => version'[q] \in Versions
    BY <2>3, <2>4 DEF InductiveInvariant
  <2>9. \A q \in PublishedAlone' :
          /\ Keeps(catalogue, q)'
          /\ \A p \in Holding' : Keeps(base[p], q)'
    BY <2>1, <2>3, <2>5, <2>6 DEF InductiveInvariant, Keeps
  <2> QED
    BY <2>1, <2>2, <2>7, <2>8, <2>9 DEF InductiveInvariant
<1>3. ASSUME NEW r \in Runs, Download(r)
      PROVE  InductiveInvariant'
  <2>1. /\ UNCHANGED <<clock, catalogue, version, now, overlapped>>
        /\ base' = [base EXCEPT ![r] = catalogue]
        /\ pc' = [pc EXCEPT ![r] = "stamp"] /\ pc[r] = "download"
    BY <1>3 DEF Download
  <2>2. TypeOK'
    BY <1>T, <2>1 DEF TypeOK, Steps
  <2>3. \A q \in Runs : q # r => pc'[q] = pc[q] /\ base'[q] = base[q]
    BY <1>T, <2>1 DEF TypeOK
  <2>4. pc'[r] = "stamp" /\ base'[r] = catalogue
    BY <1>T, <2>1 DEF TypeOK
  <2>5. PublishedAlone' = PublishedAlone /\ Holding' = Holding \union {r}
    BY <2>1, <2>3, <2>4 DEF PublishedAlone, Holding
  <2>6. \A q \in PublishedAlone : q \in Runs /\ q # r
    BY <2>1 DEF PublishedAlone
  <2>7. UniqueVersions' /\ HeadIsNewest'
    BY <2>1, <2>3, <2>4 DEF InductiveInvariant, UniqueVersions, HeadIsNewest
  <2>8. \A q \in Runs :
          /\ pc'[q] # "idle" => version'[q] \in Versions
          /\ Unique(base'[q])
          /\ now'[q] <= clock'
          /\ \A e \in base'[q] : e.modified_at <= clock'
    BY <2>1, <2>3, <2>4 DEF InductiveInvariant, UniqueVersions
  <2>9. \A q \in PublishedAlone' :
           /\ Keeps(catalogue, q)'
           /\ \A p \in Holding' : Keeps(base[p], q)'
    BY <2>1, <2>3, <2>4, <2>5, <2>6 DEF InductiveInvariant, Keeps, Holding
  <2> QED
    BY <2>1, <2>2, <2>7, <2>8, <2>9 DEF InductiveInvariant, Unique
<1>4. ASSUME NEW r \in Runs, Stamp(r)
      PROVE  InductiveInvariant'
  <2>1. /\ UNCHANGED <<clock, catalogue, version, base, overlapped>>
        /\ now' = [now EXCEPT ![r] = clock]
        /\ pc' = [pc EXCEPT ![r] = "upload"] /\ pc[r] = "stamp"
    BY <1>4 DEF Stamp
  <2>2. TypeOK'
    BY <1>T, <2>1 DEF TypeOK, Steps
  <2>3. \A q \in Runs : q # r => pc'[q] = pc[q] /\ now'[q] = now[q]
    BY <1>T, <2>1 DEF TypeOK
  <2>4. pc'[r] = "upload" /\ now'[r] = clock
    BY <1>T, <2>1 DEF TypeOK
  <2>5. PublishedAlone' = PublishedAlone /\ Holding' = Holding
    BY <2>1, <2>3, <2>4 DEF PublishedAlone, Holding
  <2>6. \A q \in PublishedAlone : q \in Runs /\ q # r
    BY <2>1 DEF PublishedAlone
  <2>7. UniqueVersions' /\ HeadIsNewest'
    BY <2>1, <2>3, <2>4 DEF InductiveInvariant, UniqueVersions, HeadIsNewest
  <2>8. \A q \in Runs :
          /\ pc'[q] # "idle" => version'[q] \in Versions
          /\ now'[q] <= clock'
    BY <1>T, <2>1, <2>3, <2>4 DEF InductiveInvariant, TypeOK
  <2>9. \A q \in PublishedAlone' :
          /\ Keeps(catalogue, q)'
          /\ \A p \in Holding' : Keeps(base[p], q)'
    BY <2>1, <2>3, <2>5, <2>6 DEF InductiveInvariant, Keeps
  <2> QED
    BY <2>1, <2>2, <2>7, <2>8, <2>9 DEF InductiveInvariant
<1>5. ASSUME NEW r \in Runs, Upload(r)
      PROVE  InductiveInvariant'
  <2> DEFINE out == Updated(base[r], version[r], now[r], r)
  <2>1. /\ UNCHANGED <<clock, version, base, now>>
        /\ catalogue' = out
        /\ overlapped' = [overlapped EXCEPT ![r] = Holding \ {r}]
        /\ pc[r] = "upload"
    BY <1>5 DEF Upload
  <2>2. PICK outcome \in {"done", "failed"} : pc' = [pc EXCEPT ![r] = outcome]
    BY <1>5 DEF Upload
  <2>3. \A q \in Runs : q # r => pc'[q] = pc[q] /\ overlapped'[q] = overlapped[q]
    BY <1>T, <2>1, <2>2 DEF TypeOK
  <2>4. pc'[r] = outcome /\ overlapped'[r] = Holding \ {r}
    BY <1>T, <2>1, <2>2 DEF TypeOK
  <2>5. r \in Holding /\ Holding' = Holding \ {r}
    BY <2>1, <2>2, <2>3, <2>4 DEF Holding
  <2>6. PublishedAlone' \subseteq PublishedAlone \union {r}
    BY <2>3 DEF PublishedAlone
  <2>7. r \in PublishedAlone' => Holding' = {}
    BY <2>4, <2>5 DEF PublishedAlone
  <2>8. base[r] \in SUBSET Entry /\ version[r] \in Versions /\ now[r] \in Nat
    BY <1>T, <2>1 DEF InductiveInvariant, TypeOK
  <2>9. /\ out \in SUBSET Entry
        /\ Unique(out)
        /\ \A e \in out : e.modified_at = now[r] \/ e \in base[r]
    BY <2>8, UpdatedList DEF InductiveInvariant
  <2> HIDE DEF out
  <2>10. TypeOK'
    <3>1. pc' \in [Runs -> Steps]
      BY <1>T, <2>2 DEF TypeOK, Steps
    <3>2. overlapped' \in [Runs -> SUBSET Runs]
      BY <1>T, <2>1 DEF TypeOK, Holding
    <3> QED BY <1>T, <2>1, <2>9, <3>1, <3>2 DEF TypeOK
  <2>11. UniqueVersions' /\ HeadIsNewest'
    BY <2>1, <2>2, <2>3, <2>4, <2>9
       DEF InductiveInvariant, UniqueVersions, Unique, HeadIsNewest
  <2>12. \A q \in Runs : pc'[q] # "idle" => version'[q] \in Versions
    BY <2>1, <2>3, <2>8 DEF InductiveInvariant
  <2>13. \A e \in catalogue' : e.modified_at <= clock'
    BY <2>1, <2>9 DEF InductiveInvariant
  <2>14. \A q \in PublishedAlone' :
           /\ Keeps(catalogue, q)'
           /\ \A p \in Holding' : Keeps(base[p], q)'
    <3> SUFFICES ASSUME NEW q \in PublishedAlone'
                 PROVE  /\ Keeps(catalogue, q)'
                        /\ \A p \in Holding' : Keeps(base[p], q)'
      OBVIOUS
    <3>1. q \in Runs
      BY DEF PublishedAlone
    <3>2. \A list : Keeps(list, q)' <=> Keeps(list, q)
      BY <2>1 DEF Keeps
    <3>3. CASE q = r
      <4>1. Keeps(out, r)
        BY <1>T, <2>8, UpdateKeepsOwn DEF out
      <4> QED BY <2>1, <2>7, <3>3, <4>1 DEF Keeps
    <3>4. CASE q # r
      <4>1. q \in PublishedAlone
        BY <2>6, <3>4
      <4>2. version[q] \in Versions
        BY <3>1, <4>1 DEF InductiveInvariant, PublishedAlone
      <4>3. Keeps(base[r], q)
        BY <2>5, <4>1 DEF InductiveInvariant
      <4>4. \A e \in base[r] : e.modified_at <= now[r]
        BY <2>1 DEF InductiveInvariant, HeadIsNewest
      <4>5. Keeps(out, q)
        BY <1>T, <2>8, <3>1, <4>2, <4>3, <4>4, UpdateKeeps DEF InductiveInvariant, out
      <4>6. \A p \in Holding' : Keeps(base[p], q)
        BY <2>5, <4>1 DEF InductiveInvariant
      <4> QED BY <2>1, <4>5, <4>6 DEF Keeps
    <3> QED BY <3>3, <3>4
  <2> QED
    BY <2>1, <2>10, <2>11, <2>12, <2>13, <2>14 DEF InductiveInvariant, Unique
<1>6. ASSUME NEW r \in Runs, Fail(r)
      PROVE  InductiveInvariant'
  <2>1. /\ UNCHANGED <<clock, catalogue, version, base, now, overlapped>>
        /\ pc' = [pc EXCEPT ![r] = "failed"] /\ r \in Active
    BY <1>6 DEF Fail
  <2>2. TypeOK'
    BY <1>T, <2>1 DEF TypeOK, Steps
  <2>3. \A q \in Runs : q # r => pc'[q] = pc[q]
    BY <1>T, <2>1 DEF TypeOK
  <2>4. pc'[r] = "failed" /\ pc[r] # "idle" /\ pc[r] # "done"
    BY <1>T, <2>1 DEF TypeOK, Active
  <2>5. PublishedAlone' = PublishedAlone /\ Holding' \subseteq Holding
    BY <2>1, <2>3, <2>4 DEF PublishedAlone, Holding
  <2>6. UniqueVersions' /\ HeadIsNewest'
    BY <2>1, <2>3, <2>4 DEF InductiveInvariant, UniqueVersions, HeadIsNewest
  <2>7. \A q \in Runs : pc'[q] # "idle" => version'[q] \in Versions
    BY <2>1, <2>3, <2>4 DEF InductiveInvariant
  <2>8. \A q \in PublishedAlone' :
          /\ Keeps(catalogue, q)'
          /\ \A p \in Holding' : Keeps(base[p], q)'
    BY <2>1, <2>5 DEF InductiveInvariant, Keeps
  <2> QED
    BY <2>1, <2>2, <2>6, <2>7, <2>8 DEF InductiveInvariant
<1>7. CASE UNCHANGED vars
  BY <1>7 DEF vars, InductiveInvariant, TypeOK, UniqueVersions, HeadIsNewest,
              PublishedAlone, Holding, Keeps
<1> QED BY <1>1, <1>2, <1>3, <1>4, <1>5, <1>6, <1>7 DEF Next

(* The inductive invariant holds in every reachable state.                 *)
THEOREM InvariantHolds == Spec => []InductiveInvariant
BY InitInvariant, NextInvariant, PTL DEF Spec

(* Type correctness, for any number of runs.                               *)
THEOREM TypeCorrect == Spec => []TypeOK
<1>1. InductiveInvariant => TypeOK
  BY DEF InductiveInvariant
<1> QED BY <1>1, InvariantHolds, PTL

(* However the runs interleave, the published list has one entry a version. *)
THEOREM VersionsStayUnique == Spec => []UniqueVersions
<1>1. InductiveInvariant => UniqueVersions
  BY DEF InductiveInvariant
<1> QED BY <1>1, InvariantHolds, PTL

(* However the runs interleave, a run never publishes an entry older than  *)
(* one it publishes after it in the list.                                  *)
THEOREM HeadStaysNewest == Spec => []HeadIsNewest
<1>1. InductiveInvariant => HeadIsNewest
  BY DEF InductiveInvariant
<1> QED BY <1>1, InvariantHolds, PTL

(* A successful upload that no other run overlapped is never lost.         *)
THEOREM SerialUploadsAreDurable == Spec => []LostOnlyByOverlap
<1>1. InductiveInvariant => LostOnlyByOverlap
  BY DEF InductiveInvariant, LostOnlyByOverlap, Keeps
<1> QED BY <1>1, InvariantHolds, PTL

(* Its created_at is never changed either.                                 *)
THEOREM SerialCreatedAtIsStable == Spec => []CreatedAtIsStable
<1>1. InductiveInvariant => CreatedAtIsStable
  BY DEF InductiveInvariant, CreatedAtIsStable, UniqueVersions, Unique, Keeps, EntriesOf
<1> QED BY <1>1, InvariantHolds, PTL

-----------------------------------------------------------------------------
(* Service.                                                                *)

(* The bucket's object and what its generations hold.                      *)
Stored ==
  /\ contents \in Seq(SUBSET Entry) /\ Len(contents) >= 1
  /\ bucket = [k \in {Key} |-> Len(contents)]
  /\ contents[Len(contents)] = catalogue
  /\ \A g \in 1 .. Len(contents) : Unique(contents[g])

Typed ==
  /\ handling \in [Requests -> Server!HandlerSteps]
  /\ name \in [Requests -> Spellings \union {NoName}]
  /\ generation \in [Requests -> Nat]
  /\ errorText \in [Requests -> BOOLEAN]
  /\ since \in [Requests -> [{Key} -> Nat]]
  /\ before \in [Requests -> SUBSET Runs]

(* Every generation since the request keeps what was published before it.  *)
Asked(q) == handling[q] # "idle" =>
  /\ before[q] \subseteq PublishedAlone
  /\ since[q][Key] \in 1 .. Len(contents)
  /\ \A g \in since[q][Key] .. Len(contents) :
       \A r \in before[q] : Keeps(contents[g], r)

(* The generation a handler reads is none that was replaced before the     *)
(* request.                                                                *)
Current(q) ==
  /\ handling[q] = "get" => name[q] \in Spellings
  /\ handling[q] = "copy" \/ (handling[q] = "answered" /\ ~errorText[q])
       => generation[q] \in since[q][Key] .. Len(contents)

(* Why ServedHoldsPublished is an invariant.                               *)
ServiceInvariant ==
  /\ InductiveInvariant
  /\ Stored
  /\ Typed
  /\ \A q \in Requests : Asked(q) /\ Current(q)

(* The runs only take the steps of UploadMetadata.                         *)
LEMMA UploadSteps == [ServiceNext]_serviceVars => [Next]_vars
BY DEF ServiceNext, serviceVars, OnRunner, Replace, Serve, Next

(* The bucket only changes by uploads, the handlers by requests.           *)
LEMMA ServerSteps == [ServiceNext]_serviceVars => [Server!Next]_(Server!vars)
<1> SUFFICES ASSUME ServiceNext PROVE Server!Next \/ UNCHANGED Server!vars
  BY DEF serviceVars, handlers, Server!vars
<1>1. CASE OnRunner
  BY <1>1 DEF OnRunner, handlers, Server!vars
<1>2. ASSUME NEW r \in Runs, Replace(r) PROVE Server!Next
  BY <1>2, ServiceKeyAssumption DEF Replace, Server!Next
<1>3. ASSUME NEW q \in Requests, Serve(q) PROVE Server!Next
  BY <1>3 DEF Serve, Server!Next
<1> QED BY <1>1, <1>2, <1>3 DEF ServiceNext

(* The service is both components at once: what is proved of either alone  *)
(* holds of it.                                                            *)
THEOREM ServiceIsBoth == ServiceSpec => Spec /\ Server!Spec
<1>1. ServiceInit => Init /\ Server!Init
  BY DEF ServiceInit
<1> QED BY <1>1, UploadSteps, ServerSteps, PTL DEF ServiceSpec, Spec, Server!Spec

(* The empty list that is there before the first run.                      *)
LEMMA ServiceInitInvariant == ServiceInit => ServiceInvariant
<1> SUFFICES ASSUME ServiceInit PROVE ServiceInvariant
  OBVIOUS
<1>1. InductiveInvariant
  BY InitInvariant DEF ServiceInit
<1>2. contents = <<{}>> /\ catalogue = {} /\ bucket = [k \in {Key} |-> 1]
  BY DEF ServiceInit, Init
<1>3. Stored
  BY <1>2 DEF Stored, Unique
<1>4. /\ handling = [q \in Requests |-> "idle"]
      /\ errorText = [q \in Requests |-> FALSE]
      /\ name = [q \in Requests |-> NoName]
      /\ generation = [q \in Requests |-> 0]
      /\ since = [q \in Requests |-> bucket]
      /\ before = [q \in Requests |-> {}]
  BY DEF ServiceInit, Server!Init
<1>5. Typed
  <2>1. since \in [Requests -> [{Key} -> Nat]]
    BY <1>2, <1>4
  <2>2. errorText \in [Requests -> BOOLEAN]
    BY <1>4, Zenon
  <2>3. /\ handling \in [Requests -> Server!HandlerSteps]
        /\ name \in [Requests -> Spellings \union {NoName}]
        /\ generation \in [Requests -> Nat] /\ before \in [Requests -> SUBSET Runs]
    BY <1>4 DEF Server!HandlerSteps
  <2> QED BY <2>1, <2>2, <2>3 DEF Typed
<1>6. \A q \in Requests : Asked(q) /\ Current(q)
  BY <1>4 DEF Asked, Current
<1> QED BY <1>1, <1>3, <1>5, <1>6 DEF ServiceInvariant

(* What a run published alone it has published for good: no step takes the *)
(* version, the date or the downloaded list from it.                       *)
LEMMA PublishedForGood ==
  ASSUME TypeOK, [Next]_vars
  PROVE  /\ PublishedAlone \subseteq PublishedAlone'
         /\ \A r \in PublishedAlone : version'[r] = version[r] /\ now'[r] = now[r]
                                      /\ base'[r] = base[r]
<1> SUFFICES ASSUME NEW r \in PublishedAlone
             PROVE  /\ r \in PublishedAlone'
                    /\ version'[r] = version[r] /\ now'[r] = now[r]
                    /\ base'[r] = base[r]
  OBVIOUS
<1>1. r \in Runs /\ pc[r] = "done" /\ overlapped[r] = {}
  BY DEF PublishedAlone
<1>2. CASE Tick \/ UNCHANGED vars
  BY <1>1, <1>2 DEF Tick, vars, PublishedAlone
<1>3. ASSUME NEW q \in Runs,
             (\E v \in Versions : Start(q, v)) \/ Download(q) \/ Stamp(q) \/ Upload(q) \/ Fail(q)
      PROVE  /\ r \in PublishedAlone'
             /\ version'[r] = version[r] /\ now'[r] = now[r] /\ base'[r] = base[r]
  <2>1. q # r
    BY <1>1, <1>3 DEF Start, Download, Stamp, Upload, Fail, Active
  <2>2. /\ pc'[r] = pc[r] /\ overlapped'[r] = overlapped[r]
        /\ version'[r] = version[r] /\ now'[r] = now[r] /\ base'[r] = base[r]
    BY <1>1, <1>3, <2>1 DEF Start, Download, Stamp, Upload, Fail, TypeOK
  <2> QED BY <1>1, <2>2 DEF PublishedAlone
<1> QED BY <1>2, <1>3 DEF Next

(* So a list that keeps it goes on keeping it.                             *)
LEMMA KeptForGood ==
  ASSUME TypeOK, [Next]_vars, NEW r \in PublishedAlone, NEW list, Keeps(list, r)
  PROVE  /\ \E e \in list : /\ e.version = version'[r]
                            /\ e.modified_at >= now'[r]
                            /\ e.created_at = CreatedAt(base'[r], version'[r], now'[r])
BY PublishedForGood DEF Keeps

(* A step of the runs takes nothing from a request: the generations there  *)
(* were keep what they kept, and a new one holds the catalogue.            *)
LEMMA AskedStays ==
  ASSUME ServiceInvariant, [Next]_vars, InductiveInvariant', NEW q \in Requests,
         handling'[q] # "idle" => handling[q] # "idle",
         since'[q] = since[q], before'[q] = before[q],
         \/ contents' = contents
         \/ contents' = Append(contents, catalogue')
  PROVE  Asked(q)'
<1> SUFFICES ASSUME handling[q] # "idle"
             PROVE  /\ before[q] \subseteq PublishedAlone'
                    /\ since[q][Key] \in 1 .. Len(contents')
                    /\ \A g \in since[q][Key] .. Len(contents') :
                         \A r \in before[q] : Keeps(contents[g], r)'
  BY DEF Asked
<1>1. /\ TypeOK /\ contents \in Seq(SUBSET Entry)
      /\ catalogue' \in SUBSET Entry
  BY DEF ServiceInvariant, InductiveInvariant, TypeOK, Stored
<1>2. /\ before[q] \subseteq PublishedAlone
      /\ since[q][Key] \in 1 .. Len(contents)
      /\ \A g \in since[q][Key] .. Len(contents) :
           \A r \in before[q] : Keeps(contents[g], r)
  BY DEF ServiceInvariant, Asked
<1>3. before[q] \subseteq PublishedAlone'
  BY <1>1, <1>2, PublishedForGood
<1>4. /\ Len(contents') \in {Len(contents), Len(contents) + 1}
      /\ \A g \in 1 .. Len(contents) : contents'[g] = contents[g]
      /\ Len(contents') = Len(contents) + 1 => contents'[Len(contents')] = catalogue'
  BY <1>1
<1>5. ASSUME NEW g \in since[q][Key] .. Len(contents'), NEW r \in before[q]
      PROVE  Keeps(contents[g], r)'
  <2>1. CASE g \in 1 .. Len(contents)
    <3>1. Keeps(contents[g], r) /\ contents'[g] = contents[g]
      BY <1>2, <1>4, <1>5, <2>1
    <3> QED BY <1>1, <1>2, <3>1, KeptForGood DEF Keeps
  <2>2. CASE g \notin 1 .. Len(contents)
    <3>1. g = Len(contents') /\ contents'[g] = catalogue'
      BY <1>1, <1>2, <1>4, <2>2
    <3>2. Keeps(catalogue, r)'
      BY <1>3 DEF InductiveInvariant
    <3> QED BY <3>1, <3>2 DEF Keeps
  <2> QED BY <2>1, <2>2
<1> QED BY <1>1, <1>2, <1>3, <1>4, <1>5

(* Every step of the runs, of the bucket and of the handlers preserves the *)
(* invariant.                                                              *)
LEMMA ServiceNextInvariant ==
  ServiceInvariant /\ [ServiceNext]_serviceVars => ServiceInvariant'
<1> SUFFICES ASSUME ServiceInvariant, [ServiceNext]_serviceVars
             PROVE  ServiceInvariant'
  OBVIOUS
<1>1. InductiveInvariant /\ [Next]_vars /\ InductiveInvariant'
  BY UploadSteps, NextInvariant DEF ServiceInvariant
<1>2. /\ TypeOK /\ catalogue' \in SUBSET Entry /\ Unique(catalogue')
      /\ Stored /\ Typed
      /\ \A q \in Requests : Asked(q) /\ Current(q)
  BY <1>1 DEF ServiceInvariant, InductiveInvariant, TypeOK, UniqueVersions
<1>3. CASE OnRunner \/ UNCHANGED serviceVars
  <2>1. UNCHANGED <<catalogue, bucket, handlers, contents, before>>
    BY <1>3 DEF OnRunner, serviceVars, vars, Tick, Start, Download, Stamp, Fail
  <2>2. Stored' /\ Typed'
    BY <1>2, <2>1 DEF Stored, Typed, handlers
  <2>3. \A q \in Requests : Asked(q)' /\ Current(q)'
    BY <1>1, <1>2, <2>1, AskedStays DEF handlers, Current
  <2> QED BY <1>1, <2>2, <2>3 DEF ServiceInvariant
<1>4. ASSUME NEW r \in Runs, Replace(r) PROVE ServiceInvariant'
  <2>1. /\ contents' = Append(contents, catalogue')
        /\ bucket' = [bucket EXCEPT ![Key] = @ + 1]
        /\ UNCHANGED <<handlers, before>>
    BY <1>4, ServiceKeyAssumption
       DEF Replace, Server!Publish, Server!handlerVars, handlers
  <2>2. /\ Len(contents') = Len(contents) + 1 /\ contents' \in Seq(SUBSET Entry)
        /\ contents'[Len(contents')] = catalogue'
        /\ \A g \in 1 .. Len(contents) : contents'[g] = contents[g]
    BY <1>2, <2>1 DEF Stored
  <2>3. Stored'
    <3>1. bucket' = [k \in {Key} |-> Len(contents')]
      BY <1>2, <2>1, <2>2 DEF Stored
    <3>2. \A g \in 1 .. Len(contents') : Unique(contents'[g])
      <4>1. Len(contents) \in Nat
        BY <1>2 DEF Stored
      <4>2. \A g \in 1 .. Len(contents') : g \in 1 .. Len(contents) \/ g = Len(contents')
        BY <2>2, <4>1
      <4> QED BY <1>2, <2>2, <4>2 DEF Stored
    <3>3. Len(contents') >= 1
      BY <1>2, <2>2 DEF Stored
    <3> QED BY <2>2, <3>1, <3>2, <3>3 DEF Stored, Unique
  <2>4. Typed'
    BY <1>2, <2>1 DEF Typed, handlers
  <2>5. \A q \in Requests : Asked(q)' /\ Current(q)'
    <3>1. \A q \in Requests : Asked(q)'
      BY <1>1, <2>1, AskedStays DEF handlers
    <3>2. \A q \in Requests : Current(q)'
      BY <1>2, <2>1, <2>2 DEF handlers, Current, Stored, Typed
    <3> QED BY <3>1, <3>2
  <2> QED BY <1>1, <2>3, <2>4, <2>5 DEF ServiceInvariant
<1>5. ASSUME NEW q \in Requests, Serve(q) PROVE ServiceInvariant'
  <2> DEFINE Kept(i) == /\ name'[i] = name[i] /\ since'[i] = since[i]
                        /\ before'[i] = before[i]
             Same(i) == /\ handling'[i] = handling[i] /\ Kept(i)
                        /\ generation'[i] = generation[i]
                        /\ errorText'[i] = errorText[i]
  <2>1. UNCHANGED <<vars, bucket, contents>>
    BY <1>5 DEF Serve, Server!Handle, Server!Receive, Server!CheckRequest,
                Server!GetObject, Server!GetFails, Server!CopyChunk,
                Server!CopyFails, Server!ClientGone, Server!Finish
  <2>2. Stored' /\ PublishedAlone' = PublishedAlone
    BY <1>2, <2>1 DEF Stored, vars, PublishedAlone
  <2>3. CASE /\ handling[q] = "idle"
             /\ \E m \in Server!Methods, n \in Spellings \union {NoName} :
                  Server!Receive(q, m, n)
    <3>1. /\ Typed'
          /\ \A i \in Requests \ {q} : Same(i)
          /\ handling'[q] = "check" /\ since'[q] = bucket /\ before'[q] = PublishedAlone
      BY <1>2, <1>5, <2>2, <2>3
         DEF Serve, Server!Receive, Typed, Server!HandlerSteps, PublishedAlone, Stored
    <3>2. /\ since'[q][Key] = Len(contents) /\ Len(contents) \in Nat \ {0}
          /\ contents[Len(contents)] = catalogue
      BY <1>2, <3>1 DEF Stored
    <3>3. \A r \in PublishedAlone : Keeps(catalogue, r)'
      BY <1>1, <2>2 DEF InductiveInvariant
    <3>4. Asked(q)' /\ Current(q)'
      BY <2>1, <2>2, <3>1, <3>2, <3>3 DEF Asked, Current, Keeps, vars
    <3>5. \A i \in Requests \ {q} : Asked(i)' /\ Current(i)'
      BY <1>1, <1>2, <2>1, <3>1, AskedStays DEF Current
    <3> QED BY <1>1, <2>2, <3>1, <3>4, <3>5 DEF ServiceInvariant
  <2>4. CASE handling[q] # "idle"
    <3>1. /\ Typed'
          /\ \A i \in Requests \ {q} : Same(i)
          /\ Kept(q) /\ handling'[q] # "idle"
          /\ Current(q)'
      <4> DEFINE Step == /\ Typed'
                         /\ \A i \in Requests \ {q} : Same(i)
                         /\ Kept(q) /\ handling'[q] # "idle"
                         /\ Current(q)'
      <4>1. before' = before
        BY <1>5, <2>4 DEF Serve
      <4>2. ASSUME NEW code \in {400, 405, 500}, Server!HandlerError(q, code),
                   UNCHANGED <<name, generation, since>>
            PROVE  Step
        <5>1. Typed'
          BY <1>2, <4>1, <4>2 DEF Server!HandlerError, Server!HandlerSteps, Typed
        <5>2. /\ \A i \in Requests \ {q} : Same(i)
              /\ Kept(q) /\ handling'[q] = "answered" /\ errorText'[q]
          BY <1>2, <4>1, <4>2 DEF Server!HandlerError, Typed
        <5> QED BY <5>1, <5>2 DEF Current
      <4>3. CASE Server!CheckRequest(q)
        <5>1. CASE \E code \in {400, 405} : Server!HandlerError(q, code)
          BY <4>2, <4>3, <5>1 DEF Server!CheckRequest
        <5>2. CASE /\ name[q] # NoName /\ handling' = [handling EXCEPT ![q] = "get"]
                   /\ UNCHANGED errorText
          BY <1>2, <2>1, <4>1, <4>3, <5>2
             DEF Server!CheckRequest, Server!HandlerSteps, Typed, Current
        <5> QED BY <4>3, <5>1, <5>2 DEF Server!CheckRequest
      <4>4. CASE Server!GetObject(q)
        <5>1. handling[q] = "get" /\ Server!MetadataKey(name[q]) = Key
          BY <1>2, <4>4 DEF Server!GetObject, Server!MetadataKey, Current
        <5>2. CASE Server!HandlerError(q, 500) /\ UNCHANGED generation
          BY <4>2, <4>4, <5>2 DEF Server!GetObject
        <5>3. CASE /\ generation' = [generation EXCEPT ![q] = bucket[Key]]
                   /\ handling' = [handling EXCEPT ![q] = "copy"]
                   /\ UNCHANGED errorText
          <6>1. bucket[Key] = Len(contents) /\ Len(contents) \in Nat
                /\ since[q][Key] \in 1 .. Len(contents)
            BY <1>2, <2>4 DEF Stored, Asked
          <6>2. Typed'
            BY <1>2, <4>1, <4>4, <5>3, <6>1
               DEF Server!GetObject, Server!HandlerSteps, Typed
          <6>3. /\ \A i \in Requests \ {q} : Same(i)
                /\ Kept(q) /\ handling'[q] = "copy"
                /\ generation'[q] = Len(contents)
            BY <1>2, <4>1, <4>4, <5>3, <6>1 DEF Server!GetObject, Typed
          <6> QED BY <2>1, <6>1, <6>2, <6>3 DEF Current
        <5> QED BY <4>4, <5>1, <5>2, <5>3 DEF Server!GetObject
      <4>5. CASE Server!GetFails(q) \/ Server!CopyFails(q)
        BY <4>2, <4>5 DEF Server!GetFails, Server!CopyFails
      <4>6. CASE Server!CopyChunk(q)
        BY <1>2, <2>1, <4>1, <4>6 DEF Server!CopyChunk, Typed, Current
      <4>7. CASE Server!ClientGone(q)
        BY <1>2, <2>1, <4>1, <4>7 DEF Server!ClientGone, Server!HandlerSteps, Typed, Current
      <4>8. CASE Server!Finish(q)
        BY <1>2, <2>1, <4>1, <4>8 DEF Server!Finish, Server!HandlerSteps, Typed, Current
      <4>9. \A m, n : ~Server!Receive(q, m, n)
        BY <2>4 DEF Server!Receive
      <4> QED BY <1>5, <4>3, <4>4, <4>5, <4>6, <4>7, <4>8, <4>9 DEF Serve, Server!Handle
    <3>2. \A i \in Requests : Asked(i)'
      BY <1>1, <2>1, <2>4, <3>1, AskedStays
    <3>3. \A i \in Requests : Current(i)'
      BY <1>2, <2>1, <3>1 DEF Current
    <3> QED BY <1>1, <2>2, <3>1, <3>2, <3>3 DEF ServiceInvariant
  <2>5. handling[q] = "idle" =>
          \E m \in Server!Methods, n \in Spellings \union {NoName} : Server!Receive(q, m, n)
    BY <1>5 DEF Serve, Server!Handle, Server!CheckRequest, Server!GetObject,
                Server!GetFails, Server!CopyChunk, Server!CopyFails,
                Server!ClientGone, Server!Finish
  <2> QED BY <2>3, <2>4, <2>5
<1> QED BY <1>3, <1>4, <1>5 DEF ServiceNext

(* The invariant holds in every reachable state.                           *)
THEOREM ServiceInvariantHolds == ServiceSpec => []ServiceInvariant
BY ServiceInitInvariant, ServiceNextInvariant, PTL DEF ServiceSpec

(* Whatever runs and requests interleave, a whole answer holds everything  *)
(* that was published alone before the client asked.                       *)
THEOREM ServedAnswersHoldPublished == ServiceSpec => []ServedHoldsPublished
<1>1. ASSUME ServiceInvariant, NEW q \in Requests, Answered(q)
      PROVE  /\ Unique(Served(q))
             /\ \A r \in before[q] : \E e \in Served(q) :
                  e.version = version[r] /\ e.modified_at >= now[r]
  <2>1. handling[q] = "answered" /\ ~errorText[q]
    BY <1>1 DEF Answered, Server!Whole
  <2>2. /\ generation[q] \in since[q][Key] .. Len(contents)
        /\ since[q][Key] \in 1 .. Len(contents)
        /\ \A r \in before[q] : Keeps(contents[generation[q]], r)
    BY <1>1, <2>1 DEF ServiceInvariant, Current, Asked
  <2>3. Unique(contents[generation[q]])
    BY <1>1, <2>2 DEF ServiceInvariant, Stored
  <2> QED BY <2>2, <2>3 DEF Served, Keeps
<1>2. ServiceInvariant => ServedHoldsPublished
  BY <1>1 DEF ServedHoldsPublished
<1> QED BY <1>2, ServiceInvariantHolds, PTL

=============================================================================
