-------------------------- MODULE DepServer_proofs --------------------------
(* Proofs about DepServer for any requests, names and sizes of objects.    *)
EXTENDS DepServer, TLAPS

(* The generation a handler reads from was current during the request.     *)
Current(q) ==
  /\ method[q] = "GET" /\ name[q] \in Names
  /\ generation[q] \in since[q][Lower[name[q]]]..bucket[Lower[name[q]]]

(* What is true of a request wherever its handler is.                      *)
Handled(q) ==
  /\ pc[q] # "idle" => \A k \in Keys : since[q][k] <= bucket[k]
  /\ pc[q] \in {"idle", "check", "get"} => status[q] = 0 /\ copied[q] = 0 /\ ~errorText[q]
  /\ pc[q] = "get" => method[q] = "GET" /\ name[q] \in Names
  /\ pc[q] = "copy" =>
       Current(q) /\ ~errorText[q] /\ status[q] = IF copied[q] = 0 THEN 0 ELSE 200
  /\ pc[q] = "answered" =>
       /\ status[q] \in {200, 400, 405, 500}
       /\ ~Whole(q) => errorText[q]
       /\ status[q] # 200 <=> copied[q] = 0
       /\ errorText[q] => copied[q] < Chunks
       /\ Whole(q) => Current(q)
       /\ \/ Whole(q) \/ disturbed[q] \/ method[q] # "GET" \/ name[q] = NoName
          \/ since[q][Lower[name[q]]] = 0
  /\ pc[q] = "gone" => status[q] \in {0, 200}

(* Why the properties of the server are invariants.                        *)
IInv == TypeOK /\ \A q \in Requests : Handled(q)

(* No request is under way initially.                                      *)
LEMMA InitInvariant == Init => IInv
<1> SUFFICES ASSUME Init PROVE IInv
  OBVIOUS
<1>1. bucket \in [Keys -> Nat]
  BY DEF Init
<1>2. TypeOK
  <2>1. since \in [Requests -> [Keys -> Nat]]
    BY <1>1 DEF Init
  <2>2. errorText \in [Requests -> BOOLEAN] /\ disturbed \in [Requests -> BOOLEAN]
    BY Zenon DEF Init
  <2>3. /\ pc \in [Requests -> HandlerSteps] /\ method \in [Requests -> Methods]
        /\ name \in [Requests -> Names \union {NoName}]
        /\ generation \in [Requests -> Nat] /\ copied \in [Requests -> 0..Chunks]
        /\ status \in [Requests -> Statuses]
    BY ChunksAssumption DEF Init, HandlerSteps, Methods, Statuses
  <2> QED BY <1>1, <2>1, <2>2, <2>3 DEF TypeOK
<1>3. \A q \in Requests : Handled(q)
  BY DEF Init, Handled
<1> QED BY <1>2, <1>3 DEF IInv

(* A handler is not disturbed by another one, nor by an upload.            *)
LEMMA Frame ==
  ASSUME TypeOK, NEW i \in Requests, Handled(i),
         bucket' \in [Keys -> Nat], \A k \in Keys : bucket[k] <= bucket'[k],
         pc'[i] = pc[i], method'[i] = method[i], name'[i] = name[i],
         generation'[i] = generation[i], copied'[i] = copied[i],
         status'[i] = status[i], errorText'[i] = errorText[i],
         since'[i] = since[i], disturbed'[i] = disturbed[i]
  PROVE  Handled(i)'
<1>1. \A n \in Names : Lower[n] \in Keys
  BY LowerAssumption
<1>2. /\ bucket \in [Keys -> Nat] /\ since[i] \in [Keys -> Nat]
      /\ generation[i] \in Nat
  BY DEF TypeOK
<1>3. Whole(i)' <=> Whole(i)
  BY DEF Whole
<1>4. Current(i) => Current(i)'
  BY <1>1, <1>2 DEF Current
<1>5. pc[i] # "idle" => \A k \in Keys : since[i][k] <= bucket'[k]
  BY <1>2 DEF Handled
<1> QED BY <1>3, <1>4, <1>5 DEF Handled

(* An error answer keeps the types.                                        *)
LEMMA ErrorTyped ==
  ASSUME TypeOK, NEW q \in Requests, NEW code \in {400, 405, 500}, HandlerError(q, code)
  PROVE  /\ status' \in [Requests -> Statuses]
         /\ errorText' \in [Requests -> BOOLEAN]
         /\ pc' \in [Requests -> HandlerSteps]
BY DEF HandlerError, TypeOK, Statuses, HandlerSteps

(* What a step of one handler owes: the types, and its own request.        *)
LEMMA Others ==
  ASSUME IInv, TypeOK', NEW q \in Requests, Handled(q)', UNCHANGED bucket,
         \A i \in Requests \ {q} :
           /\ pc'[i] = pc[i] /\ method'[i] = method[i] /\ name'[i] = name[i]
           /\ generation'[i] = generation[i] /\ copied'[i] = copied[i]
           /\ status'[i] = status[i] /\ errorText'[i] = errorText[i]
           /\ since'[i] = since[i] /\ disturbed'[i] = disturbed[i]
  PROVE  IInv'
<1>1. bucket' \in [Keys -> Nat] /\ \A k \in Keys : bucket[k] <= bucket'[k]
  BY DEF IInv, TypeOK
<1>2. ASSUME NEW i \in Requests PROVE Handled(i)'
  <2>1. CASE i = q
    BY <2>1
  <2>2. CASE i # q
    BY <2>2, <1>1, Frame DEF IInv
  <2> QED BY <2>1, <2>2
<1> QED BY <1>2 DEF IInv

(* Every step preserves the invariant.                                     *)
LEMMA NextInvariant == IInv /\ [Next]_vars => IInv'
<1> SUFFICES ASSUME IInv, [Next]_vars PROVE IInv'
  OBVIOUS
<1>T. TypeOK /\ \A q \in Requests : Handled(q)
  BY DEF IInv
<1>L. \A n \in Names : Lower[n] \in Keys
  BY LowerAssumption
<1>1. ASSUME NEW n \in Names, Publish(n) PROVE IInv'
  <2>1. /\ UNCHANGED <<handlerVars, since, disturbed>>
        /\ bucket' \in [Keys -> Nat] /\ \A k \in Keys : bucket[k] <= bucket'[k]
    BY <1>1, <1>T, <1>L DEF Publish, TypeOK
  <2>2. TypeOK'
    BY <2>1, <1>T DEF TypeOK, handlerVars
  <2>3. ASSUME NEW i \in Requests PROVE Handled(i)'
    BY <2>1, <1>T, Frame DEF handlerVars
  <2> QED BY <2>2, <2>3 DEF IInv
<1>2. ASSUME NEW q \in Requests, NEW m \in Methods, NEW n \in Names \union {NoName},
             Receive(q, m, n)
      PROVE  IInv'
  <2>1. TypeOK'
    BY <1>2, <1>T DEF Receive, TypeOK, HandlerSteps
  <2>2. Handled(q)'
    BY <1>2, <1>T DEF Receive, TypeOK, Handled, Whole
  <2> QED BY <1>2, <1>T, <2>1, <2>2, Others DEF Receive, TypeOK
<1>3. ASSUME NEW q \in Requests, CheckRequest(q) PROVE IInv'
  <2>1. TypeOK'
    <3>1. ASSUME NEW code \in {400, 405}, HandlerError(q, code) PROVE TypeOK'
      BY <1>3, <1>T, <3>1, ErrorTyped DEF CheckRequest, TypeOK
    <3>2. CASE pc' = [pc EXCEPT ![q] = "get"] /\ UNCHANGED <<status, errorText>>
      BY <1>3, <1>T, <3>2 DEF CheckRequest, TypeOK, HandlerSteps
    <3> QED BY <1>3, <3>1, <3>2 DEF CheckRequest
  <2>2. Handled(q)'
    BY <1>3, <1>T, ChunksAssumption DEF CheckRequest, HandlerError, TypeOK, Handled, Whole
  <2> QED BY <1>3, <1>T, <2>1, <2>2, Others DEF CheckRequest, HandlerError, TypeOK
<1>4. ASSUME NEW q \in Requests, GetObject(q) PROVE IInv'
  <2>1. name[q] \in Names /\ method[q] = "GET" /\ MetadataKey(name[q]) = Lower[name[q]]
        /\ Lower[name[q]] \in Keys
    BY <1>4, <1>T, <1>L DEF GetObject, Handled, MetadataKey
  <2>2. TypeOK'
    <3>1. CASE HandlerError(q, 500) /\ UNCHANGED generation
      BY <1>4, <1>T, <3>1, ErrorTyped DEF GetObject, TypeOK
    <3>2. CASE /\ generation' = [generation EXCEPT ![q] = bucket[Lower[name[q]]]]
               /\ pc' = [pc EXCEPT ![q] = "copy"] /\ UNCHANGED <<status, errorText>>
      BY <1>4, <1>T, <2>1, <3>2 DEF GetObject, TypeOK, HandlerSteps
    <3> QED BY <1>4, <2>1, <3>1, <3>2 DEF GetObject
  <2>3. Handled(q)'
    BY <1>4, <1>T, <2>1, ChunksAssumption DEF GetObject, HandlerError, TypeOK, Handled, Whole, Current
  <2> QED BY <1>4, <1>T, <2>2, <2>3, Others DEF GetObject, HandlerError, TypeOK
<1>5. ASSUME NEW q \in Requests, GetFails(q) PROVE IInv'
  <2>1. TypeOK'
    BY <1>5, <1>T DEF GetFails, HandlerError, TypeOK, HandlerSteps, Statuses
  <2>2. Handled(q)'
    BY <1>5, <1>T, ChunksAssumption DEF GetFails, HandlerError, TypeOK, Handled, Whole
  <2> QED BY <1>5, <1>T, <2>1, <2>2, Others DEF GetFails, HandlerError, TypeOK
<1>6. ASSUME NEW q \in Requests, CopyChunk(q) PROVE IInv'
  <2>1. TypeOK'
    BY <1>6, <1>T, ChunksAssumption DEF CopyChunk, TypeOK, Statuses
  <2>2. Handled(q)'
    BY <1>6, <1>T, ChunksAssumption DEF CopyChunk, TypeOK, Handled, Whole, Current
  <2> QED BY <1>6, <1>T, <2>1, <2>2, Others DEF CopyChunk, TypeOK
<1>7. ASSUME NEW q \in Requests, CopyFails(q) PROVE IInv'
  <2>1. TypeOK'
    BY <1>7, <1>T DEF CopyFails, HandlerError, TypeOK, HandlerSteps, Statuses
  <2>2. Handled(q)'
    BY <1>7, <1>T, ChunksAssumption DEF CopyFails, HandlerError, TypeOK, Handled, Whole
  <2> QED BY <1>7, <1>T, <2>1, <2>2, Others DEF CopyFails, HandlerError, TypeOK
<1>8. ASSUME NEW q \in Requests, ClientGone(q) PROVE IInv'
  <2>1. TypeOK'
    BY <1>8, <1>T DEF ClientGone, TypeOK, HandlerSteps
  <2>2. Handled(q)'
    BY <1>8, <1>T DEF ClientGone, TypeOK, Handled
  <2> QED BY <1>8, <1>T, <2>1, <2>2, Others DEF ClientGone, TypeOK
<1>9. ASSUME NEW q \in Requests, Finish(q) PROVE IInv'
  <2>1. TypeOK'
    BY <1>9, <1>T DEF Finish, TypeOK, HandlerSteps
  <2>2. Handled(q)'
    BY <1>9, <1>T, ChunksAssumption DEF Finish, TypeOK, Handled, Whole, Current
  <2> QED BY <1>9, <1>T, <2>1, <2>2, Others DEF Finish, TypeOK
<1>10. CASE UNCHANGED vars
  BY <1>10, <1>T DEF vars, handlerVars, IInv, TypeOK, Handled, Whole, Current
<1> QED
  BY <1>1, <1>2, <1>3, <1>4, <1>5, <1>6, <1>7, <1>8, <1>9, <1>10 DEF Next, Handle

(* The inductive invariant holds in every reachable state.                 *)
THEOREM InvariantHolds == Spec => []IInv
BY InitInvariant, NextInvariant, PTL DEF Spec

(* The handlers' state keeps its types, for objects of any size.           *)
THEOREM TypeCorrect == Spec => []TypeOK
<1>1. IInv => TypeOK
  BY DEF IInv
<1> QED BY <1>1, InvariantHolds, PTL

(* Any number of concurrent requests each receive one generation of the    *)
(* object they asked for, and one that was current during the request.     *)
THEOREM AnswersWereCurrent == Spec => []AnswerWasCurrent
<1>1. IInv => AnswerWasCurrent
  BY DEF IInv, AnswerWasCurrent, Handled, Current
<1> QED BY <1>1, InvariantHolds, PTL

(* A dependency published before a request is served under any case.       *)
THEOREM PublishedAreServed == Spec => []PublishedIsServed
<1>1. ASSUME IInv, NEW q \in Requests, pc[q] = "answered", ~disturbed[q],
             method[q] = "GET", name[q] \in Names, since[q][Lower[name[q]]] > 0
      PROVE  Whole(q)
  <2>1. Handled(q) /\ since[q][Lower[name[q]]] # 0 /\ name[q] # NoName
    BY <1>1, NoNameAssumption, LowerAssumption DEF IInv, TypeOK
  <2> QED BY <1>1, <2>1 DEF Handled
<1>2. IInv => PublishedIsServed
  BY <1>1 DEF PublishedIsServed
<1> QED BY <1>2, InvariantHolds, PTL

(* However a request ends, its answer is whole or ends with the error text.*)
THEOREM AnswersAreWholeOrMarked == Spec => []AnswerIsWholeOrMarked
<1>1. ASSUME IInv, NEW q \in Requests, pc[q] = "answered", ~Whole(q)
      PROVE  /\ errorText[q]
             /\ status[q] = 200 => copied[q] \in 1..(Chunks - 1)
             /\ status[q] # 200 => copied[q] = 0
  <2>1. copied[q] \in 0..Chunks /\ Handled(q)
    BY <1>1 DEF IInv, TypeOK
  <2> QED BY <1>1, <2>1, ChunksAssumption DEF Handled
<1>2. IInv => AnswerIsWholeOrMarked
  BY <1>1 DEF AnswerIsWholeOrMarked
<1> QED BY <1>2, InvariantHolds, PTL

=============================================================================
