----------------------------- MODULE DepServer -----------------------------
(***************************************************************************)
(* The dependency server (internal/handler/handler.go,                     *)
(* cmd/server/main.go): concurrent requests to /v1/dependency?name=<name>, *)
(* each answered with the object metadata/<lower case name>.json of the    *)
(* bucket, which the upload-metadata action replaces meanwhile.            *)
(*                                                                         *)
(* An object is abstracted to its generation, a number that grows with     *)
(* each replacement, and its content to the `Chunks' pieces io.Copy moves. *)
(***************************************************************************)
EXTENDS Naturals

CONSTANTS
  Requests,       \* the requests in flight
  Names,          \* values of the parameter "name" that are not empty
  Keys,           \* names in lower case
  Lower,          \* strings.ToLower, and tolower of the uploading action
  NoName,         \* the value of a missing parameter
  Chunks,         \* writes it takes io.Copy to move an object
  MaxGeneration   \* bound on the replacements of an object

ASSUME KeysAssumption == Keys \subseteq Names /\ \A k \in Keys : Lower[k] = k
ASSUME LowerAssumption == Lower \in [Names -> Keys]
ASSUME NoNameAssumption == NoName \notin Names
ASSUME ChunksAssumption == Chunks \in Nat \ {0}
ASSUME MaxGenerationAssumption == MaxGeneration \in Nat

VARIABLES
  bucket,      \* generation of each object; 0 when there is none
  pc,          \* where the handler of each request is
  method,      \* r.Method
  name,        \* r.URL.Query().Get("name")
  generation,  \* the generation resp.Body is read from; 0 before
  copied,      \* pieces written to the client by io.Copy
  status,      \* the status line sent to the client; 0 before
  errorText,   \* {"error": ...} was written to the client
  since,       \* history: generations of the objects at the request
  disturbed    \* history: the network or the bucket failed this request

vars == <<bucket, pc, method, name, generation, copied, status, errorText,
          since, disturbed>>

handlerVars == <<pc, method, name, generation, copied, status, errorText>>

Methods == {"GET", "POST"}

HandlerSteps == {"idle", "check", "get", "copy", "answered", "gone"}

Statuses == {0, 200, 400, 405, 500}

-----------------------------------------------------------------------------
Init ==
  /\ bucket \in [Keys -> {0, 1}]
  /\ pc = [q \in Requests |-> "idle"]
  /\ method = [q \in Requests |-> "GET"]
  /\ name = [q \in Requests |-> NoName]
  /\ generation = [q \in Requests |-> 0]
  /\ copied = [q \in Requests |-> 0]
  /\ status = [q \in Requests |-> 0]
  /\ errorText = [q \in Requests |-> FALSE]
  /\ since = [q \in Requests |-> bucket]
  /\ disturbed = [q \in Requests |-> FALSE]

(* upload-metadata replaces the object of the dependency it is named for.  *)
Publish(n) ==
  /\ bucket[Lower[n]] < MaxGeneration
  /\ bucket' = [bucket EXCEPT ![Lower[n]] = @ + 1]
  /\ UNCHANGED <<handlerVars, since, disturbed>>

(* The mux calls DependencyHandler.                                        *)
Receive(q, m, n) ==
  /\ pc[q] = "idle"
  /\ pc' = [pc EXCEPT ![q] = "check"]
  /\ method' = [method EXCEPT ![q] = m]
  /\ name' = [name EXCEPT ![q] = n]
  /\ since' = [since EXCEPT ![q] = bucket]
  /\ UNCHANGED <<bucket, generation, copied, status, errorText, disturbed>>

(* handlerError: WriteHeader has no effect once the header is sent.        *)
HandlerError(q, code) ==
  /\ status' = [status EXCEPT ![q] = IF @ = 0 THEN code ELSE @]
  /\ errorText' = [errorText EXCEPT ![q] = TRUE]
  /\ pc' = [pc EXCEPT ![q] = "answered"]

(* The two checks before the bucket is asked.                              *)
CheckRequest(q) ==
  /\ pc[q] = "check"
  /\ \/ /\ method[q] # "GET"
        /\ HandlerError(q, 405)
     \/ /\ method[q] = "GET"
        /\ name[q] = NoName
        /\ HandlerError(q, 400)
     \/ /\ method[q] = "GET"
        /\ name[q] # NoName
        /\ pc' = [pc EXCEPT ![q] = "get"]
        /\ UNCHANGED <<status, errorText>>
  /\ UNCHANGED <<bucket, method, name, generation, copied, since, disturbed>>

(* Faulty variant of MetadataKey: strings.ToLower is forgotten.            *)
MetadataKeyAsGiven(n) == n

MetadataKey(n) == Lower[n]

(* Faulty variant of GetObject: an answer from a cache, as old as may be.  *)
GetObjectCached(q) ==
  /\ pc[q] = "get"
  /\ LET key == MetadataKey(name[q]) IN
     \/ /\ \E g \in 1..bucket[key] : generation' = [generation EXCEPT ![q] = g]
        /\ pc' = [pc EXCEPT ![q] = "copy"]
        /\ UNCHANGED <<status, errorText>>
     \/ /\ bucket[key] = 0
        /\ HandlerError(q, 500)
        /\ UNCHANGED generation
  /\ UNCHANGED <<bucket, method, name, copied, since, disturbed>>

(* http.Get(metadataFileURL): the bucket serves one generation of the      *)
(* object, or a status that is not 200 when there is none.                 *)
GetObject(q) ==
  /\ pc[q] = "get"
  /\ LET key == MetadataKey(name[q]) IN
     \/ /\ key \in Keys /\ bucket[key] > 0
        /\ generation' = [generation EXCEPT ![q] = bucket[key]]
        /\ pc' = [pc EXCEPT ![q] = "copy"]
        /\ UNCHANGED <<status, errorText>>
     \/ /\ key \in Keys => bucket[key] = 0
        /\ HandlerError(q, 500)
        /\ UNCHANGED generation
  /\ UNCHANGED <<bucket, method, name, copied, since, disturbed>>

(* The bucket cannot be reached, or answers 5xx.                           *)
GetFails(q) ==
  /\ pc[q] = "get"
  /\ HandlerError(q, 500)
  /\ disturbed' = [disturbed EXCEPT ![q] = TRUE]
  /\ UNCHANGED <<bucket, method, name, generation, copied, since>>

(* Faulty variant of CopyChunk: the end of the body is not noticed.        *)
CopyChunkPastEnd(q) ==
  /\ pc[q] = "copy"
  /\ copied' = [copied EXCEPT ![q] = @ + 1]
  /\ status' = [status EXCEPT ![q] = IF @ = 0 THEN 200 ELSE @]
  /\ UNCHANGED <<bucket, pc, method, name, generation, errorText, since, disturbed>>

(* io.Copy: one read and one write; the first write sends status 200.      *)
CopyChunk(q) ==
  /\ pc[q] = "copy"
  /\ copied[q] < Chunks
  /\ copied' = [copied EXCEPT ![q] = @ + 1]
  /\ status' = [status EXCEPT ![q] = IF @ = 0 THEN 200 ELSE @]
  /\ UNCHANGED <<bucket, pc, method, name, generation, errorText, since, disturbed>>

(* Faulty variant of CopyFails: the error of io.Copy is not looked at.     *)
CopyFailsSilently(q) ==
  /\ pc[q] = "copy"
  /\ copied[q] < Chunks
  /\ pc' = [pc EXCEPT ![q] = "answered"]
  /\ status' = [status EXCEPT ![q] = IF @ = 0 THEN 200 ELSE @]
  /\ disturbed' = [disturbed EXCEPT ![q] = TRUE]
  /\ UNCHANGED <<bucket, method, name, generation, copied, errorText, since>>

(* io.Copy: the body of the bucket's answer breaks off.  The error text is *)
(* appended to whatever was written before.                                *)
CopyFails(q) ==
  /\ pc[q] = "copy"
  /\ copied[q] < Chunks
  /\ HandlerError(q, 500)
  /\ disturbed' = [disturbed EXCEPT ![q] = TRUE]
  /\ UNCHANGED <<bucket, method, name, generation, copied, since>>

(* io.Copy: a write fails because the client closed the connection; what   *)
(* handlerError writes then reaches nobody.                                *)
ClientGone(q) ==
  /\ pc[q] = "copy"
  /\ pc' = [pc EXCEPT ![q] = "gone"]
  /\ disturbed' = [disturbed EXCEPT ![q] = TRUE]
  /\ UNCHANGED <<bucket, method, name, generation, copied, status, errorText, since>>

(* io.Copy met the end of the body and the handler returns.                *)
Finish(q) ==
  /\ pc[q] = "copy"
  /\ copied[q] = Chunks
  /\ pc' = [pc EXCEPT ![q] = "answered"]
  /\ UNCHANGED <<bucket, method, name, generation, copied, status, errorText,
                 since, disturbed>>

Handle(q) ==
  \/ \E m \in Methods, n \in Names \union {NoName} : Receive(q, m, n)
  \/ CheckRequest(q)
  \/ GetObject(q)
  \/ GetFails(q)
  \/ CopyChunk(q)
  \/ CopyFails(q)
  \/ ClientGone(q)
  \/ Finish(q)

Next ==
  \/ \E n \in Names : Publish(n)
  \/ \E q \in Requests : Handle(q)

Spec == Init /\ [][Next]_vars

-----------------------------------------------------------------------------
(* Types of the bucket and of the handlers' state.                         *)
TypeOK ==
  /\ bucket \in [Keys -> Nat]
  /\ pc \in [Requests -> HandlerSteps]
  /\ method \in [Requests -> Methods]
  /\ name \in [Requests -> Names \union {NoName}]
  /\ generation \in [Requests -> Nat]
  /\ copied \in [Requests -> 0..Chunks]
  /\ status \in [Requests -> Statuses]
  /\ errorText \in [Requests -> BOOLEAN]
  /\ since \in [Requests -> [Keys -> Nat]]
  /\ disturbed \in [Requests -> BOOLEAN]

(* The client holds a complete object and nothing else.                    *)
Whole(q) == status[q] = 200 /\ copied[q] = Chunks /\ ~errorText[q]

(* A whole answer is one generation of the object that was asked for,      *)
(* whatever its case, that was current at some time during the request,    *)
(* however many uploads replace it meanwhile.                              *)
AnswerWasCurrent ==
  \A q \in Requests : pc[q] = "answered" /\ Whole(q) =>
    /\ method[q] = "GET" /\ name[q] \in Names
    /\ generation[q] \in since[q][Lower[name[q]]]..bucket[Lower[name[q]]]

(* A well-formed request for a dependency that was published before it,    *)
(* under any case of its name, is answered in full unless the network or   *)
(* the bucket failed it.                                                   *)
PublishedIsServed ==
  \A q \in Requests :
    /\ pc[q] = "answered" /\ ~disturbed[q]
    /\ method[q] = "GET" /\ name[q] \in Names
    /\ since[q][Lower[name[q]]] > 0
    => Whole(q)

(* An answer is the whole object, or it ends with the error text.  The     *)
(* status alone does not tell the two apart: a body that breaks off after  *)
(* the first write was announced with status 200, and only the text after  *)
(* the pieces marks it.  With any other status no piece was sent.          *)
AnswerIsWholeOrMarked ==
  \A q \in Requests : pc[q] = "answered" =>
    \/ Whole(q)
    \/ errorText[q] /\ status[q] = 200 /\ copied[q] \in 1..(Chunks - 1)
    \/ errorText[q] /\ status[q] # 200 /\ copied[q] = 0

=============================================================================
