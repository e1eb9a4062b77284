------------------------------- MODULE Service -------------------------------
(***************************************************************************)
(* The published list from end to end: the workflow runs of UploadMetadata *)
(* replace metadata/<dep>.json while the handlers of DepServer hand it     *)
(* out.  The two meet in the bucket only: a copy of an upload is the next  *)
(* generation of the object, and its content is the list the run computed. *)
(***************************************************************************)
EXTENDS UploadMetadata, Sequences, FiniteSets

CONSTANTS
  Requests,   \* requests to the dependency server
  Spellings,  \* ways to write the dependency's name, the key included
  Key,        \* the name in lower case, as in the object's name
  NoName,     \* the value of a missing parameter "name"
  Chunks      \* writes it takes io.Copy to move an object

ASSUME ServiceKeyAssumption == Key \in Spellings
ASSUME ServiceNoNameAssumption == NoName \notin Spellings
ASSUME ServiceChunksAssumption == Chunks \in Nat \ {0}

VARIABLES
  bucket, handling, method, name, generation, copied, status, errorText,
  since, disturbed,  \* the state of DepServer; `handling' is its `pc'
  contents,          \* the list each generation of the object holds
  before             \* history: the runs that had published alone when a
                     \* request was received

handlers == <<handling, method, name, generation, copied, status, errorText,
              since, disturbed>>

serviceVars == <<vars, bucket, handlers, contents, before>>

Server == INSTANCE DepServer WITH
  Names <- Spellings,
  Keys <- {Key},
  Lower <- [n \in Spellings |-> Key],
  MaxGeneration <- Cardinality(Runs) + 1,
  pc <- handling

(* The object exists before the first run, as an empty list: a run cannot  *)
(* download what is not there.                                             *)
ServiceInit ==
  /\ Init
  /\ Server!Init
  /\ bucket = [k \in {Key} |-> 1]
  /\ contents = <<catalogue>>
  /\ before = [q \in Requests |-> {}]

(* What a run does on its runner, the bucket only being read.              *)
OnRunner ==
  /\ \/ Tick
     \/ \E r \in Runs :
          \/ \E v \in Versions : Start(r, v)
          \/ Download(r)
          \/ Stamp(r)
          \/ Fail(r)
  /\ UNCHANGED <<bucket, handlers, contents, before>>

(* A run copies its list over the object.                                  *)
Replace(r) ==
  /\ Upload(r)
  /\ Server!Publish(Key)
  /\ contents' = Append(contents, catalogue')
  /\ UNCHANGED before

(* The mux hands a request to the handler, or the handler goes on.         *)
Serve(q) ==
  /\ Server!Handle(q)
  /\ before' = IF handling[q] = "idle"
               THEN [before EXCEPT ![q] = PublishedAlone]
               ELSE before
  /\ UNCHANGED <<vars, contents>>

ServiceNext ==
  \/ OnRunner
  \/ \E r \in Runs : Replace(r)
  \/ \E q \in Requests : Serve(q)

ServiceSpec == ServiceInit /\ [][ServiceNext]_serviceVars

-----------------------------------------------------------------------------
(* What a client that holds a whole answer reads.                          *)
Answered(q) == handling[q] = "answered" /\ Server!Whole(q)

Served(q) == contents[generation[q]]

(* The promise of the whole service to a client: an answer has one entry   *)
(* per version, and lacks no version whose upload had ended well,          *)
(* overlapped by no other, before the client asked, nor holds an older     *)
(* entry of it: neither the bucket nor the handler hands out a list of the *)
(* past.                                                                   *)
ServedHoldsPublished ==
  \A q \in Requests : Answered(q) =>
    /\ Unique(Served(q))
    /\ \A r \in before[q] : \E e \in Served(q) :
         e.version = version[r] /\ e.modified_at >= now[r]

=============================================================================
