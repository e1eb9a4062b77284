------------------------------- MODULE Snapshot -------------------------------
(***************************************************************************)
(* What a caller of GetAllVersionRefs may expect of a listing that takes   *)
(* many requests while upstream changes: the answer is as good as one      *)
(* reading at one instant.  It contains nothing that could not be listed   *)
(* at some time meanwhile and, unless it is excused, everything that could *)
(* be listed all the time.  How the requests are made, page by page or at  *)
(* once, and what excuses them, is said in ReleaseListing, which           *)
(* implements this module.                                                 *)
(***************************************************************************)
CONSTANT Items  \* what upstream may list

VARIABLES
  listable,   \* what one reading at this instant would return
  mode,       \* "idle", "reading" or "answered"
  whole,      \* what could be listed all the time since the reading began
  seen,       \* what could be listed at some time since then
  excused,    \* whether the answer need not be complete
  answer      \* what the reading returned

vars == <<listable, mode, whole, seen, excused, answer>>

Forgotten == whole = {} /\ seen = {} /\ excused = FALSE /\ answer = {}

Init ==
  /\ listable \in SUBSET Items
  /\ mode = "idle"
  /\ Forgotten

(* Upstream changes, which may excuse the reading.                         *)
Change ==
  /\ listable' \in SUBSET Items
  /\ IF mode = "reading"
     THEN /\ whole' = whole \intersect listable'
          /\ seen' = seen \union listable'
          /\ excused' \in {excused, TRUE}
     ELSE UNCHANGED <<whole, seen, excused>>
  /\ UNCHANGED <<mode, answer>>

Begin ==
  /\ mode = "idle"
  /\ mode' = "reading"
  /\ whole' = listable /\ seen' = listable
  /\ UNCHANGED <<listable, excused, answer>>

(* What the reading itself meets may excuse it too.                        *)
Excuse ==
  /\ mode = "reading"
  /\ excused' = TRUE
  /\ UNCHANGED <<listable, mode, whole, seen, answer>>

(* The promise.                                                            *)
Answer ==
  /\ mode = "reading"
  /\ mode' = "answered"
  /\ answer' \in SUBSET seen
  /\ ~excused => whole \subseteq answer'
  /\ UNCHANGED <<listable, whole, seen, excused>>

(* The reading fails, or its answer has been used.                         *)
Forget ==
  /\ mode # "idle"
  /\ mode' = "idle"
  /\ Forgotten'
  /\ UNCHANGED listable

Next == Change \/ Begin \/ Excuse \/ Answer \/ Forget

Spec == Init /\ [][Next]_vars

=============================================================================
