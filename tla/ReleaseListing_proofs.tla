------------------------ MODULE ReleaseListing_proofs ------------------------
(* Proofs about ReleaseListing for any releases, names and size of a page. *)
EXTENDS ReleaseListing, FiniteSetTheorems, TLAPS

(* What is listed before r among the releases S: Rank counts it.           *)
Above(S, r) == {s \in S : s > r}

(* A release has fewer before it than there are, and no more when there    *)
(* are fewer.                                                              *)
LEMMA RankBounds ==
  ASSUME NEW S \in SUBSET Releases, NEW r \in Releases
  PROVE  /\ IsFiniteSet(S) /\ Cardinality(S) \in Nat
         /\ IsFiniteSet(Above(S, r)) /\ Cardinality(Above(S, r)) \in Nat
         /\ Cardinality(Above(S, r)) <= Cardinality(S)
         /\ r \in S => Cardinality(Above(S, r)) < Cardinality(S)
<1>1. IsFiniteSet(S) /\ Cardinality(S) \in Nat
  BY ReleasesAreNumbers, FS_Subset, FS_CardinalityType
<1>2. Above(S, r) \in SUBSET S
  BY DEF Above
<1>3. /\ IsFiniteSet(Above(S, r)) /\ Cardinality(Above(S, r)) \in Nat
      /\ Cardinality(Above(S, r)) <= Cardinality(S)
      /\ Cardinality(S) = Cardinality(Above(S, r)) => S = Above(S, r)
  BY <1>1, <1>2, FS_Subset, FS_CardinalityType
<1>4. r \notin Above(S, r)
  BY ReleasesAreNumbers DEF Above
<1> QED BY <1>1, <1>3, <1>4

(* Among more releases a rank is no smaller.                               *)
LEMMA RankGrows ==
  ASSUME NEW S \in SUBSET Releases, NEW T \in SUBSET S, NEW r \in Releases
  PROVE  Cardinality(Above(T, r)) <= Cardinality(Above(S, r))
<1>1. Above(T, r) \in SUBSET Above(S, r)
  BY DEF Above
<1> QED BY <1>1, RankBounds, FS_Subset

(* No rank is left out: the releases are listed one after the other.       *)
LEMMA RanksAreContiguous ==
  ASSUME NEW S \in SUBSET Releases, NEW r \in S, NEW k \in Nat,
         k <= Cardinality(Above(S, r))
  PROVE  \E s \in S : Cardinality(Above(S, s)) = k
<1> DEFINE c == Cardinality(S)
           T == 0 .. (c - 1)
           f == [s \in S |-> Cardinality(Above(S, s))]
<1>1. /\ IsFiniteSet(S) /\ c \in Nat
      /\ \A s \in S : /\ Cardinality(Above(S, s)) \in Nat
                      /\ Cardinality(Above(S, s)) < c
  BY RankBounds
<1>2. IsFiniteSet(T) /\ Cardinality(T) = c
  <2>1. 0 \in Int /\ c - 1 \in Int
    BY <1>1
  <2>2. IsFiniteSet(T) /\ Cardinality(T) = IF 0 > c - 1 THEN 0 ELSE (c - 1) - 0 + 1
    BY <2>1, FS_Interval
  <2> QED BY <1>1, <2>2
<1>3. f \in Injection(S, T)
  <2>1. f \in [S -> T]
    BY <1>1
  <2>2. ASSUME NEW s \in S, NEW t \in S, s < t PROVE f[s] # f[t]
    <3>1. Above(S, t) \in SUBSET Above(S, s) /\ t \in Above(S, s) /\ t \notin Above(S, t)
      <4>1. \A x \in S : x \in Nat
        BY ReleasesAreNumbers
      <4>2. s < t /\ s \in Nat /\ t \in Nat
        BY <2>2, <4>1
      <4> HIDE DEF f, T, c
      <4>3. \A x \in S : x > t => x > s
        BY <4>1, <4>2
      <4>4. Above(S, t) \in SUBSET Above(S, s)
        BY <4>3 DEF Above
      <4>5. t \in Above(S, s) /\ t \notin Above(S, t)
        BY <4>2 DEF Above
      <4> QED BY <4>4, <4>5
    <3>2. IsFiniteSet(Above(S, s))
      BY RankBounds
    <3>3. Cardinality(Above(S, t)) # Cardinality(Above(S, s))
      <4> HIDE DEF f, T, c
      <4>1. Cardinality(Above(S, s)) = Cardinality(Above(S, t)) => Above(S, s) = Above(S, t)
        BY <3>1, <3>2, FS_Subset
      <4> QED BY <3>1, <4>1
    <3> QED BY <3>3
  <2>3. \A s, t \in S : s # t => s < t \/ t < s
    BY ReleasesAreNumbers
  <2> HIDE DEF f, T
  <2>4. \A s, t \in DOMAIN f : f[s] = f[t] => s = t
    BY <2>1, <2>2, <2>3
  <2> QED BY <2>1, <2>4 DEF Injection, IsInjective
<1>4. f \in Surjection(S, T)
  BY <1>1, <1>2, <1>3, FS_Injection
<1>5. k \in T
  BY <1>1
<1> QED BY <1>4, <1>5 DEF Surjection

-----------------------------------------------------------------------------
(* A listing in progress: the histories frame what can be listed now; what *)
(* could be listed all the time was read, or is still ahead unless         *)
(* something was deleted; what was read is behind unless something         *)
(* appeared; and a list that is not empty is complete unless excused.      *)
Frame ==
  /\ pc = "idle" =>
       /\ page = 1 /\ all = {} /\ doubled = {}
       /\ whole = {} /\ seen = {} /\ meanwhile = {}
  /\ pc # "trigger" => refs = {} /\ todo = {}
  /\ pc = "fetch" /\ dep \in Tagged => all = {}
  /\ Listing => whole \subseteq Listable /\ Listable \subseteq seen /\ all \subseteq seen
  /\ todo \subseteq refs \ known /\ refs \subseteq all
  /\ dep \in Tagged => flagged = {}

Ahead ==
  pc = "fetch" /\ dep \in Paged /\ "deleted" \notin meanwhile =>
    \A r \in whole : r \in all \/ (page - 1) * PageSize <= Rank(r)

Behind ==
  pc = "fetch" /\ dep \in Paged /\ "appeared" \notin meanwhile =>
    \A r \in all \intersect published : Rank(r) < (page - 1) * PageSize

Excused == {"deleted", "cut"} \intersect meanwhile # {}

Complete == pc = "filter" /\ all # {} /\ ~Excused => whole \subseteq all

(* The versions the dependency's filter keeps.                             *)
Keeps(r) == dep \in Skips => Name[r] # "skipped"

(* While nothing was ever removed or interrupted, a version that was       *)
(* requested and is not known is a tag that later ones pushed out of the   *)
(* window of GetTags, or the job at work has just requested it.            *)
Pushed(S) == \A r \in requested \ S : dep \in Tagged /\ PageSize <= Rank(r)

Lasting == ~removed /\ ~interrupted =>
  /\ meanwhile \subseteq {"appeared", "cut"}
  /\ requested \union all \subseteq published
  /\ \A r \in requested \union refs : Keeps(r)
  /\ dep \in Paged => requested \union all \subseteq Listable
  /\ dep \in Paged /\ Listing => requested \subseteq whole
  /\ Pushed(known \union (refs \ todo))
  /\ Listing => all \intersect (requested \ known) = {}
  /\ todo \intersect requested = {}
  /\ pc = "filter" /\ all # {} => Pushed(all)
  /\ pc = "trigger" => Pushed(refs)

(* Why the properties of a listing are invariants.                         *)
IInv ==
  /\ TypeOK /\ Frame /\ Ahead /\ Behind /\ Complete /\ Lasting
  /\ DoubledOnlyByPublication /\ RepeatedOnlyAfterLoss

-----------------------------------------------------------------------------
(* Pages follow each other without gap.                                    *)
LEMMA PageArithmetic ==
  ASSUME NEW p \in Nat \ {0}
  PROVE  /\ (p - 1) * PageSize \in Nat /\ p * PageSize \in Nat
         /\ p * PageSize = (p - 1) * PageSize + PageSize
         /\ ((p + 1) - 1) * PageSize = p * PageSize
         /\ p - 1 <= (p - 1) * PageSize
BY PageSizeAssumption

(* A rank is a number of releases.                                         *)
LEMMA RankIsNat ==
  ASSUME TypeOK, NEW r \in Releases
  PROVE  Rank(r) \in Nat /\ Rank(r) = Cardinality(Above(published, r))
BY RankBounds DEF TypeOK, Rank, Above

(* GetReleaseTags is right to end at the first empty page: nothing is      *)
(* listed after it.                                                        *)
LEMMA NothingAfterEmptyPage ==
  ASSUME TypeOK, NEW p \in Nat \ {0}, PageOf(p) = {}, NEW r \in published
  PROVE  Rank(r) < (p - 1) * PageSize
<1>1. published \in SUBSET Releases /\ r \in Releases
  BY DEF TypeOK
<1>2. SUFFICES ASSUME (p - 1) * PageSize <= Rank(r) PROVE FALSE
  BY <1>1, RankIsNat, PageArithmetic
<1>3. PICK s \in published : Cardinality(Above(published, s)) = (p - 1) * PageSize
  BY <1>1, <1>2, RankIsNat, PageArithmetic, RanksAreContiguous
<1>4. Rank(s) = (p - 1) * PageSize /\ Rank(s) < p * PageSize
  BY <1>1, <1>3, RankIsNat, PageArithmetic, PageSizeAssumption
<1> QED BY <1>4, PageArithmetic DEF PageOf

(* There are no more pages than releases.                                  *)
LEMMA PagesAreBounded ==
  ASSUME TypeOK, NEW p \in Nat \ {0}, PageOf(p) # {}
  PROVE  p <= Cardinality(Releases)
<1>1. PICK r \in published : (p - 1) * PageSize <= Rank(r)
  BY DEF PageOf
<1>2. published \in SUBSET Releases /\ r \in Releases
  BY DEF TypeOK
<1>3. Rank(r) < Cardinality(published) /\ Cardinality(published) \in Nat /\ Rank(r) \in Nat
  BY <1>2, RankIsNat, RankBounds
<1>4. Cardinality(published) <= Cardinality(Releases) /\ Cardinality(Releases) \in Nat
  BY <1>2, ReleasesAreNumbers, FS_Subset, FS_CardinalityType
<1> QED BY <1>1, <1>3, <1>4, PageArithmetic

(* Releases that appear push the others to later places, and removals pull *)
(* them back.                                                              *)
LEMMA RankMoves ==
  ASSUME TypeOK, TypeOK', NEW r \in Releases
  PROVE  /\ Rank(r) \in Nat /\ Rank(r)' \in Nat
         /\ published \subseteq published' => Rank(r) <= Rank(r)'
         /\ published' \subseteq published => Rank(r)' <= Rank(r)
         /\ published' = published => Rank(r)' = Rank(r)
<1>1. /\ published \in SUBSET Releases /\ published' \in SUBSET Releases
  BY DEF TypeOK
<1>2. /\ Rank(r) = Cardinality(Above(published, r))
      /\ Rank(r)' = Cardinality(Above(published', r))
  BY DEF Rank, Above
<1> QED BY <1>1, <1>2, RankBounds, RankGrows

(* What a change of the maintainers may do.                                *)
LEMMA Changed ==
  ASSUME TypeOK, Maintain
  PROVE  /\ UNCHANGED <<dep, job, requests>>
         /\ published' \in SUBSET Releases /\ flagged' \in SUBSET published'
         /\ dep \in Tagged /\ flagged = {} => flagged' = {}
         /\ changes' \in 0 .. MaxChanges
         /\ Witness
         /\ \E what \in {"appeared", "hidden", "deleted"} :
              /\ Happened(what)
              /\ what # "deleted" => published \subseteq published'
              /\ what # "appeared" => published' \subseteq published
              /\ what = "appeared" => published \ flagged \subseteq published' \ flagged'
<1>1. /\ UNCHANGED <<dep, job, requests>> /\ Witness
      /\ published \in SUBSET Releases /\ flagged \in SUBSET published
      /\ changes' \in 0 .. MaxChanges
  BY MaxChangesAssumption DEF Maintain, TypeOK
<1>2. dep \in Tagged => dep \notin Paged
  BY DEF Paged, Tagged
<1>3. PICK r \in Releases : Publish(r) \/ Delete(r) \/ Edit(r)
  BY DEF Maintain
<1>4. CASE Publish(r)
  BY <1>1, <1>2, <1>4 DEF Publish
<1>5. CASE Delete(r)
  BY <1>1, <1>2, <1>5 DEF Delete
<1>6. CASE Edit(r)
  BY <1>1, <1>2, <1>6 DEF Edit
<1> QED BY <1>3, <1>4, <1>5, <1>6

(* The invariant survives whatever the maintainers do.                     *)
LEMMA MaintainInvariant == IInv /\ Maintain => IInv'
<1> SUFFICES ASSUME IInv, Maintain PROVE IInv'
  OBVIOUS
<1>0. /\ TypeOK /\ Frame /\ Ahead /\ Behind /\ Complete /\ Lasting
      /\ DoubledOnlyByPublication /\ RepeatedOnlyAfterLoss
  BY DEF IInv
<1>1. /\ UNCHANGED <<dep, pc, page, all, refs, todo, known, doubled, requested, repeated,
                     interrupted>>
      /\ published' \in SUBSET Releases /\ flagged' \in SUBSET published'
      /\ dep \in Tagged /\ flagged = {} => flagged' = {}
      /\ changes' \in 0 .. MaxChanges
      /\ Witness
  BY <1>0, Changed DEF job, requests
<1>2. PICK what \in {"appeared", "hidden", "deleted"} :
        /\ Happened(what)
        /\ what # "deleted" => published \subseteq published'
        /\ what # "appeared" => published' \subseteq published
        /\ what = "appeared" => published \ flagged \subseteq published' \ flagged'
  BY <1>0, Changed
<1>3. Listable' \subseteq published' /\ Listable' \subseteq Releases
  BY <1>1 DEF Listable
<1>4. TypeOK'
  <2>1. removed' \in BOOLEAN
    BY <1>0, <1>2 DEF Happened, TypeOK
  <2>2. meanwhile' \subseteq {"appeared", "hidden", "deleted", "cut"}
    BY <1>0, <1>2 DEF Happened, TypeOK
  <2>3. whole' \subseteq Releases /\ seen' \subseteq Releases
    BY <1>0, <1>1, <1>3 DEF Witness, TypeOK
  <2> QED BY <1>0, <1>1, <2>1, <2>2, <2>3 DEF TypeOK
<1>5. Frame'
  BY <1>0, <1>1, <1>2 DEF Frame, Witness, Happened, Listing
<1>6. \A r \in Releases :
        /\ Rank(r) \in Nat /\ Rank(r)' \in Nat
        /\ what # "deleted" => Rank(r) <= Rank(r)'
        /\ what # "appeared" => Rank(r)' <= Rank(r)
  BY <1>0, <1>2, <1>4, RankMoves
<1>7. page \in Nat \ {0} /\ (page - 1) * PageSize \in Nat
  BY <1>0, ReleasesAreNumbers, FS_CardinalityType, PageArithmetic DEF TypeOK
<1>8. Ahead'
  <2> SUFFICES ASSUME pc = "fetch", dep \in Paged, "deleted" \notin meanwhile',
                      NEW r \in whole', r \notin all
               PROVE  (page - 1) * PageSize <= Rank(r)'
    BY <1>1 DEF Ahead
  <2>1. what # "deleted" /\ "deleted" \notin meanwhile
    BY <1>2 DEF Happened, Listing
  <2>2. r \in whole /\ r \in Releases
    BY <1>0, <1>1 DEF Witness, TypeOK
  <2>3. (page - 1) * PageSize <= Rank(r)
    BY <1>0, <2>1, <2>2 DEF Ahead
  <2> QED BY <1>6, <1>7, <2>1, <2>2, <2>3
<1>9. Behind'
  <2> SUFFICES ASSUME pc = "fetch", dep \in Paged, "appeared" \notin meanwhile',
                      NEW r \in all \intersect published'
               PROVE  Rank(r)' < (page - 1) * PageSize
    BY <1>1 DEF Behind
  <2>1. what # "appeared" /\ "appeared" \notin meanwhile
    BY <1>2 DEF Happened, Listing
  <2>2. r \in published /\ r \in Releases
    BY <1>0, <1>2, <2>1 DEF TypeOK
  <2>3. Rank(r) < (page - 1) * PageSize
    BY <1>0, <2>1, <2>2 DEF Behind
  <2> QED BY <1>6, <1>7, <2>1, <2>2, <2>3
<1>10. Complete'
  <2>1. ~Excused' /\ pc = "filter" => ~Excused
    BY <1>2 DEF Excused, Happened, Listing
  <2>2. whole' \subseteq whole
    BY <1>1 DEF Witness
  <2> QED BY <1>0, <1>1, <2>1, <2>2 DEF Complete
<1>11. Lasting'
  <2> SUFFICES ASSUME ~removed', ~interrupted PROVE Lasting'
    BY <1>1 DEF Lasting
  <2>1. what = "appeared" /\ ~removed
    BY <1>2 DEF Happened
  <2>2. /\ Pushed(known \union (refs \ todo))' /\ (pc = "filter" /\ all # {} => Pushed(all)')
        /\ pc = "trigger" => Pushed(refs)'
    <3>1. ASSUME NEW S, Pushed(S), NEW r \in requested \ S
          PROVE  dep \in Tagged /\ PageSize <= Rank(r)'
      BY <1>0, <1>6, <2>1, <3>1, PageSizeAssumption DEF Pushed, TypeOK
    <3> QED BY <1>0, <1>1, <2>1, <3>1 DEF Lasting, Pushed
  <2>3. Listable \subseteq Listable'
    BY <1>1, <1>2, <2>1 DEF Listable
  <2>4. meanwhile' \subseteq {"appeared", "cut"}
    BY <1>0, <1>2, <2>1 DEF Happened, Lasting
  <2>5. dep \in Paged /\ Listing => requested \subseteq whole'
    BY <1>0, <1>1, <2>1, <2>3 DEF Lasting, Witness
  <2>6. Listing' <=> Listing
    BY <1>1 DEF Listing
  <2> QED BY <1>0, <1>1, <1>2, <2>1, <2>2, <2>3, <2>4, <2>5, <2>6 DEF Lasting, Keeps
<1>12. DoubledOnlyByPublication' /\ RepeatedOnlyAfterLoss'
  BY <1>0, <1>1, <1>2 DEF DoubledOnlyByPublication, RepeatedOnlyAfterLoss, Happened, Frame,
                          Listing
<1> QED BY <1>4, <1>5, <1>8, <1>9, <1>10, <1>11, <1>12 DEF IInv

(* Nothing is known when the first job begins.                             *)
LEMMA InitInvariant == Init => IInv
<1> SUFFICES ASSUME Init PROVE IInv
  OBVIOUS
<1>1. /\ pc = "idle" /\ page = 1 /\ all = {} /\ refs = {} /\ todo = {} /\ known = {}
      /\ doubled = {} /\ ~interrupted /\ interrupted \in BOOLEAN
      /\ whole = {} /\ seen = {} /\ meanwhile = {} /\ requested = {} /\ repeated = {}
      /\ ~removed /\ removed \in BOOLEAN /\ changes = 0
  BY DEF Init
<1>2. TypeOK
  <2>1. Cardinality(Releases) \in Nat
    BY ReleasesAreNumbers, FS_CardinalityType
  <2> QED BY <1>1, <2>1, MaxChangesAssumption DEF Init, TypeOK
<1>3. Frame /\ Ahead /\ Behind /\ Complete
  BY <1>1 DEF Init, Frame, Ahead, Behind, Complete, Listing
<1>4. Lasting /\ DoubledOnlyByPublication /\ RepeatedOnlyAfterLoss
  BY <1>1 DEF Lasting, Pushed, DoubledOnlyByPublication, RepeatedOnlyAfterLoss
<1> QED BY <1>2, <1>3, <1>4 DEF IInv

(* The end of a job leaves nothing but the list it recorded and what it    *)
(* requested.                                                              *)
LEMMA EndInvariant ==
  ASSUME IInv, End, UNCHANGED <<dep, upstream, removed, changes>>,
         known' \subseteq Releases, requested' \subseteq Releases,
         repeated' \subseteq Releases, interrupted' \in BOOLEAN,
         repeated' # {} => removed \/ interrupted',
         ~removed /\ ~interrupted' =>
           /\ requested' \subseteq published
           /\ dep \in Paged => requested' \subseteq Listable
           /\ \A r \in requested' : Keeps(r)
           /\ \A r \in requested' \ known' : dep \in Tagged /\ PageSize <= Rank(r)
  PROVE  IInv'
<1>1. /\ UNCHANGED <<dep, published, flagged, removed, changes>>
      /\ pc' = "idle" /\ page' = 1 /\ all' = {} /\ refs' = {} /\ todo' = {} /\ doubled' = {}
      /\ whole' = {} /\ seen' = {} /\ meanwhile' = {}
  BY DEF End, upstream
<1>2. TypeOK'
  <2>1. Cardinality(Releases) \in Nat
    BY ReleasesAreNumbers, FS_CardinalityType
  <2> QED BY <1>1, <2>1 DEF IInv, TypeOK
<1>3. Frame' /\ Ahead' /\ Behind' /\ Complete'
  BY <1>1 DEF IInv, Frame, Ahead, Behind, Complete, Listing
<1>4. Lasting'
  BY <1>1 DEF Lasting, Pushed, Keeps, Listable, PageOf, Rank, Listing
<1>5. DoubledOnlyByPublication' /\ RepeatedOnlyAfterLoss'
  BY <1>1 DEF DoubledOnlyByPublication, RepeatedOnlyAfterLoss
<1> QED BY <1>2, <1>3, <1>4, <1>5 DEF IInv

(* A listing begins with everything ahead of it and nothing lost.          *)
LEMMA StartInvariant == IInv /\ Start => IInv'
<1> SUFFICES ASSUME IInv, Start PROVE IInv'
  OBVIOUS
<1>0. /\ TypeOK /\ Frame /\ Lasting
      /\ DoubledOnlyByPublication /\ RepeatedOnlyAfterLoss
  BY DEF IInv
<1>1. /\ pc = "idle" /\ pc' = "fetch" /\ whole' = Listable /\ seen' = Listable
      /\ UNCHANGED <<dep, published, flagged, page, all, refs, todo, known, doubled, requested,
                     repeated, interrupted, meanwhile, removed, changes>>
      /\ page = 1 /\ all = {} /\ refs = {} /\ todo = {} /\ meanwhile = {}
  BY <1>0 DEF Start, upstream, requests, Frame
<1>2. Listable' = Listable /\ Listable \subseteq published /\ \A r : Rank(r)' = Rank(r)
  BY <1>0, <1>1 DEF Listable, Rank, TypeOK
<1>3. TypeOK'
  BY <1>0, <1>1, <1>2 DEF TypeOK
<1>4. Frame' /\ Behind' /\ Complete'
  BY <1>0, <1>1, <1>2 DEF Frame, Behind, Complete, Listing
<1>5. Ahead'
  <2>1. \A r \in Listable : Rank(r) \in Nat /\ (1 - 1) * PageSize = 0
    BY <1>0, <1>2, RankIsNat, PageSizeAssumption DEF TypeOK
  <2> QED BY <1>1, <1>2, <2>1 DEF Ahead
<1>6. Lasting'
  BY <1>0, <1>1, <1>2 DEF Lasting, Pushed, Keeps, Listing
<1>7. DoubledOnlyByPublication' /\ RepeatedOnlyAfterLoss'
  BY <1>0, <1>1 DEF DoubledOnlyByPublication, RepeatedOnlyAfterLoss
<1> QED BY <1>3, <1>4, <1>5, <1>6, <1>7 DEF IInv

(* Filtering reads the accumulated list and nothing of upstream.           *)
LEMMA FilterInvariant == IInv /\ Filter => IInv'
<1> SUFFICES ASSUME IInv, Filter PROVE IInv'
  OBVIOUS
<1>0. /\ TypeOK /\ Frame /\ Lasting
      /\ DoubledOnlyByPublication /\ RepeatedOnlyAfterLoss
  BY DEF IInv
<1>1. CASE Rejected \/ Kept = {}
  <2>1. /\ refs = {} /\ End /\ UNCHANGED <<dep, upstream, removed, changes>>
        /\ UNCHANGED <<known, requested, repeated, interrupted>>
    BY <1>0, <1>1 DEF Filter, Frame, requests
  <2> QED BY <1>0, <2>1, EndInvariant DEF TypeOK, Lasting, Pushed, RepeatedOnlyAfterLoss
<1>2. CASE ~(Rejected \/ Kept = {})
  <2>1. /\ pc = "filter" /\ pc' = "trigger" /\ refs' = Kept /\ todo' = Kept \ known
        /\ UNCHANGED <<dep, published, flagged, page, all, known, doubled, requested,
                       repeated, interrupted, whole, seen, meanwhile, removed, changes>>
    BY <1>2 DEF Filter, upstream, history, requests
  <2>2. /\ Kept \subseteq all /\ Kept # {} /\ \A r \in Kept : Keeps(r)
        /\ \A r \in all \ Kept : ~Keeps(r)
    BY <1>2 DEF Kept, Keeps
  <2>3. Listable' = Listable /\ \A r : Rank(r)' = Rank(r) /\ (Keeps(r)' <=> Keeps(r))
    BY <2>1 DEF Listable, Rank, Keeps
  <2>4. TypeOK' /\ Frame' /\ Ahead' /\ Behind' /\ Complete'
    BY <1>0, <2>1, <2>2 DEF TypeOK, Frame, Ahead, Behind, Complete, Listing
  <2>5. Lasting'
    <3> SUFFICES ASSUME ~removed, ~interrupted PROVE Lasting'
      BY <2>1 DEF Lasting
    <3>1. /\ all \intersect (requested \ known) = {} /\ Pushed(all) /\ Pushed(known)
          /\ \A r \in requested : Keeps(r)
      BY <1>0, <2>1, <2>2 DEF Lasting, Listing, Frame, Pushed
    <3>2. todo' \intersect requested' = {}
      BY <2>1, <2>2, <3>1
    <3>3. Pushed(refs)' /\ Pushed(known \union (refs \ todo))'
      BY <2>1, <2>2, <2>3, <3>1 DEF Pushed
    <3> QED BY <1>0, <2>1, <2>2, <2>3, <3>2, <3>3 DEF Lasting, Listing
  <2>6. DoubledOnlyByPublication' /\ RepeatedOnlyAfterLoss'
    BY <1>0, <2>1 DEF DoubledOnlyByPublication, RepeatedOnlyAfterLoss
  <2> QED BY <2>4, <2>5, <2>6 DEF IInv
<1> QED BY <1>1, <1>2

(* A request is of a version that was not requested before.                *)
LEMMA RequestInvariant ==
  ASSUME IInv, NEW r \in Releases, Request(r) PROVE IInv'
<1>0. /\ TypeOK /\ Frame /\ Lasting
      /\ DoubledOnlyByPublication /\ RepeatedOnlyAfterLoss
  BY DEF IInv
<1>1. /\ pc = "trigger" /\ r \in todo /\ todo' = todo \ {r}
      /\ requested' = requested \union {r}
      /\ repeated' = repeated \union ({r} \intersect requested)
      /\ UNCHANGED <<dep, published, flagged, pc, page, all, refs, known, doubled, interrupted,
                     whole, seen, meanwhile, removed, changes>>
  BY DEF Request, upstream, history
<1>2. r \in refs /\ r \in all /\ todo \subseteq refs
  BY <1>0, <1>1 DEF Frame
<1>3. Listable' = Listable /\ \A s : Rank(s)' = Rank(s) /\ (Keeps(s)' <=> Keeps(s))
  BY <1>1 DEF Listable, Rank, Keeps
<1>4. TypeOK' /\ Frame' /\ Ahead' /\ Behind' /\ Complete'
  BY <1>0, <1>1 DEF TypeOK, Frame, Ahead, Behind, Complete, Listing
<1>5. Lasting'
  <2> SUFFICES ASSUME ~removed, ~interrupted PROVE Lasting'
    BY <1>1 DEF Lasting
  <2>1. Pushed(refs) /\ Pushed(known \union (refs \ todo)) /\ todo \intersect requested = {}
    BY <1>0, <1>1 DEF Lasting
  <2>2. Pushed(refs)' /\ Pushed(known \union (refs \ todo))'
    BY <1>1, <1>2, <1>3, <2>1 DEF Pushed
  <2> QED BY <1>0, <1>1, <1>2, <1>3, <2>1, <2>2 DEF Lasting, Listing
<1>6. DoubledOnlyByPublication' /\ RepeatedOnlyAfterLoss'
  BY <1>0, <1>1 DEF DoubledOnlyByPublication, RepeatedOnlyAfterLoss, Lasting
<1> QED BY <1>4, <1>5, <1>6 DEF IInv

(* The refs that were listed become known, and nothing that is no ref.     *)
LEMMA UpdateInvariant == IInv /\ UpdateKnown => IInv'
<1> SUFFICES ASSUME IInv, UpdateKnown PROVE IInv'
  OBVIOUS
<1>0. TypeOK /\ Lasting /\ RepeatedOnlyAfterLoss
  BY DEF IInv
<1>1. /\ pc = "trigger" /\ known' = refs
      /\ UNCHANGED <<requested, repeated, interrupted>>
      /\ End /\ UNCHANGED <<dep, upstream, removed, changes>>
  BY DEF UpdateKnown
<1> QED BY <1>0, <1>1, EndInvariant DEF TypeOK, RepeatedOnlyAfterLoss, Lasting, Pushed

(* A job that ends early and requested nothing leaves everything as it     *)
(* was.                                                                    *)
LEMMA FailInvariant == IInv /\ Fail => IInv'
<1> SUFFICES ASSUME IInv, Fail PROVE IInv'
  OBVIOUS
<1>0. TypeOK /\ Frame /\ Lasting /\ RepeatedOnlyAfterLoss
  BY DEF IInv
<1>1. /\ interrupted' = (interrupted \/ todo # refs \ known)
      /\ UNCHANGED <<known, requested, repeated>>
      /\ End /\ UNCHANGED <<dep, upstream, removed, changes>>
  BY DEF Fail
<1>2. interrupted' \in BOOLEAN /\ (interrupted => interrupted')
  BY <1>0, <1>1 DEF TypeOK
<1>3. ~interrupted' => ~interrupted /\ known \union (refs \ todo) = known
  BY <1>0, <1>1, <1>2 DEF TypeOK
<1> QED BY <1>0, <1>1, <1>2, <1>3, EndInvariant
        DEF TypeOK, Lasting, Pushed, RepeatedOnlyAfterLoss

(* A page that is appended closes the gap up to the next page.             *)
LEMMA AppendInvariant ==
  ASSUME IInv, pc = "fetch", dep \in Paged, PageOf(page) # {},
         Append(Got(page), page + 1),
         UNCHANGED <<dep, upstream, refs, todo, requests, removed, changes>>
  PROVE  IInv'
<1>0. /\ TypeOK /\ Frame /\ Ahead /\ Behind /\ Complete /\ Lasting
      /\ DoubledOnlyByPublication /\ RepeatedOnlyAfterLoss
  BY DEF IInv
<1> DEFINE got == Got(page)
<1>1. /\ page' = page + 1 /\ all' = all \union got /\ doubled' = doubled \union (all \intersect got)
      /\ UNCHANGED <<dep, published, flagged, pc, refs, todo, known, requested, repeated,
                     interrupted, whole, seen, meanwhile, removed, changes>>
  BY DEF Append, upstream, history, requests
<1>2. Listable = published \ flagged /\ published \subseteq Releases
  BY <1>0 DEF Listable, TypeOK
<1>3. /\ page \in Nat \ {0} /\ page <= Cardinality(Releases) /\ Cardinality(Releases) \in Nat
  BY <1>0, ReleasesAreNumbers, FS_CardinalityType, PagesAreBounded DEF TypeOK
<1>4. /\ (page' - 1) * PageSize = page * PageSize
      /\ (page - 1) * PageSize \in Nat /\ page * PageSize \in Nat
      /\ (page - 1) * PageSize <= page * PageSize
  BY <1>1, <1>3, PageArithmetic, PageSizeAssumption
<1>5. /\ got \subseteq Listable
      /\ \A r \in got : (page - 1) * PageSize <= Rank(r) /\ Rank(r) < page * PageSize
      /\ \A r \in Listable \ got : (page - 1) * PageSize <= Rank(r) => page * PageSize <= Rank(r)
      /\ \A r \in published : Rank(r) \in Nat
  <2>1. \A r \in published : Rank(r) \in Nat
    BY <1>0, <1>2, RankIsNat
  <2> QED BY <1>2, <1>4, <2>1 DEF Got, PageOf
<1>6. Listable' = Listable /\ \A r : Rank(r)' = Rank(r) /\ (Keeps(r)' <=> Keeps(r))
  BY <1>1 DEF Listable, Rank, Keeps
<1> HIDE DEF got
<1>7. TypeOK'
  BY <1>0, <1>1, <1>2, <1>3, <1>5 DEF TypeOK
<1>8. Frame' /\ Complete'
  BY <1>0, <1>1, <1>5, <1>6 DEF Frame, Complete, Listing, Paged, Tagged
<1>9. Ahead'
  <2> SUFFICES ASSUME "deleted" \notin meanwhile, NEW r \in whole, r \notin all \union got
               PROVE  page * PageSize <= Rank(r)
    BY <1>1, <1>4, <1>6 DEF Ahead
  <2>1. r \in Listable /\ (page - 1) * PageSize <= Rank(r)
    BY <1>0 DEF Ahead, Frame, Listing
  <2> QED BY <1>5, <2>1
<1>10. Behind'
  <2> SUFFICES ASSUME "appeared" \notin meanwhile,
                      NEW r \in (all \union got) \intersect published
               PROVE  Rank(r) < page * PageSize
    BY <1>1, <1>4, <1>6 DEF Behind
  <2>1. CASE r \in got
    BY <1>5, <2>1
  <2>2. CASE r \notin got
    <3>1. Rank(r) < (page - 1) * PageSize /\ Rank(r) \in Nat
      BY <1>0, <1>5, <2>2 DEF Behind
    <3> QED BY <1>4, <3>1
  <2> QED BY <2>1, <2>2
<1>11. Lasting'
  <2>1. dep \notin Tagged
    BY DEF Paged, Tagged
  <2> QED BY <1>0, <1>1, <1>2, <1>5, <1>6, <2>1 DEF Lasting, Pushed, Frame, Listing
<1>12. DoubledOnlyByPublication'
  <2> SUFFICES ASSUME "appeared" \notin meanwhile PROVE doubled' = {}
    BY <1>1 DEF DoubledOnlyByPublication
  <2>1. \A r \in all \intersect got : FALSE
    <3> SUFFICES ASSUME NEW r \in all \intersect got PROVE FALSE
      OBVIOUS
    <3>1. r \in published /\ Rank(r) < (page - 1) * PageSize
      BY <1>0, <1>2, <1>5 DEF Behind
    <3> QED BY <1>4, <1>5, <3>1
  <2> QED BY <1>0, <1>1, <2>1 DEF DoubledOnlyByPublication
<1>13. RepeatedOnlyAfterLoss'
  BY <1>0, <1>1 DEF RepeatedOnlyAfterLoss
<1> QED BY <1>7, <1>8, <1>9, <1>10, <1>11, <1>12, <1>13 DEF IInv

(* When the listing ends everything ahead has been read.                   *)
LEMMA BreakIsComplete ==
  ASSUME IInv, pc = "fetch", dep \in Paged, PageOf(page) = {}, "deleted" \notin meanwhile
  PROVE  whole \subseteq all
<1>1. /\ TypeOK /\ page \in Nat \ {0} /\ whole \subseteq published
  <2>1. TypeOK /\ whole \subseteq Listable
    BY DEF IInv, Frame, Listing
  <2>2. Listable \subseteq published
    BY DEF Listable
  <2>3. page \in Nat \ {0}
    BY <2>1, ReleasesAreNumbers, FS_CardinalityType DEF TypeOK
  <2> QED BY <2>1, <2>2, <2>3
<1>2. ASSUME NEW r \in whole, r \notin all PROVE FALSE
  <2>1. Rank(r) < (page - 1) * PageSize /\ Rank(r) \in Nat
    BY <1>1, NothingAfterEmptyPage, RankIsNat DEF TypeOK
  <2>2. (page - 1) * PageSize <= Rank(r)
    BY <1>2 DEF IInv, Ahead
  <2> QED BY <1>1, <2>1, <2>2, PageArithmetic
<1> QED BY <1>2

(* Every request of a listing preserves the invariant, whichever it is.    *)
LEMMA FetchInvariant == IInv /\ Fetch => IInv'
<1> SUFFICES ASSUME IInv, Fetch PROVE IInv'
  OBVIOUS
<1>0. /\ TypeOK /\ Frame /\ Lasting
      /\ DoubledOnlyByPublication /\ RepeatedOnlyAfterLoss
  BY DEF IInv
<1>1. /\ pc = "fetch" /\ refs = {} /\ todo = {}
      /\ UNCHANGED <<dep, upstream, refs, todo, requests, removed, changes>>
  BY <1>0 DEF Fetch, Frame
<1>2. Listable' = Listable /\ \A r : Rank(r)' = Rank(r) /\ (Keeps(r)' <=> Keeps(r))
  BY <1>1 DEF Listable, Rank, Keeps, upstream
<1>3. CASE ReadPage
  <2>1. CASE PageOf(page) # {}
    BY <1>1, <1>3, <2>1, AppendInvariant DEF ReadPage
  <2>2. CASE PageOf(page) = {}
    <3>1. /\ dep \in Paged /\ pc' = "filter"
          /\ UNCHANGED <<dep, published, flagged, page, all, refs, todo, known, doubled,
                         requested, repeated, interrupted, whole, seen, meanwhile, removed,
                         changes>>
      BY <1>1, <1>3, <2>2 DEF ReadPage, Break, upstream, history, requests
    <3>2. TypeOK' /\ Frame' /\ Ahead' /\ Behind'
      BY <1>0, <1>1, <1>2, <3>1 DEF TypeOK, Frame, Ahead, Behind, Listing
    <3>3. Complete'
      BY <1>1, <2>2, <3>1, BreakIsComplete DEF Complete, Excused
    <3>4. ~removed /\ ~interrupted => requested \subseteq all
      BY <1>0, <1>1, <2>2, <3>1, BreakIsComplete DEF Lasting, Listing
    <3>5. Lasting'
      BY <1>0, <1>1, <1>2, <3>1, <3>4 DEF Lasting, Pushed, Listing
    <3>6. DoubledOnlyByPublication' /\ RepeatedOnlyAfterLoss'
      BY <1>0, <3>1 DEF DoubledOnlyByPublication, RepeatedOnlyAfterLoss
    <3> QED BY <3>2, <3>3, <3>5, <3>6 DEF IInv
  <2> QED BY <2>1, <2>2
<1>4. CASE ReadTags
  <2>1. /\ dep \in Tagged /\ dep \notin Paged /\ pc' = "filter" /\ all' \in {PageOf(1), {}}
        /\ meanwhile' = IF PageOf(1) = published THEN meanwhile ELSE meanwhile \union {"cut"}
        /\ UNCHANGED <<dep, published, flagged, page, refs, todo, known, doubled, requested,
                       repeated, interrupted, whole, seen, removed, changes>>
    BY <1>1, <1>4 DEF ReadTags, upstream, requests, Paged, Tagged
  <2>2. /\ PageOf(1) \subseteq published
        /\ \A r \in PageOf(1) : Rank(r) < PageSize
        /\ \A r \in published \ PageOf(1) : PageSize <= Rank(r)
    <3>1. \A r \in published : Rank(r) \in Nat
      BY <1>0, RankIsNat DEF TypeOK
    <3>2. (1 - 1) * PageSize = 0 /\ 1 * PageSize = PageSize /\ PageSize \in Nat
      BY PageSizeAssumption
    <3> QED BY <3>1, <3>2 DEF PageOf
  <2>3. Listable = published /\ all' \subseteq published /\ published \subseteq Releases
    BY <1>0, <2>1, <2>2 DEF Listable, Frame, TypeOK
  <2>4. TypeOK' /\ Frame' /\ Ahead' /\ Behind'
    BY <1>0, <1>1, <1>2, <2>1, <2>3 DEF TypeOK, Frame, Ahead, Behind, Listing
  <2>5. Complete'
    <3>1. ~Excused' => PageOf(1) = published
      BY <2>1 DEF Excused
    <3>2. whole \subseteq published
      BY <1>0, <1>1, <2>3 DEF Frame, Listing
    <3> QED BY <2>1, <3>1, <3>2 DEF Complete
  <2>6. Lasting'
    <3> SUFFICES ASSUME ~removed, ~interrupted PROVE Lasting'
      BY <2>1 DEF Lasting
    <3>1. \A r \in requested \ known : PageSize <= Rank(r) /\ Rank(r) \in Nat
      BY <1>0, <1>1, RankIsNat DEF Lasting, Pushed, TypeOK
    <3>2. all' \intersect (requested \ known) = {}
      <4>1. \A r \in PageOf(1) : r \notin requested \ known
        BY <2>2, <3>1, PageSizeAssumption
      <4> QED BY <2>1, <4>1
    <3>3. all' # {} => Pushed(all)'
      BY <1>0, <1>2, <2>1, <2>2 DEF Lasting, Pushed
    <3>4. Pushed(known \union (refs \ todo))'
      BY <1>0, <1>2, <2>1 DEF Lasting, Pushed
    <3>5. meanwhile' \subseteq {"appeared", "cut"}
      BY <1>0, <2>1 DEF Lasting
    <3> QED BY <1>0, <1>1, <1>2, <2>1, <2>3, <3>2, <3>3, <3>4, <3>5 DEF Lasting
  <2>7. DoubledOnlyByPublication' /\ RepeatedOnlyAfterLoss'
    BY <1>0, <2>1 DEF DoubledOnlyByPublication, RepeatedOnlyAfterLoss
  <2> QED BY <2>4, <2>5, <2>6, <2>7 DEF IInv
<1> QED BY <1>3, <1>4 DEF Fetch

(* Every step preserves the invariant.                                     *)
LEMMA NextInvariant == IInv /\ [Next]_vars => IInv'
<1>1. ASSUME IInv, UNCHANGED vars PROVE IInv'
  <2>1. /\ TypeOK /\ Frame /\ Ahead /\ Behind /\ Complete /\ Lasting
        /\ DoubledOnlyByPublication /\ RepeatedOnlyAfterLoss
    BY <1>1 DEF IInv
  <2>2. UNCHANGED <<dep, published, flagged, pc, page, all, refs, todo, known, doubled, whole,
                    seen, meanwhile, requested, repeated, interrupted, removed, changes>>
    BY <1>1 DEF vars, upstream, job, requests, history
  <2>3. Listable' = Listable /\ \A r : Rank(r)' = Rank(r) /\ (Keeps(r)' <=> Keeps(r))
    BY <2>2 DEF Listable, Rank, Keeps
  <2>4. TypeOK' /\ Frame' /\ Ahead' /\ Behind' /\ Complete'
    BY <2>1, <2>2, <2>3 DEF TypeOK, Frame, Ahead, Behind, Complete, Excused, Listing
  <2>5. Lasting'
    BY <2>1, <2>2, <2>3 DEF Lasting, Pushed, Listing
  <2>6. DoubledOnlyByPublication' /\ RepeatedOnlyAfterLoss'
    BY <2>1, <2>2 DEF DoubledOnlyByPublication, RepeatedOnlyAfterLoss
  <2> QED BY <2>4, <2>5, <2>6 DEF IInv
<1> QED BY <1>1, MaintainInvariant, StartInvariant, FetchInvariant, FilterInvariant,
           RequestInvariant, UpdateInvariant, FailInvariant DEF Next

(* The invariant holds in every reachable state.                           *)
THEOREM InvariantHolds == Spec => []IInv
BY InitInvariant, NextInvariant, PTL DEF Spec

(* The listing's variables keep their types: a page number never exceeds   *)
(* the number of releases by more than one.                                *)
THEOREM TypeCorrect == Spec => []TypeOK
<1>1. IInv => TypeOK
  BY DEF IInv
<1> QED BY <1>1, InvariantHolds, PTL

(* A release is read twice only if one appeared during the listing.        *)
THEOREM DoublingTakesAPublication == Spec => []DoubledOnlyByPublication
<1>1. IInv => DoubledOnlyByPublication
  BY DEF IInv
<1> QED BY <1>1, InvariantHolds, PTL

(* A version is requested by two jobs only if a release was once removed,  *)
(* or a job once ended between a request and its update of the list.       *)
THEOREM RepetitionTakesALoss == Spec => []RepeatedOnlyAfterLoss
<1>1. IInv => RepeatedOnlyAfterLoss
  BY DEF IInv
<1> QED BY <1>1, InvariantHolds, PTL

-----------------------------------------------------------------------------
(* A step of a listing or after it that leaves these alone is no step of   *)
(* Snapshot.                                                               *)
LEMMA Stutters ==
  ASSUME UNCHANGED <<whole, seen, meanwhile>>, Listable' = Listable,
         \/ Listing /\ Listing'
         \/ UNCHANGED <<pc, all>>
  PROVE  UNCHANGED Reading!vars
BY DEF Reading!vars, Listing

(* What is listable changes with upstream only.                            *)
LEMMA SameListable ==
  ASSUME UNCHANGED upstream PROVE Listable' = Listable
BY DEF upstream, Listable

(* The end of a job is the end of the reading.                             *)
LEMMA EndForgets ==
  ASSUME pc \in {"fetch", "filter", "trigger"}, End, UNCHANGED upstream
  PROVE  Reading!Forget
<1>1. /\ pc' = "idle" /\ whole' = {} /\ seen' = {} /\ meanwhile' = {}
  BY DEF End
<1>2. {"deleted", "cut"} \intersect meanwhile' = {}
  BY <1>1
<1> QED BY <1>1, <1>2, SameListable DEF Reading!Forget, Reading!Forgotten

(* A request is no step of Snapshot, unless it excuses the reading: the    *)
(* query met more tags than it returns.                                    *)
LEMMA FetchImplements ==
  ASSUME IInv, Fetch PROVE Reading!Next \/ UNCHANGED Reading!vars
<1>1. /\ pc = "fetch" /\ Listing /\ Listable' = Listable
  BY SameListable DEF Fetch, Listing
<1>2. /\ pc' \in {"fetch", "filter"} /\ Listing' /\ UNCHANGED <<whole, seen>>
  BY <1>1 DEF Fetch, ReadPage, ReadTags, Append, Break, history, Listing
<1>3. CASE UNCHANGED meanwhile
  BY <1>1, <1>2, <1>3, Stutters
<1>4. CASE "cut" \in meanwhile'
  <2>1. ({"deleted", "cut"} \intersect meanwhile' # {}) = TRUE
    BY <1>4
  <2> QED BY <1>1, <1>2, <2>1 DEF Reading!Excuse, Reading!Next
<1>5. UNCHANGED meanwhile \/ "cut" \in meanwhile'
  BY DEF Fetch, ReadPage, ReadTags, Append, Break, history
<1> QED BY <1>3, <1>4, <1>5

(* What the job goes on with is the answer Snapshot promises: an empty     *)
(* list, whether or not a request failed, is none.                         *)
LEMMA FilterImplements ==
  ASSUME IInv, Filter PROVE Reading!Next
<1>1. /\ pc = "filter" /\ Listable' = Listable /\ UNCHANGED upstream /\ Listing
  BY SameListable DEF Filter, Listing
<1>2. CASE End
  BY <1>1, <1>2, EndForgets DEF Reading!Next
<1>3. CASE /\ Kept # {} /\ pc' = "trigger" /\ UNCHANGED <<all, history>>
  <2>1. all # {}
    BY <1>3 DEF Kept
  <2>2. all \subseteq seen /\ (~Excused => whole \subseteq all)
    BY <1>1, <2>1 DEF IInv, Frame, Complete
  <2>3. UNCHANGED <<whole, seen, meanwhile>>
    BY <1>3 DEF history
  <2> QED BY <1>1, <1>3, <2>2, <2>3 DEF Excused, Reading!Answer, Reading!Next
<1> QED BY <1>2, <1>3 DEF Filter

(* A change upstream is a change of what Snapshot reads.                   *)
LEMMA MaintainImplements == ASSUME IInv, Maintain PROVE Reading!Next
<1>1. TypeOK
  BY DEF IInv
<1>2. /\ UNCHANGED <<dep, pc, all>> /\ Witness /\ published' \subseteq Releases
  BY <1>1, Changed DEF job
<1>3. PICK what \in {"appeared", "hidden", "deleted"} : Happened(what)
  BY <1>1, Changed
<1>4. Listable' \in SUBSET Releases
  BY <1>2 DEF Listable
<1>5. Excused => Excused'
  BY <1>3 DEF Happened, Excused
<1>6. ({"deleted", "cut"} \intersect meanwhile' # {})
        \in {{"deleted", "cut"} \intersect meanwhile # {}, TRUE}
  <2>1. CASE Excused'
    <3>1. ({"deleted", "cut"} \intersect meanwhile' # {}) = TRUE
      BY <2>1 DEF Excused
    <3> QED BY <3>1, Zenon
  <2>2. CASE ~Excused'
    <3>1. ({"deleted", "cut"} \intersect meanwhile' # {})
            = ({"deleted", "cut"} \intersect meanwhile # {})
      BY <1>5, <2>2 DEF Excused
    <3> QED BY <3>1, Zenon
  <2> QED BY <2>1, <2>2
<1>7. ~Listing => UNCHANGED <<whole, seen, meanwhile>>
  BY <1>2, <1>3 DEF Witness, Happened
<1>8. Listing <=> pc \in {"fetch", "filter"}
  BY DEF Listing
<1>9. Reading!Change
  BY <1>1, <1>2, <1>4, <1>6, <1>7, <1>8 DEF Reading!Change, Witness, TypeOK
<1> QED BY <1>9 DEF Reading!Next

(* However upstream changes between its requests, a listing is as good as  *)
(* one reading at one instant, as Snapshot says.                           *)
THEOREM ListingImplementsSnapshot == Spec => ImplementsSnapshot
<1>1. Init => Reading!Init
  <2> SUFFICES ASSUME Init PROVE Reading!Init
    OBVIOUS
  <2>1. Listable \in SUBSET Releases /\ {"deleted", "cut"} \intersect meanwhile = {}
    BY DEF Init, Listable
  <2> QED BY <2>1 DEF Init, Reading!Init, Reading!Forgotten
<1>2. IInv /\ [Next]_vars => [Reading!Next]_(Reading!vars)
  <2> SUFFICES ASSUME IInv, [Next]_vars
               PROVE  Reading!Next \/ UNCHANGED Reading!vars
    OBVIOUS
  <2>1. CASE Start
    <3>1. /\ pc = "idle" /\ pc' = "fetch" /\ whole' = Listable /\ seen' = Listable
          /\ UNCHANGED <<upstream, meanwhile>>
      BY <2>1 DEF Start
    <3> QED BY <3>1, SameListable DEF Reading!Begin, Reading!Next
  <2>2. ASSUME NEW r \in Releases, Request(r) PROVE UNCHANGED Reading!vars
    BY <2>2, SameListable, Stutters DEF Request, history
  <2>3. CASE UpdateKnown
    BY <2>3, EndForgets DEF UpdateKnown, Reading!Next
  <2>4. CASE Fail
    <3>1. pc \in {"fetch", "filter", "trigger"}
      BY <2>4 DEF Fail, IInv, TypeOK
    <3> QED BY <2>4, <3>1, EndForgets DEF Fail, Reading!Next
  <2>5. CASE UNCHANGED vars
    BY <2>5, SameListable, Stutters DEF vars, job, history
  <2> QED
    BY <2>1, <2>2, <2>3, <2>4, <2>5, MaintainImplements, FetchImplements, FilterImplements
       DEF Next
<1> QED BY <1>1, <1>2, InvariantHolds, PTL DEF Spec, ImplementsSnapshot, Reading!Spec

=============================================================================
