--------------------------- MODULE Listings_proofs ---------------------------
(* Proofs about Listings for any documents, versions and dates.            *)
EXTENDS Listings, FiniteSetTheorems, TLAPS

StrictOrder(kept, order) ==
  /\ \A i \in kept : <<i, i>> \notin order
  /\ \A i, j \in kept : i # j => <<i, j>> \in order \/ <<j, i>> \in order
  /\ \A i, j, k \in kept : <<i, j>> \in order /\ <<j, k>> \in order => <<i, k>> \in order

Before(kept, order, i) == {j \in kept : <<j, i>> \in order}

Arranged(kept, order) == [k \in 1 .. Cardinality(kept) |-> Nth(kept, order, k)]

(* How many positions are before one.                                      *)
LEMMA Places ==
  ASSUME NEW kept, IsFiniteSet(kept), NEW order, StrictOrder(kept, order)
  PROVE  /\ Cardinality(kept) \in Nat
         /\ \A i \in kept :
              /\ IsFiniteSet(Before(kept, order, i))
              /\ Cardinality(Before(kept, order, i)) \in 0 .. Cardinality(kept) - 1
         /\ \A i, j \in kept : <<i, j>> \in order =>
              Cardinality(Before(kept, order, i)) < Cardinality(Before(kept, order, j))
<1>1. Cardinality(kept) \in Nat
  BY FS_CardinalityType
<1>2. ASSUME NEW i \in kept
      PROVE  /\ IsFiniteSet(Before(kept, order, i))
             /\ Cardinality(Before(kept, order, i)) \in 0 .. Cardinality(kept) - 1
  <2>1. Before(kept, order, i) \in SUBSET (kept \ {i})
    BY DEF Before, StrictOrder
  <2>2. IsFiniteSet(kept \ {i}) /\ Cardinality(kept \ {i}) = Cardinality(kept) - 1
    BY FS_RemoveElement
  <2>3. /\ IsFiniteSet(Before(kept, order, i))
        /\ Cardinality(Before(kept, order, i)) <= Cardinality(kept) - 1
    BY <2>1, <2>2, FS_Subset
  <2>4. Cardinality(Before(kept, order, i)) \in Nat
    BY <2>3, FS_CardinalityType
  <2> QED BY <1>1, <2>3, <2>4
<1>3. ASSUME NEW i \in kept, NEW j \in kept, <<i, j>> \in order
      PROVE  Cardinality(Before(kept, order, i)) < Cardinality(Before(kept, order, j))
  <2>1. Before(kept, order, i) \in SUBSET Before(kept, order, j)
    BY <1>3 DEF Before, StrictOrder
  <2>2. i \in Before(kept, order, j) /\ i \notin Before(kept, order, i)
    BY <1>3 DEF Before, StrictOrder
  <2>3. /\ Cardinality(Before(kept, order, i)) <= Cardinality(Before(kept, order, j))
        /\ Cardinality(Before(kept, order, i)) # Cardinality(Before(kept, order, j))
    BY <1>2, <2>1, <2>2, FS_Subset
  <2> QED BY <1>2, <2>3
<1> QED BY <1>1, <1>2, <1>3

(* The arrangement of a finite set by an order is a bijection that follows *)
(* the order.                                                              *)
LEMMA Arrangement ==
  ASSUME NEW kept, IsFiniteSet(kept), NEW order, StrictOrder(kept, order)
  PROVE  LET n == Cardinality(kept)
             a == Arranged(kept, order)
         IN  /\ n \in Nat
             /\ a \in [1 .. n -> kept]
             /\ \A i \in kept : \E k \in 1 .. n : a[k] = i
             /\ \A k \in 1 .. n : Cardinality(Before(kept, order, a[k])) = k - 1
             /\ \A k, l \in 1 .. n : k < l <=> <<a[k], a[l]>> \in order
             /\ \A k, l \in 1 .. n : a[k] = a[l] => k = l
<1> DEFINE n == Cardinality(kept)
           a == Arranged(kept, order)
           place == [i \in kept |-> Cardinality(Before(kept, order, i)) + 1]
<1>1. n \in Nat
  BY Places
<1>2. place \in [kept -> 1 .. n]
  BY <1>1, Places
<1>3. place \in Injection(kept, 1 .. n)
  <2>1. ASSUME NEW i \in kept, NEW j \in kept, place[i] = place[j]
        PROVE  i = j
    <3>1. Cardinality(Before(kept, order, i)) = Cardinality(Before(kept, order, j))
      BY <2>1, Places
    <3>2. <<i, j>> \notin order /\ <<j, i>> \notin order
      BY <3>1, Places
    <3> QED BY <3>2 DEF StrictOrder
  <2> QED BY <1>2, <2>1 DEF Injection, IsInjective
<1>4. place \in Surjection(kept, 1 .. n)
  <2>1. IsFiniteSet(1 .. n) /\ Cardinality(1 .. n) = n
    BY <1>1, FS_Interval
  <2> QED BY <1>3, <2>1, FS_Injection
<1>5. ASSUME NEW k \in 1 .. n
      PROVE  a[k] \in kept /\ Cardinality(Before(kept, order, a[k])) = k - 1
  <2>1. PICK i \in kept : place[i] = k
    BY <1>4 DEF Surjection
  <2>2. Cardinality(Before(kept, order, i)) = k - 1
    BY <2>1, Places
  <2>3. a[k] = CHOOSE j \in kept : Cardinality(Before(kept, order, j)) = k - 1
    BY DEF Arranged, Nth, Before
  <2> QED BY <2>2, <2>3
<1>6. a \in [1 .. n -> kept]
  <2>1. a = [k \in 1 .. n |-> a[k]]
    BY DEF Arranged
  <2> QED BY <1>5, <2>1
<1> HIDE DEF n, a, place
<1>7. \A i \in kept : \E k \in 1 .. n : a[k] = i
  <2> SUFFICES ASSUME NEW i \in kept
               PROVE  \E k \in 1 .. n : a[k] = i
    OBVIOUS
  <2>1. place[i] \in 1 .. n
    BY <1>2
  <2>2. a[place[i]] \in kept /\ place[a[place[i]]] = place[i]
    BY <1>1, <1>5, <2>1 DEF place
  <2> QED BY <1>3, <2>1, <2>2 DEF Injection, IsInjective
<1>8. \A k, l \in 1 .. n : a[k] = a[l] => k = l
  BY <1>1, <1>5
<1>9. ASSUME NEW k \in 1 .. n, NEW l \in 1 .. n
      PROVE  k < l <=> <<a[k], a[l]>> \in order
  <2>1. a[k] \in kept /\ a[l] \in kept
    BY <1>5
  <2>2. <<a[k], a[l]>> \in order => k < l
    BY <1>1, <1>5, <2>1, Places
  <2>3. <<a[l], a[k]>> \in order => l < k
    BY <1>1, <1>5, <2>1, Places
  <2>4. k # l => a[k] # a[l]
    BY <1>8
  <2>5. k # l => <<a[k], a[l]>> \in order \/ <<a[l], a[k]>> \in order
    BY <2>1, <2>4 DEF StrictOrder
  <2>6. <<a[k], a[k]>> \notin order
    BY <2>1 DEF StrictOrder
  <2> QED BY <1>1, <2>2, <2>3, <2>5, <2>6
<1> QED BY <1>1, <1>5, <1>6, <1>7, <1>8, <1>9 DEF n, a

Preimage(p, U) == {i \in DOMAIN p : p[i] \in U}

(* A one-to-one renaming keeps the size of every part of a finite set.     *)
LEMMA Renaming ==
  ASSUME NEW S, NEW T, IsFiniteSet(T), NEW p \in Bijection(S, T), NEW U \in SUBSET T
  PROVE  /\ IsFiniteSet(Preimage(p, U))
         /\ Cardinality(Preimage(p, U)) = Cardinality(U)
<1> DEFINE V == Preimage(p, U)
           q == [i \in V |-> p[i]]
<1>1. IsFiniteSet(U)
  BY FS_Subset
<1>2. /\ p \in [S -> T]
      /\ \A i, j \in S : p[i] = p[j] => i = j
      /\ \A t \in T : \E i \in S : p[i] = t
  BY DEF Bijection, Injection, Surjection, IsInjective
<1>3. q \in Injection(V, U)
  BY <1>2 DEF Injection, IsInjective, Preimage
<1>4. q \in Surjection(V, U)
  BY <1>2 DEF Surjection, Preimage
<1> HIDE DEF q
<1> QED BY <1>1, <1>3, <1>4, FS_Injection

(* What the columns of a row hold.                                         *)
LEMMA Columns ==
  ASSUME NEW f, NEW rows \in Seq(Rows(f)), NEW i \in DOMAIN rows
  PROVE  /\ rows[i].version \in Versions /\ rows[i].version \in Nat
         /\ TextRank[rows[i].version] \in Nat
         /\ Kind[rows[i].version] \in {"release", "other", "unversioned"}
         /\ f \in ByPattern => Kind[rows[i].version] # "unversioned"
         /\ rows[i].date \in 1 .. MaxDate /\ rows[i].date \in Nat
         /\ rows[i].note \in Notes(f) /\ rows[i].file \in Files(f)
<1>1. rows[i] \in Rows(f)
  OBVIOUS
<1>2. /\ rows[i].version \in Versions /\ rows[i].date \in 1 .. MaxDate
      /\ rows[i].note \in Notes(f) /\ rows[i].file \in Files(f)
      /\ f \in ByPattern => Kind[rows[i].version] # "unversioned"
  BY <1>1 DEF Rows
<1>3. rows[i].version \in Nat
  BY <1>2, VersionsAssumption
<1>4. TextRank[rows[i].version] \in Nat
  BY <1>2, TextRankAssumption
<1>5. Kind[rows[i].version] \in {"release", "other", "unversioned"}
  BY <1>2, KindAssumption
<1>6. rows[i].date \in Nat
  BY <1>2, BoundsAssumption
<1> QED BY <1>2, <1>3, <1>4, <1>5, <1>6

(* The positions of a document are finitely many numbers.                  *)
LEMMA Positions ==
  ASSUME NEW R, NEW rows \in Seq(R)
  PROVE  IsFiniteSet(DOMAIN rows) /\ DOMAIN rows \in SUBSET Nat
<1>1. DOMAIN rows = 1 .. Len(rows) /\ Len(rows) \in Nat
  OBVIOUS
<1> QED BY <1>1, FS_Interval

(* A part of an ordered set is ordered.                                    *)
LEMMA PartOfOrder ==
  ASSUME NEW S, NEW T \in SUBSET S, NEW order, StrictOrder(S, order)
  PROVE  StrictOrder(T, order)
BY DEF StrictOrder

(* An order of pairs that is read backwards is an order.                   *)
LEMMA BackwardsOrder ==
  ASSUME NEW S, NEW order \in SUBSET (S \X S)
  PROVE  /\ \A i, j : <<i, j>> \in Backwards(order) <=> <<j, i>> \in order
         /\ StrictOrder(S, order) => StrictOrder(S, Backwards(order))
<1>1. ASSUME NEW i, NEW j
      PROVE  <<i, j>> \in Backwards(order) <=> <<j, i>> \in order
  BY DEF Backwards
<1> QED BY <1>1 DEF StrictOrder

(* Positions that are ordered by a number, then by another one, and at     *)
(* last as they are, are strictly ordered.                                 *)
LEMMA Lexicographic ==
  ASSUME NEW D \in SUBSET Nat, NEW first \in [D -> Int], NEW second \in [D -> Int], NEW order,
         \A i, j \in D :
           <<i, j>> \in order <=>
             \/ first[i] > first[j]
             \/ first[i] = first[j] /\ second[i] > second[j]
             \/ first[i] = first[j] /\ second[i] = second[j] /\ i < j
  PROVE  StrictOrder(D, order)
<1>1. \A i \in D : i \in Nat /\ first[i] \in Int /\ second[i] \in Int
  OBVIOUS
<1> QED BY <1>1 DEF StrictOrder

(* What sort.SliceStable does with each of the comparisons.                *)
LEMMA Orders ==
  ASSUME NEW f, NEW rows \in Seq(Rows(f))
  PROVE  /\ StrictOrder(DOMAIN rows, By(rows, AsShown))
         /\ StrictOrder(DOMAIN rows, By(rows, Newer))
         /\ StrictOrder(DOMAIN rows, By(rows, NewerThenGreater))
         /\ StrictOrder(DOMAIN rows, By(rows, NewerThenText))
         /\ StrictOrder(DOMAIN rows, By(rows, OlderThenLess))
<1> DEFINE D == DOMAIN rows
           none == [i \in D |-> 0]
           new == [i \in D |-> rows[i].date]
           old == [i \in D |-> 0 - rows[i].date]
           great == [i \in D |-> rows[i].version]
           small == [i \in D |-> 0 - rows[i].version]
           text == [i \in D |-> TextRank[rows[i].version]]
<1>1. D \in SUBSET Nat
  BY Positions
<1>2. \A i \in D : /\ rows[i].date \in Nat /\ rows[i].version \in Nat
                  /\ TextRank[rows[i].version] \in Nat
  BY Columns
<1>3. /\ none \in [D -> Int] /\ new \in [D -> Int] /\ old \in [D -> Int]
      /\ great \in [D -> Int] /\ small \in [D -> Int] /\ text \in [D -> Int]
  BY <1>2
<1>4. StrictOrder(D, By(rows, AsShown))
  <2>1. \A i, j \in D :
          <<i, j>> \in By(rows, AsShown) <=>
             \/ none[i] > none[j]
             \/ none[i] = none[j] /\ none[i] > none[j]
             \/ none[i] = none[j] /\ none[i] = none[j] /\ i < j
    BY DEF By, AsShown
  <2> HIDE DEF D, none
  <2> QED BY <1>1, <1>3, <2>1, Lexicographic
<1>5. StrictOrder(D, By(rows, Newer))
  <2>1. \A i, j \in D :
          <<i, j>> \in By(rows, Newer) <=>
             \/ new[i] > new[j]
             \/ new[i] = new[j] /\ none[i] > none[j]
             \/ new[i] = new[j] /\ none[i] = none[j] /\ i < j
    BY <1>2 DEF By, Newer
  <2> HIDE DEF D, none, new
  <2> QED BY <1>1, <1>3, <2>1, Lexicographic
<1>6. StrictOrder(D, By(rows, NewerThenGreater))
  <2>1. \A i, j \in D :
          <<i, j>> \in By(rows, NewerThenGreater) <=>
             \/ new[i] > new[j]
             \/ new[i] = new[j] /\ great[i] > great[j]
             \/ new[i] = new[j] /\ great[i] = great[j] /\ i < j
    BY <1>2 DEF By, Newer, NewerThenGreater
  <2> HIDE DEF D, great, new
  <2> QED BY <1>1, <1>3, <2>1, Lexicographic
<1>7. StrictOrder(D, By(rows, NewerThenText))
  <2>1. \A i, j \in D :
          <<i, j>> \in By(rows, NewerThenText) <=>
             \/ new[i] > new[j]
             \/ new[i] = new[j] /\ text[i] > text[j]
             \/ new[i] = new[j] /\ text[i] = text[j] /\ i < j
    BY <1>2 DEF By, Newer, NewerThenText
  <2> HIDE DEF D, text, new
  <2> QED BY <1>1, <1>3, <2>1, Lexicographic
<1>8. StrictOrder(D, By(rows, OlderThenLess))
  <2>1. \A i, j \in D :
          <<i, j>> \in By(rows, OlderThenLess) <=>
             \/ old[i] > old[j]
             \/ old[i] = old[j] /\ small[i] > small[j]
             \/ old[i] = old[j] /\ small[i] = small[j] /\ i < j
    BY <1>2 DEF By, OlderThenLess
  <2> HIDE DEF D, small, old
  <2> QED BY <1>1, <1>3, <2>1, Lexicographic
<1> QED BY <1>4, <1>5, <1>6, <1>7, <1>8

-----------------------------------------------------------------------------
(* What the listings have in common: which rows each family keeps, how it  *)
(* arranges them and when it fails.                                        *)
Kept(f, rows) ==
  CASE f = "dotnet" -> DotnetVersions(rows)
    [] f = "pypi" -> PyPiReleases(rows)
    [] f = "node" -> DOMAIN rows
    [] OTHER -> Releases(rows)

Order(f, rows) ==
  CASE f = "dotnet" -> Backwards(By(rows, OlderThenLess))
    [] f \in {"httpd", "pypi"} -> By(rows, NewerThenGreater)
    [] f \in {"php", "icu"} -> By(rows, NewerThenText)
    [] f \in {"curl", "go", "node"} -> By(rows, Newer)
    [] OTHER -> By(rows, AsShown)

Uncomparable(rows, kept) ==
  \E i, j \in kept :
    /\ i # j /\ rows[i].date = rows[j].date
    /\ Kind[rows[i].version] = "unversioned"

Refused(f, rows) ==
  CASE f = "dotnet" -> ~Versioned(rows)
    [] f \in {"httpd", "php"} -> ~Readable(rows, Releases(rows))
    [] f = "pypi" -> ~Readable(rows, PyPiReleases(rows)) \/ Uncomparable(rows, PyPiReleases(rows))
    [] f = "icu" -> ~Readable(rows, DOMAIN rows)
    [] f = "curl" -> ~CurlParses(rows)
    [] OTHER -> FALSE

(* A finite ordered set has a first element.                               *)
LEMMA FirstOne ==
  ASSUME NEW T, IsFiniteSet(T), T # {}, NEW order, StrictOrder(T, order)
  PROVE  \E i \in T : \A j \in T \ {i} : <<i, j>> \in order
<1> DEFINE n == Cardinality(T)
           a == Arranged(T, order)
<1>1. /\ n \in Nat
      /\ a \in [1 .. n -> T]
      /\ \A i \in T : \E k \in 1 .. n : a[k] = i
      /\ \A k \in 1 .. n : Cardinality(Before(T, order, a[k])) = k - 1
  BY Arrangement
<1> HIDE DEF n, a
<1>2. 1 \in 1 .. n /\ a[1] \in T /\ Cardinality(Before(T, order, a[1])) = 0
  BY <1>1
<1>3. Before(T, order, a[1]) = {}
  BY <1>2, Places, FS_EmptySet
<1>4. \A j \in T \ {a[1]} : <<a[1], j>> \in order
  BY <1>2, <1>3 DEF Before, StrictOrder
<1> QED BY <1>2, <1>4

(* The maps uniqueVersions keep one row of each version.                   *)
LEMMA FirstOfEachVersion ==
  ASSUME NEW rows, NEW kept, IsFiniteSet(kept), NEW order, StrictOrder(kept, order)
  PROVE  /\ FirstOfEach(rows, kept, order) \in SUBSET kept
         /\ \A i, j \in FirstOfEach(rows, kept, order) :
              rows[i].version = rows[j].version => i = j
         /\ \A i \in kept : \E j \in FirstOfEach(rows, kept, order) :
              rows[j].version = rows[i].version
         /\ (\A i, j \in kept : rows[i].version = rows[j].version => i = j)
              => FirstOfEach(rows, kept, order) = kept
<1>1. FirstOfEach(rows, kept, order) \in SUBSET kept
  BY DEF FirstOfEach
<1>2. \A i, j \in FirstOfEach(rows, kept, order) : rows[i].version = rows[j].version => i = j
  BY DEF FirstOfEach, StrictOrder
<1>3. ASSUME NEW i \in kept
      PROVE  \E j \in FirstOfEach(rows, kept, order) : rows[j].version = rows[i].version
  <2> DEFINE T == {j \in kept : rows[j].version = rows[i].version}
  <2>1. T \in SUBSET kept /\ i \in T
    OBVIOUS
  <2>2. PICK j \in T : \A l \in T \ {j} : <<j, l>> \in order
    <3> HIDE DEF T
    <3>1. IsFiniteSet(T) /\ StrictOrder(T, order)
      BY <2>1, FS_Subset, PartOfOrder
    <3> QED BY <2>1, <3>1, FirstOne
  <2> QED BY <2>2 DEF FirstOfEach
<1>4. ASSUME \A i, j \in kept : rows[i].version = rows[j].version => i = j
      PROVE  FirstOfEach(rows, kept, order) = kept
  BY <1>4 DEF FirstOfEach
<1> QED BY <1>1, <1>2, <1>3, <1>4

(* The last row of each version in each channel.                           *)
LastRows(rows) ==
  {i \in Releases(rows) : \A j \in Releases(rows) :
     (rows[j].version = rows[i].version /\ rows[j].file = rows[i].file) => j <= i}

(* Of each version of .NET the last row of every channel is read, and the  *)
(* oldest of these kept.                                                   *)
LEMMA DotnetKeeps ==
  ASSUME NEW rows \in Seq(Rows("dotnet"))
  PROVE  /\ UNION {VersionsForChannel(rows, channel) : channel \in Channels} = LastRows(rows)
         /\ DotnetVersions(rows) \in SUBSET LastRows(rows)
         /\ \A i, j \in DotnetVersions(rows) : rows[i].version = rows[j].version => i = j
         /\ \A i \in Releases(rows) : \E j \in DotnetVersions(rows) :
              rows[j].version = rows[i].version
         /\ \A i \in DotnetVersions(rows), j \in LastRows(rows) :
              rows[i].version = rows[j].version => rows[i].date <= rows[j].date
<1> DEFINE R == Releases(rows)
           C(channel) == {i \in R : rows[i].file = channel}
           shown == By(rows, AsShown)
           older == By(rows, OlderThenLess)
           V(channel) == VersionsForChannel(rows, channel)
           L == LastRows(rows)
           K == DotnetVersions(rows)
<1>1. R \in SUBSET DOMAIN rows /\ R \in SUBSET Nat /\ IsFiniteSet(R)
  <2>1. R \in SUBSET DOMAIN rows
    BY DEF Releases
  <2> QED BY <2>1, Positions, FS_Subset
<1>2. \A i \in R : rows[i].file \in Channels
  BY <1>1, Columns DEF Files
<1>3. shown \in SUBSET ((DOMAIN rows) \X (DOMAIN rows)) /\ StrictOrder(DOMAIN rows, shown)
  <2>1. shown \in SUBSET ((DOMAIN rows) \X (DOMAIN rows))
    BY DEF By
  <2> QED BY <2>1, Orders
<1>4. /\ \A i, j : <<i, j>> \in Backwards(shown) <=> <<j, i>> \in shown
      /\ StrictOrder(DOMAIN rows, Backwards(shown))
  BY <1>3, BackwardsOrder
<1>5. \A i, j \in DOMAIN rows : <<i, j>> \in shown <=> i < j
  BY DEF By, AsShown
<1> HIDE DEF R, shown
<1>6. ASSUME NEW channel
      PROVE  /\ V(channel) \in SUBSET C(channel)
             /\ \A i \in C(channel) : \E j \in V(channel) : rows[j].version = rows[i].version
             /\ V(channel) = {i \in C(channel) :
                                \A j \in C(channel) : rows[j].version = rows[i].version => j <= i}
  <2>1. C(channel) \in SUBSET R
    OBVIOUS
  <2>2. V(channel) = FirstOfEach(rows, C(channel), Backwards(shown))
    BY DEF VersionsForChannel, R, shown
  <2> HIDE DEF C, V
  <2>3. C(channel) \in SUBSET DOMAIN rows /\ C(channel) \in SUBSET Nat /\ IsFiniteSet(C(channel))
    BY <1>1, <2>1, FS_Subset
  <2>4. StrictOrder(C(channel), Backwards(shown))
    BY <1>4, <2>3, PartOfOrder
  <2>5. /\ V(channel) \in SUBSET C(channel)
        /\ \A i \in C(channel) : \E j \in V(channel) : rows[j].version = rows[i].version
    BY <2>2, <2>3, <2>4, FirstOfEachVersion
  <2>6. ASSUME NEW i \in C(channel), NEW j \in C(channel)
        PROVE  (j # i => <<i, j>> \in Backwards(shown)) <=> j <= i
    <3>1. i \in DOMAIN rows /\ j \in DOMAIN rows /\ i \in Nat /\ j \in Nat
      BY <2>3
    <3>2. <<i, j>> \in Backwards(shown) <=> j < i
      BY <1>4, <1>5, <3>1
    <3> QED BY <3>1, <3>2
  <2>7. V(channel) = {i \in C(channel) :
                        \A j \in C(channel) : rows[j].version = rows[i].version => j <= i}
    BY <2>2, <2>6 DEF FirstOfEach
  <2> QED BY <2>5, <2>7
<1>7. UNION {V(channel) : channel \in Channels} = L
  <2>1. ASSUME NEW channel \in Channels, NEW i \in V(channel)
        PROVE  i \in L
    <3>1. /\ i \in C(channel)
          /\ \A j \in C(channel) : rows[j].version = rows[i].version => j <= i
      BY <1>6 DEF V
    <3> QED BY <3>1 DEF LastRows, R
  <2>2. ASSUME NEW i \in L
        PROVE  \E channel \in Channels : i \in V(channel)
    <3>1. i \in C(rows[i].file) /\ rows[i].file \in Channels
      BY <1>2 DEF LastRows, R
    <3>2. i \in V(rows[i].file)
      BY <1>6, <3>1 DEF LastRows, R
    <3> QED BY <3>1, <3>2
  <2> QED BY <2>1, <2>2
<1>8. K = FirstOfEach(rows, L, older)
  BY <1>7 DEF DotnetVersions
<1>9. L \in SUBSET R /\ L \in SUBSET DOMAIN rows /\ IsFiniteSet(L)
  <2>1. L \in SUBSET R
    BY DEF LastRows, R
  <2> QED BY <1>1, <2>1, FS_Subset
<1>10. StrictOrder(L, older)
  BY <1>9, Orders, PartOfOrder
<1>11. \A i \in R : \E j \in L : rows[j].version = rows[i].version
  <2> SUFFICES ASSUME NEW i \in R
               PROVE  \E j \in L : rows[j].version = rows[i].version
    OBVIOUS
  <2>1. PICK j \in V(rows[i].file) : rows[j].version = rows[i].version
    BY <1>6
  <2>2. j \in L
    BY <1>2, <1>7
  <2> QED BY <2>1, <2>2
<1> HIDE DEF C, V, L, K
<1>12. /\ K \in SUBSET L
       /\ \A i, j \in K : rows[i].version = rows[j].version => i = j
       /\ \A i \in L : \E j \in K : rows[j].version = rows[i].version
  <2> HIDE DEF older
  <2> QED BY <1>8, <1>9, <1>10, FirstOfEachVersion
<1>13. ASSUME NEW i \in K, NEW j \in L, rows[i].version = rows[j].version
       PROVE  rows[i].date <= rows[j].date
  <2>1. i \in L /\ i \in DOMAIN rows /\ j \in DOMAIN rows
    BY <1>9, <1>12
  <2>2. rows[i].date \in Nat /\ rows[j].date \in Nat
    BY <2>1, Columns
  <2>3. CASE j = i
    BY <2>2, <2>3
  <2>4. CASE j # i
    <3>1. <<i, j>> \in older
      BY <1>8, <1>13, <2>4 DEF FirstOfEach
    <3>2. OlderThenLess(rows[i], rows[j]) \/ ~OlderThenLess(rows[j], rows[i])
      BY <3>1 DEF By
    <3> QED BY <2>2, <3>2 DEF OlderThenLess
  <2> QED BY <2>3, <2>4
<1>14. \A i \in R : \E j \in K : rows[j].version = rows[i].version
  BY <1>11, <1>12
<1> QED BY <1>7, <1>12, <1>13, <1>14 DEF R, V, L, K

(* Every listing keeps some rows and arranges them, or fails.              *)
LEMMA ListingShape ==
  ASSUME NEW f \in Families, NEW rows \in Seq(Rows(f))
  PROVE  Listing(f, rows) =
           IF Refused(f, rows) THEN Failed ELSE VersionsOf(rows, Kept(f, rows), Order(f, rows))
<1> USE DEF Listing, Refused, Kept, Order
<1>0. f \in {"dotnet", "httpd", "php", "pypi", "icu", "curl", "go", "node",
             "python", "bundler", "ruby", "pecl"}
  BY FamiliesAssumption
<1>1. CASE f = "dotnet"
  BY <1>1 DEF DotnetListing
<1>2. CASE f = "httpd"
  BY <1>2 DEF HttpdListing
<1>3. CASE f = "php"
  BY <1>3 DEF PhpListing
<1>4. CASE f = "pypi"
  BY <1>4 DEF PyPiListing, Uncomparable
<1>5. CASE f = "icu"
  BY <1>5 DEF IcuListing
<1>6. CASE f = "curl"
  BY <1>6 DEF CurlListing
<1>7. CASE f = "go"
  BY <1>7 DEF GoListing
<1>8. CASE f = "node"
  BY <1>8 DEF NodeListing
<1>9. CASE f = "python"
  BY <1>9 DEF PythonListing
<1>10. CASE f = "bundler"
  BY <1>10 DEF BundlerListing
<1>11. CASE f = "ruby"
  BY <1>11 DEF RubyListing
<1>12. CASE f = "pecl"
  BY <1>12 DEF PeclListing
<1> QED BY <1>0, <1>1, <1>2, <1>3, <1>4, <1>5, <1>6, <1>7, <1>8, <1>9, <1>10, <1>11, <1>12

(* What a listing keeps is finite and strictly ordered.                    *)
LEMMA KeptIsOrdered ==
  ASSUME NEW f \in Families, NEW rows \in Seq(Rows(f))
  PROVE  /\ Kept(f, rows) \in SUBSET DOMAIN rows
         /\ IsFiniteSet(Kept(f, rows))
         /\ StrictOrder(Kept(f, rows), Order(f, rows))
<1>1. Kept(f, rows) \in SUBSET DOMAIN rows
  <2>1. f = "dotnet" => DotnetVersions(rows) \in SUBSET Releases(rows)
    BY DotnetKeeps DEF LastRows
  <2> QED BY <2>1 DEF Kept, Releases, PyPiReleases
<1>2. StrictOrder(DOMAIN rows, Order(f, rows))
  <2>1. By(rows, OlderThenLess) \in SUBSET ((DOMAIN rows) \X (DOMAIN rows))
    BY DEF By
  <2>2. StrictOrder(DOMAIN rows, Backwards(By(rows, OlderThenLess)))
    BY <2>1, Orders, BackwardsOrder
  <2> QED BY <2>2, Orders DEF Order
<1>3. IsFiniteSet(Kept(f, rows))
  BY <1>1, Positions, FS_Subset
<1> QED BY <1>1, <1>2, <1>3, PartOfOrder

(* The list that a set of positions and an order stand for.                *)
LEMMA VersionsInOrder ==
  ASSUME NEW f, NEW rows \in Seq(Rows(f)), NEW kept \in SUBSET DOMAIN rows, IsFiniteSet(kept),
         NEW order, StrictOrder(kept, order)
  PROVE  /\ VersionsOf(rows, kept, order) \in Seq(Versions)
         /\ DOMAIN VersionsOf(rows, kept, order) = 1 .. Cardinality(kept)
         /\ \A k \in 1 .. Cardinality(kept) :
              VersionsOf(rows, kept, order)[k] = rows[Arranged(kept, order)[k]].version
<1> DEFINE n == Cardinality(kept)
           a == Arranged(kept, order)
           s == VersionsOf(rows, kept, order)
<1>1. n \in Nat /\ a \in [1 .. n -> kept]
  BY Arrangement
<1>2. s = [k \in 1 .. n |-> rows[a[k]].version]
  BY DEF VersionsOf, Arranged
<1> HIDE DEF n, a, s
<1>3. \A k \in 1 .. n : rows[a[k]].version \in Versions
  BY <1>1, Columns
<1> QED BY <1>1, <1>2, <1>3 DEF n, a, s

Count(s, v) == Cardinality({k \in DOMAIN s : s[k] = v})

(* A version is listed as often as it is kept.                             *)
LEMMA TimesListed ==
  ASSUME NEW f, NEW rows \in Seq(Rows(f)), NEW kept \in SUBSET DOMAIN rows, IsFiniteSet(kept),
         NEW order, StrictOrder(kept, order), NEW v
  PROVE  Count(VersionsOf(rows, kept, order), v) =
           Cardinality({i \in kept : rows[i].version = v})
<1> DEFINE n == Cardinality(kept)
           a == Arranged(kept, order)
           s == VersionsOf(rows, kept, order)
           U == {i \in kept : rows[i].version = v}
<1>1. /\ n \in Nat
      /\ a \in [1 .. n -> kept]
      /\ \A i \in kept : \E k \in 1 .. n : a[k] = i
      /\ \A k, l \in 1 .. n : a[k] = a[l] => k = l
  BY Arrangement
<1>2. DOMAIN s = 1 .. n /\ \A k \in 1 .. n : s[k] = rows[a[k]].version
  BY VersionsInOrder
<1> HIDE DEF n, a, s
<1>3. a \in Bijection(1 .. n, kept)
  BY <1>1 DEF Bijection, Injection, Surjection, IsInjective
<1>4. U \in SUBSET kept
  OBVIOUS
<1>5. Cardinality(Preimage(a, U)) = Cardinality(U)
  <2> HIDE DEF U
  <2> QED BY <1>3, <1>4, Renaming
<1>6. {k \in DOMAIN s : s[k] = v} = Preimage(a, U)
  BY <1>1, <1>2 DEF Preimage
<1> QED BY <1>5, <1>6 DEF Count, s

(* What is kept is what is owed, and of .NET one row of each version.      *)
LEMMA KeptIsOwed ==
  ASSUME family \in Families, NEW rows \in Seq(Rows(family))
  PROVE  /\ \A i \in Kept(family, rows) : Owed(rows[i])
         /\ family # "dotnet" => Kept(family, rows) = {i \in DOMAIN rows : Owed(rows[i])}
         /\ family = "dotnet" =>
              /\ Releases(rows) = {i \in DOMAIN rows : Owed(rows[i])}
              /\ Kept(family, rows) = DotnetVersions(rows)
<1>1. \A i \in DOMAIN rows : family # "pypi" => rows[i].note # "wheel"
  BY Columns DEF Notes
<1>2. family = "dotnet" => DotnetVersions(rows) \in SUBSET Releases(rows)
  BY DotnetKeeps DEF LastRows
<1> QED BY <1>1, <1>2 DEF Kept, Owed, Releases, PyPiReleases

(* ListingIsComplete of a listing that read the document in its own order. *)
LEMMA Completeness ==
  ASSUME family \in Families, listed \in Seq(Rows(family)), refs = Listing(family, listed)
  PROVE  ListingIsComplete
<1> DEFINE kept == Kept(family, listed)
           order == Order(family, listed)
<1>0. kept \in SUBSET DOMAIN listed /\ IsFiniteSet(kept) /\ StrictOrder(kept, order)
  BY KeptIsOrdered
<1>1. refs = IF Refused(family, listed) THEN Failed ELSE VersionsOf(listed, kept, order)
  BY ListingShape
<1>2. VersionsOf(listed, kept, order) \in Seq(Versions)
  BY <1>0, VersionsInOrder
<1>3. CASE Refused(family, listed)
  <2>1. Malformed(listed)
    BY <1>3, Columns
       DEF Refused, Malformed, Readable, Versioned, Releases, PyPiReleases, CurlParses, Uncomparable
  <2> QED BY <1>1, <1>3, <2>1 DEF ListingIsComplete
<1>4. CASE ~Refused(family, listed)
  <2>1. refs # Failed
    BY <1>1, <1>2, <1>4, NoResultAssumption
  <2>2. ASSUME NEW v \in Versions
        PROVE  LET owed == Times(listed, LAMBDA row : row.version = v /\ Owed(row))
               IN  Times(refs, LAMBDA r : r = v) =
                     IF family = "dotnet" /\ owed > 0 THEN 1 ELSE owed
    <3> DEFINE mine == {i \in kept : listed[i].version = v}
               own == {i \in DOMAIN listed : listed[i].version = v /\ Owed(listed[i])}
    <3>1. Times(refs, LAMBDA r : r = v) = Cardinality(mine)
      <4> HIDE DEF kept, order
      <4>1. Count(refs, v) = Cardinality(mine)
        BY <1>0, <1>1, <1>4, TimesListed
      <4> QED BY <4>1 DEF Count, Times
    <3>2. Times(listed, LAMBDA row : row.version = v /\ Owed(row)) = Cardinality(own)
      BY DEF Times
    <3>3. CASE family # "dotnet"
      <4>1. mine = own
        BY <3>3, KeptIsOwed
      <4> QED BY <3>1, <3>2, <3>3, <4>1
    <3>4. CASE family = "dotnet"
      <4>1. /\ kept = DotnetVersions(listed)
            /\ Releases(listed) = {i \in DOMAIN listed : Owed(listed[i])}
            /\ \A i \in kept : Owed(listed[i])
        BY <3>4, KeptIsOwed
      <4>2. IsFiniteSet(own) /\ IsFiniteSet(mine)
        <5>1. IsFiniteSet(DOMAIN listed)
          BY Positions
        <5> QED BY <1>0, <5>1, FS_Subset
      <4>3. CASE own = {}
        <5>1. mine = {}
          BY <1>0, <4>1, <4>3
        <5>2. Cardinality(own) = 0 /\ Cardinality(mine) = 0
          BY <4>3, <5>1, FS_EmptySet
        <5> QED BY <3>1, <3>2, <5>2
      <4>4. CASE own # {}
        <5>1. PICK i \in own : TRUE
          BY <4>4
        <5>2. PICK j \in kept : listed[j].version = v
          BY <3>4, <4>1, <5>1, DotnetKeeps
        <5>3. mine = {j}
          BY <3>4, <4>1, <5>2, DotnetKeeps
        <5>4. Cardinality(mine) = 1
          BY <5>3, FS_Singleton
        <5>5. Cardinality(own) \in Nat /\ Cardinality(own) # 0
          BY <4>2, <4>4, FS_CardinalityType, FS_EmptySet
        <5> QED BY <3>1, <3>2, <3>4, <5>4, <5>5
      <4> QED BY <4>3, <4>4
    <3> QED BY <3>3, <3>4
  <2> QED BY <2>1, <2>2 DEF ListingIsComplete
<1> QED BY <1>3, <1>4

(* A kept row dates its version.                                           *)
LEMMA KeptIsDating ==
  ASSUME family \in Families, listed \in Seq(Rows(family)), Document(family, listed),
         NEW i \in Kept(family, listed)
  PROVE  i \in Dating(listed[i].version)
<1> DEFINE rows == {j \in DOMAIN listed : listed[j].version = listed[i].version /\ Owed(listed[j])}
           last == {j \in rows : \A l \in rows : listed[l].file = listed[j].file => l <= j}
<1>1. i \in DOMAIN listed /\ Owed(listed[i]) /\ i \in Nat /\ listed[i].date \in Nat
  BY KeptIsOrdered, KeptIsOwed, Positions, Columns
<1>2. i \in rows
  BY <1>1
<1>3. CASE family = "pypi"
  BY <1>2, <1>3 DEF Dating
<1>4. CASE family = "dotnet"
  <2>1. /\ i \in DotnetVersions(listed)
        /\ Releases(listed) = {j \in DOMAIN listed : Owed(listed[j])}
    BY <1>4, KeptIsOwed
  <2>2. last \in SUBSET LastRows(listed)
    BY <2>1 DEF LastRows
  <2>3. i \in LastRows(listed)
    BY <1>4, <2>1, DotnetKeeps
  <2>4. i \in last
    BY <1>2, <2>1, <2>3 DEF LastRows
  <2>5. \A j \in last : listed[i].date <= listed[j].date
    BY <1>4, <2>1, <2>2, DotnetKeeps
  <2> QED BY <1>4, <2>4, <2>5 DEF Dating
<1>5. CASE family \notin {"dotnet", "pypi"}
  <2>1. \A j \in rows : j = i
    BY <1>1, <1>5 DEF Document
  <2>2. i \in last
    BY <1>1, <1>2, <2>1
  <2> QED BY <1>1, <1>5, <2>1, <2>2 DEF Dating
<1> QED BY <1>3, <1>4, <1>5

(* The order of a listing is the one its readers expect.                   *)
LEMMA OrderBelongs ==
  ASSUME family \in Families, listed \in Seq(Rows(family)), Document(family, listed),
         NEW i \in Kept(family, listed), NEW j \in Kept(family, listed), i # j,
         <<i, j>> \in Order(family, listed)
  PROVE  BelongsBefore(i, j)
<1> DEFINE a == listed[i]
           b == listed[j]
<1>1. /\ i \in DOMAIN listed /\ j \in DOMAIN listed
      /\ i \in Nat /\ j \in Nat
  BY KeptIsOrdered, Positions
<1>2. /\ a.date \in Nat /\ b.date \in Nat /\ a.version \in Nat /\ b.version \in Nat
      /\ a.version \in Versions /\ b.version \in Versions
      /\ TextRank[a.version] \in Nat /\ TextRank[b.version] \in Nat
  BY <1>1, Columns
<1>3. CASE family \in InPageOrder
  <2>1. <<i, j>> \in By(listed, AsShown)
    BY <1>3 DEF Order, InPageOrder
  <2>2. i < j
    BY <2>1 DEF By, AsShown
  <2> QED BY <1>3, <2>2 DEF BelongsBefore
<1>4. CASE family = "dotnet"
  <2>1. By(listed, OlderThenLess) \in SUBSET ((DOMAIN listed) \X (DOMAIN listed))
    BY DEF By
  <2>2. <<j, i>> \in By(listed, OlderThenLess)
    BY <1>4, <2>1, BackwardsOrder DEF Order
  <2>3. OlderThenLess(b, a) \/ ~OlderThenLess(a, b)
    BY <2>2 DEF By
  <2>4. a.date > b.date \/ (a.date = b.date /\ a.version >= b.version)
    BY <1>2, <2>3 DEF OlderThenLess
  <2> QED BY <1>2, <1>4, <2>4 DEF BelongsBefore, InPageOrder
<1>5. CASE family \in {"httpd", "pypi"}
  <2>1. <<i, j>> \in By(listed, NewerThenGreater)
    BY <1>5 DEF Order
  <2>2. NewerThenGreater(a, b) \/ ~NewerThenGreater(b, a)
    BY <2>1 DEF By
  <2>3. a.date > b.date \/ (a.date = b.date /\ a.version >= b.version)
    BY <1>2, <2>2 DEF NewerThenGreater, Newer
  <2> QED BY <1>2, <1>5, <2>3 DEF BelongsBefore, InPageOrder
<1>6. CASE family \in {"php", "icu"}
  <2>1. <<i, j>> \in By(listed, NewerThenText)
    BY <1>6 DEF Order
  <2>2. NewerThenText(a, b) \/ ~NewerThenText(b, a)
    BY <2>1 DEF By
  <2>3. a.date > b.date \/ (a.date = b.date /\ TextRank[a.version] >= TextRank[b.version])
    BY <1>2, <2>2 DEF NewerThenText, Newer
  <2>4. a.version # b.version
    BY <1>1, <1>6 DEF Document
  <2>5. TextRank[a.version] # TextRank[b.version]
    BY <1>2, <2>4, TextRankAssumption
  <2> QED BY <1>2, <1>6, <2>3, <2>5 DEF BelongsBefore, InPageOrder
<1>7. CASE family \in {"curl", "go", "node"}
  <2>1. <<i, j>> \in By(listed, Newer)
    BY <1>7 DEF Order
  <2>2. Newer(a, b) \/ (~Newer(b, a) /\ i < j)
    BY <2>1 DEF By
  <2>3. a.date > b.date \/ (a.date = b.date /\ i < j)
    BY <1>2, <2>2 DEF Newer
  <2> QED BY <1>2, <1>7, <2>3 DEF BelongsBefore, InPageOrder
<1> QED BY <1>3, <1>4, <1>5, <1>6, <1>7, FamiliesAssumption DEF InPageOrder

(* NewestFirst of a listing that read the document in its own order.       *)
LEMMA Orderliness ==
  ASSUME family \in Families, listed \in Seq(Rows(family)), Document(family, listed),
         refs = Listing(family, listed)
  PROVE  NewestFirst
<1> DEFINE kept == Kept(family, listed)
           order == Order(family, listed)
           n == Cardinality(kept)
           a == Arranged(kept, order)
<1> SUFFICES ASSUME refs # Failed, NEW k \in DOMAIN refs, NEW l \in DOMAIN refs, k < l
             PROVE  \E i \in Dating(refs[k]), j \in Dating(refs[l]) : BelongsBefore(i, j)
  BY DEF NewestFirst
<1>0. kept \in SUBSET DOMAIN listed /\ IsFiniteSet(kept) /\ StrictOrder(kept, order)
  BY KeptIsOrdered
<1>1. refs = VersionsOf(listed, kept, order)
  BY ListingShape
<1> HIDE DEF kept, order
<1>2. DOMAIN refs = 1 .. n /\ \A m \in 1 .. n : refs[m] = listed[a[m]].version
  BY <1>0, <1>1, VersionsInOrder
<1>3. /\ a \in [1 .. n -> kept]
      /\ \A m, o \in 1 .. n : m < o <=> <<a[m], a[o]>> \in order
      /\ \A m, o \in 1 .. n : a[m] = a[o] => m = o
      /\ n \in Nat
  BY <1>0, Arrangement
<1> HIDE DEF n, a
<1>4. /\ a[k] \in kept /\ a[l] \in kept /\ <<a[k], a[l]>> \in order /\ a[k] # a[l]
      /\ refs[k] = listed[a[k]].version /\ refs[l] = listed[a[l]].version
  BY <1>2, <1>3
<1>5. a[k] \in Dating(refs[k]) /\ a[l] \in Dating(refs[l])
  BY <1>4, KeptIsDating DEF kept
<1>6. BelongsBefore(a[k], a[l])
  BY <1>4, OrderBelongs DEF kept, order
<1> QED BY <1>5, <1>6

-----------------------------------------------------------------------------
(* The rows that may date a version, those among them that the code should *)
(* find, and what a good answer about a version is.                        *)
Own(v) == {i \in DOMAIN doc : OwnRow(doc[i], v)}

Findable(v) == {i \in Own(v) : family = "dotnet" => InNamedFile(doc[i])}

GoodDate(v, d) ==
  IF d \in {Failed, Nothing} THEN Findable(v) = {} \/ Malformed(doc)
  ELSE \E i \in Own(v) : doc[i].date = d

(* A loop that meets the version's own rows only, and all that it should   *)
(* find, answers well.                                                     *)
LEMMA FirstDateIsGood ==
  ASSUME doc \in Seq(Rows(family)), NEW kept \in SUBSET DOMAIN doc, NEW v,
         NEW missing \in {Failed, Nothing},
         {i \in kept : doc[i].version = v} \in SUBSET Own(v),
         Findable(v) \in SUBSET {i \in kept : doc[i].version = v}
  PROVE  GoodDate(v, FirstDate(doc, kept, v, missing))
<1> DEFINE found == {i \in kept : doc[i].version = v}
           first == CHOOSE i \in found : \A j \in found : i <= j
<1>1. CASE found = {}
  BY <1>1 DEF FirstDate, GoodDate
<1>2. CASE found # {}
  <2>1. /\ found \in SUBSET DOMAIN doc /\ found \in SUBSET Nat /\ IsFiniteSet(found)
    <3>1. found \in SUBSET DOMAIN doc
      OBVIOUS
    <3> HIDE DEF found
    <3> QED BY <3>1, Positions, FS_Subset
  <2>2. StrictOrder(DOMAIN doc, By(doc, AsShown))
    BY Orders
  <2>3. StrictOrder(found, By(doc, AsShown))
    <3> HIDE DEF found
    <3> QED BY <2>1, <2>2, PartOfOrder
  <2>4. PICK i \in found : \A j \in found \ {i} : <<i, j>> \in By(doc, AsShown)
    <3> HIDE DEF found
    <3> QED BY <1>2, <2>1, <2>3, FirstOne
  <2>5. \A j \in found : i <= j
    <3>1. \A j \in found \ {i} : i < j
      BY <2>1, <2>4 DEF By, AsShown
    <3> QED BY <2>1, <3>1
  <2>6. first \in found
    BY <2>5
  <2>7. FirstDate(doc, kept, v, missing) =
          IF doc[first].note = "unreadable" THEN Failed ELSE doc[first].date
    BY <1>2 DEF FirstDate
  <2> HIDE DEF first
  <2>8. doc[first].date \notin {Failed, Nothing}
    BY <2>1, <2>6, Columns, NoResultAssumption
  <2>9. doc[first].note = "unreadable" => Malformed(doc)
    BY <2>1, <2>6 DEF Malformed, Readable
  <2> QED BY <2>6, <2>7, <2>8, <2>9 DEF GoodDate
<1> QED BY <1>1, <1>2

(* Every family but Python's answers well about a version that may be      *)
(* listed.                                                                 *)
LEMMA DateIsGood ==
  ASSUME family \in Families, doc \in Seq(Rows(family)), Document(family, doc),
         NEW v \in Versions, family = "node" \/ Kind[v] # "other", family # "python"
  PROVE  GoodDate(v, ReleaseDate(family, doc, v))
<1>0. \A i \in DOMAIN doc : family # "pypi" => doc[i].note # "wheel"
  BY Columns DEF Notes
<1>1. DOMAIN doc \in SUBSET DOMAIN doc /\ Releases(doc) \in SUBSET DOMAIN doc
  BY DEF Releases
<1>2. family \notin {"pypi", "python"} => {i \in DOMAIN doc : doc[i].version = v} = Own(v)
  BY <1>0 DEF Own, OwnRow, Owed
<1>3. family \notin {"pypi", "node", "python"} =>
        {i \in Releases(doc) : doc[i].version = v} = Own(v)
  BY <1>0 DEF Own, OwnRow, Owed, Releases
<1>4. (Malformed(doc) => GoodDate(v, Failed)) /\ Findable(v) \in SUBSET Own(v)
  BY DEF GoodDate, Findable
<1>5. family \notin {"pypi", "node", "python"} =>
        GoodDate(v, FirstDate(doc, Releases(doc), v, Failed))
  BY <1>1, <1>3, <1>4, FirstDateIsGood
<1>6. family \notin {"pypi", "python"} => GoodDate(v, FirstDate(doc, DOMAIN doc, v, Failed))
  BY <1>1, <1>2, <1>4, FirstDateIsGood
<1>7. CASE family = "dotnet"
  <2> DEFINE kept == {i \in DOMAIN doc : doc[i].file = ChannelVersion(v)}
  <2>1. CASE ChannelVersion(v) \in Channels
    <3>1. {i \in kept : doc[i].version = v} \in SUBSET Own(v)
      BY <1>2, <1>7
    <3>2. Findable(v) \in SUBSET {i \in kept : doc[i].version = v}
      BY <1>2, <1>7 DEF Findable, InNamedFile, ChannelVersion
    <3>3. kept \in SUBSET DOMAIN doc
      OBVIOUS
    <3>4. DotnetDate(doc, v) = FirstDate(doc, kept, v, Nothing)
      BY <2>1 DEF DotnetDate
    <3> HIDE DEF kept
    <3>5. GoodDate(v, DotnetDate(doc, v))
      BY <3>1, <3>2, <3>3, <3>4, FirstDateIsGood
    <3> QED BY <1>7, <3>5 DEF ReleaseDate
  <2>2. CASE ChannelVersion(v) \notin Channels
    <3>1. \A i \in DOMAIN doc : doc[i].file \in Channels
      BY <1>7, Columns DEF Files
    <3>2. Findable(v) = {}
      BY <1>2, <1>7, <2>2, <3>1 DEF Findable, InNamedFile, ChannelVersion
    <3>3. ReleaseDate(family, doc, v) = Failed
      BY <1>7, <2>2 DEF ReleaseDate, DotnetDate
    <3> QED BY <3>2, <3>3 DEF GoodDate
  <2> QED BY <2>1, <2>2
<1>8. CASE family = "httpd"
  <2>1. CASE Cardinality({i \in Releases(doc) : doc[i].version = v}) = 1
    BY <1>5, <1>8, <2>1 DEF ReleaseDate, HttpdDate
  <2>2. CASE Cardinality({i \in Releases(doc) : doc[i].version = v}) # 1
    <3>1. Cardinality(Own(v)) # 1
      BY <1>3, <1>8, <2>2
    <3>2. \A i \in Own(v) : Own(v) = {i}
      BY <1>8 DEF Own, OwnRow, Document
    <3>3. Findable(v) = {}
      BY <1>4, <3>1, <3>2, FS_Singleton
    <3>4. ReleaseDate(family, doc, v) = Failed
      BY <1>8, <2>2 DEF ReleaseDate, HttpdDate
    <3> QED BY <3>3, <3>4 DEF GoodDate
  <2> QED BY <2>1, <2>2
<1>9. CASE family = "pypi"
  <2>1. PyPiReleases(doc) \in SUBSET DOMAIN doc
    BY DEF PyPiReleases, Releases
  <2>2. {i \in PyPiReleases(doc) : doc[i].version = v} = Own(v)
    BY <1>9 DEF PyPiReleases, Releases, Own, OwnRow, Owed
  <2>3. GoodDate(v, FirstDate(doc, PyPiReleases(doc), v, Failed))
    BY <1>4, <2>1, <2>2, FirstDateIsGood
  <2>4. ~Readable(doc, PyPiReleases(doc)) => Malformed(doc)
    BY <2>1 DEF Malformed, Readable
  <2> QED BY <1>4, <1>9, <2>3, <2>4 DEF ReleaseDate, PyPiDate
<1>10. CASE family = "icu"
  <2>1. ~Readable(doc, DOMAIN doc) => Malformed(doc)
    BY DEF Malformed
  <2> QED BY <1>4, <1>5, <1>10, <2>1 DEF ReleaseDate, IcuDate
<1>11. CASE family = "curl"
  <2>1. ~CurlParses(doc) => Malformed(doc)
    BY <1>1 DEF Malformed, Readable, CurlParses
  <2> QED BY <1>4, <1>5, <1>11, <2>1 DEF ReleaseDate, CurlDate
<1>12. CASE family = "pecl"
  <2> DEFINE d == FirstDate(doc, Releases(doc), v, Nothing)
  <2>1. GoodDate(v, d)
    BY <1>1, <1>3, <1>4, <1>12, FirstDateIsGood
  <2>2. ReleaseDate(family, doc, v) = IF d = Failed THEN Nothing ELSE d
    BY <1>12 DEF ReleaseDate, PeclDate
  <2> HIDE DEF d
  <2> QED BY <2>1, <2>2 DEF GoodDate
<1>13. CASE family = "php"
  BY <1>6, <1>13 DEF ReleaseDate, PhpDate
<1>14. CASE family = "go"
  BY <1>6, <1>14 DEF ReleaseDate, GoDate
<1>15. CASE family = "node"
  BY <1>6, <1>15 DEF ReleaseDate, NodeDate
<1>16. CASE family = "bundler"
  BY <1>6, <1>16 DEF ReleaseDate, BundlerDate
<1>17. CASE family = "ruby"
  BY <1>5, <1>17 DEF ReleaseDate, RubyDate
<1> QED
  BY <1>7, <1>8, <1>9, <1>10, <1>11, <1>12, <1>13, <1>14, <1>15, <1>16, <1>17,
     FamiliesAssumption

(* So does Python's, whose pages may be those of another version.          *)
LEMMA DatesAreGood ==
  ASSUME family \in Families, doc \in Seq(Rows(family)), Document(family, doc),
         NEW v \in Versions, family = "node" \/ Kind[v] # "other"
  PROVE  \A d \in ReleaseDates(family, doc, v) : GoodDate(v, d)
<1>1. CASE family # "python"
  <2>1. ReleaseDates(family, doc, v) = {ReleaseDate(family, doc, v)}
    BY <1>1 DEF ReleaseDates
  <2> QED BY <1>1, <2>1, DateIsGood
<1>2. CASE family = "python"
  <2> DEFINE page == {i \in Releases(doc) : PageKey[doc[i].version] = PageKey[v]}
  <2>0. \A i \in DOMAIN doc : doc[i].note # "wheel"
    BY <1>2, Columns DEF Notes
  <2>1. page = Own(v)
    BY <1>2, <2>0 DEF Own, OwnRow, Owed, Releases
  <2>2. ReleaseDates(family, doc, v) =
          IF page = {} THEN {Failed}
          ELSE {IF doc[i].note = "unreadable" THEN Failed ELSE doc[i].date : i \in page}
    BY <1>2 DEF ReleaseDates, PythonDates
  <2>3. page \in SUBSET DOMAIN doc
    BY DEF Releases
  <2> HIDE DEF page
  <2>4. \A i \in page : doc[i].date \notin {Failed, Nothing}
    BY <2>3, Columns, NoResultAssumption
  <2>5. \A i \in page : doc[i].note = "unreadable" => Malformed(doc)
    BY <2>3 DEF Malformed, Readable
  <2>6. Findable(v) \in SUBSET Own(v)
    BY DEF Findable
  <2> SUFFICES ASSUME NEW d \in ReleaseDates(family, doc, v)
               PROVE  GoodDate(v, d)
    OBVIOUS
  <2>7. CASE page = {}
    BY <2>1, <2>2, <2>6, <2>7 DEF GoodDate
  <2>8. CASE page # {}
    <3>1. PICK i \in page : d = IF doc[i].note = "unreadable" THEN Failed ELSE doc[i].date
      BY <2>2, <2>8
    <3>2. CASE doc[i].note = "unreadable"
      BY <2>5, <3>1, <3>2 DEF GoodDate
    <3>3. CASE doc[i].note # "unreadable"
      BY <2>1, <2>4, <3>1, <3>3 DEF GoodDate
    <3> QED BY <3>2, <3>3
  <2> QED BY <2>7, <2>8
<1> QED BY <1>1, <1>2

(* What may be listed.                                                     *)
LEMMA ListedVersions ==
  ASSUME family \in Families, NEW rows \in Seq(Rows(family)), Listing(family, rows) # Failed,
         NEW v \in ToSet(Listing(family, rows))
  PROVE  v \in Versions /\ (family = "node" \/ Kind[v] # "other")
<1> DEFINE kept == Kept(family, rows)
           order == Order(family, rows)
           a == Arranged(kept, order)
           n == Cardinality(kept)
<1>0. kept \in SUBSET DOMAIN rows /\ IsFiniteSet(kept) /\ StrictOrder(kept, order)
  BY KeptIsOrdered
<1>1. Listing(family, rows) = VersionsOf(rows, kept, order)
  BY ListingShape
<1>2. \A i \in kept : Owed(rows[i])
  BY KeptIsOwed
<1> HIDE DEF kept, order
<1>3. /\ DOMAIN VersionsOf(rows, kept, order) = 1 .. n
      /\ \A k \in 1 .. n : VersionsOf(rows, kept, order)[k] = rows[a[k]].version
      /\ a \in [1 .. n -> kept]
  BY <1>0, VersionsInOrder, Arrangement
<1> HIDE DEF a, n
<1>4. PICK k \in 1 .. n : v = rows[a[k]].version
  BY <1>1, <1>3 DEF ToSet
<1>5. a[k] \in DOMAIN rows /\ Owed(rows[a[k]])
  BY <1>0, <1>2, <1>3
<1> QED BY <1>4, <1>5, Columns DEF Owed

-----------------------------------------------------------------------------
(* The positions that a comparison puts before one of them, and those that *)
(* it does not put after it.                                               *)
Lower(S, worse, i) == {j \in S : <<j, i>> \in worse}

Upper(S, worse, i) == {j \in S : <<i, j>> \notin worse}

Obeys(S, order, worse) == \A i, j \in S : <<i, j>> \in worse => <<i, j>> \in order

(* Wherever an order that obeys a comparison breaks its ties, the k-th     *)
(* position has at most k - 1 before it and at least k not after it.       *)
LEMMA Ranks ==
  ASSUME NEW S, IsFiniteSet(S), NEW order, StrictOrder(S, order),
         NEW worse, Obeys(S, order, worse),
         NEW k \in 1 .. Cardinality(S)
  PROVE  LET i == Arranged(S, order)[k]
         IN  /\ i \in S
             /\ IsFiniteSet(Lower(S, worse, i)) /\ Cardinality(Lower(S, worse, i)) < k
             /\ IsFiniteSet(Upper(S, worse, i)) /\ Cardinality(Upper(S, worse, i)) >= k
<1> DEFINE i == Arranged(S, order)[k]
           B == Before(S, order, i)
           L == Lower(S, worse, i)
           U == Upper(S, worse, i)
<1>1. k \in Nat /\ i \in S /\ IsFiniteSet(B) /\ Cardinality(B) = k - 1
  BY Arrangement, Places
<1> HIDE DEF i
<1>2. L \in SUBSET B
  BY <1>1 DEF Lower, Before, Obeys
<1>3. (B \union {i}) \in SUBSET U
  BY <1>1 DEF Upper, Before, Obeys, StrictOrder
<1>4. i \notin B /\ L \in SUBSET S /\ U \in SUBSET S
  BY <1>1 DEF Lower, Upper, Before, StrictOrder
<1> HIDE DEF B, L, U
<1>5. IsFiniteSet(L) /\ IsFiniteSet(U)
  BY <1>4, FS_Subset
<1>6. Cardinality(L) <= k - 1
  BY <1>1, <1>2, FS_Subset
<1>7. Cardinality(B \union {i}) = k - 1 + 1
  BY <1>1, <1>4, FS_AddElement
<1>8. Cardinality(B \union {i}) <= Cardinality(U)
  BY <1>3, <1>5, FS_Subset
<1>9. Cardinality(L) \in Nat /\ Cardinality(U) \in Nat
  BY <1>5, FS_CardinalityType
<1> QED BY <1>1, <1>5, <1>6, <1>7, <1>8, <1>9 DEF i, L, U

Comparing(S, worse) ==
  \A i, j, l \in S : <<i, l>> \in worse => <<i, j>> \in worse \/ <<j, l>> \in worse

Named(T, p, worse) == {q \in T \X T : <<p[q[1]], p[q[2]]>> \in worse}

(* Two orders of the same things, under different names, that obey one     *)
(* comparison have the same k-th thing, or two that the comparison does    *)
(* not tell apart.                                                         *)
LEMMA SamePlace ==
  ASSUME NEW S, IsFiniteSet(S), NEW order, StrictOrder(S, order),
         NEW T, IsFiniteSet(T), NEW other, StrictOrder(T, other),
         NEW p \in Bijection(T, S), NEW worse, Comparing(S, worse),
         Obeys(S, order, worse), Obeys(T, other, Named(T, p, worse)),
         NEW k \in 1 .. Cardinality(S)
  PROVE  LET i == Arranged(S, order)[k]
             j == p[Arranged(T, other)[k]]
         IN  /\ i \in S /\ j \in S
             /\ <<i, j>> \notin worse /\ <<j, i>> \notin worse
<1> DEFINE i == Arranged(S, order)[k]
           t == Arranged(T, other)[k]
           j == p[t]
           named == Named(T, p, worse)
<1>1. p \in [T -> S] /\ DOMAIN p = T /\ k \in Nat
  BY DEF Bijection, Injection
<1>2. Cardinality(T) = Cardinality(S)
  <2>1. ExistsBijection(T, S)
    BY DEF ExistsBijection
  <2> QED BY <2>1, FS_Bijection
<1>3. \A a, b \in T : <<a, b>> \in named <=> <<p[a], p[b]>> \in worse
  BY DEF Named
<1> HIDE DEF named
<1>4. /\ i \in S
      /\ IsFiniteSet(Lower(S, worse, i)) /\ Cardinality(Lower(S, worse, i)) < k
      /\ IsFiniteSet(Upper(S, worse, i)) /\ Cardinality(Upper(S, worse, i)) >= k
  BY Ranks
<1>5. /\ t \in T
      /\ Cardinality(Lower(T, named, t)) < k
      /\ Cardinality(Upper(T, named, t)) >= k
  BY <1>2, Ranks DEF named
<1> HIDE DEF i, t
<1>6. j \in S
  BY <1>1, <1>5
<1>7. /\ Lower(S, worse, j) \in SUBSET S /\ Upper(S, worse, j) \in SUBSET S
      /\ Lower(T, named, t) = Preimage(p, Lower(S, worse, j))
      /\ Upper(T, named, t) = Preimage(p, Upper(S, worse, j))
  BY <1>1, <1>3, <1>5 DEF Lower, Upper, Preimage
<1>8. /\ IsFiniteSet(Lower(S, worse, j)) /\ Cardinality(Lower(S, worse, j)) < k
      /\ IsFiniteSet(Upper(S, worse, j)) /\ Cardinality(Upper(S, worse, j)) >= k
  BY <1>5, <1>7, Renaming, FS_Subset
<1>9. ASSUME NEW a \in S, NEW b \in S, <<a, b>> \in worse,
             IsFiniteSet(Lower(S, worse, b)), Cardinality(Lower(S, worse, b)) < k,
             IsFiniteSet(Upper(S, worse, a)), Cardinality(Upper(S, worse, a)) >= k
      PROVE  FALSE
  <2>1. Upper(S, worse, a) \in SUBSET Lower(S, worse, b)
    BY <1>9 DEF Upper, Lower, Comparing
  <2>2. Cardinality(Upper(S, worse, a)) <= Cardinality(Lower(S, worse, b))
    BY <1>9, <2>1, FS_Subset
  <2>3. Cardinality(Upper(S, worse, a)) \in Nat /\ Cardinality(Lower(S, worse, b)) \in Nat
    BY <1>9, FS_CardinalityType
  <2> QED BY <1>1, <1>9, <2>2, <2>3
<1> QED BY <1>4, <1>6, <1>8, <1>9 DEF i, t

(* What the comparisons of php and pypi do not tell apart is one version.  *)
Comparison(f, rows) ==
  IF f = "php"
  THEN {q \in (DOMAIN rows) \X (DOMAIN rows) : NewerThenText(rows[q[1]], rows[q[2]])}
  ELSE {q \in (DOMAIN rows) \X (DOMAIN rows) : NewerThenGreater(rows[q[1]], rows[q[2]])}

LEMMA Comparisons ==
  ASSUME NEW f \in {"php", "pypi"}, NEW rows \in Seq(Rows(f))
  PROVE  /\ Obeys(DOMAIN rows, Order(f, rows), Comparison(f, rows))
         /\ Comparing(DOMAIN rows, Comparison(f, rows))
         /\ \A i, j \in DOMAIN rows :
              \/ <<i, j>> \in Comparison(f, rows)
              \/ <<j, i>> \in Comparison(f, rows)
              \/ rows[i].version = rows[j].version
<1> DEFINE D == DOMAIN rows
           worse == Comparison(f, rows)
           new == [i \in D |-> rows[i].date]
           text == [i \in D |-> TextRank[rows[i].version]]
           great == [i \in D |-> rows[i].version]
<1>1. \A i \in D :
        /\ rows[i].date \in Nat /\ rows[i].version \in Nat
        /\ rows[i].version \in Versions /\ TextRank[rows[i].version] \in Nat
  BY Columns
<1>2. new \in [D -> Int] /\ text \in [D -> Int] /\ great \in [D -> Int]
  BY <1>1
<1>3. CASE f = "php"
  <2>1. \A i, j \in D : <<i, j>> \in worse <=>
          new[i] > new[j] \/ (new[i] = new[j] /\ text[i] > text[j])
    BY <1>3 DEF Comparison, NewerThenText, Newer
  <2>2. \A i, j \in D : <<i, j>> \in worse => <<i, j>> \in Order(f, rows)
    BY <1>3 DEF Order, Comparison, By
  <2>3. \A i, j \in D : text[i] = text[j] => rows[i].version = rows[j].version
    BY <1>1, TextRankAssumption
  <2> HIDE DEF D, worse, new, text
  <2>4. ASSUME NEW i \in D, NEW j \in D, NEW l \in D, <<i, l>> \in worse
        PROVE  <<i, j>> \in worse \/ <<j, l>> \in worse
    <3>1. /\ new[i] \in Int /\ new[j] \in Int /\ new[l] \in Int
          /\ text[i] \in Int /\ text[j] \in Int /\ text[l] \in Int
      BY <1>2
    <3> QED BY <2>1, <2>4, <3>1
  <2>5. ASSUME NEW i \in D, NEW j \in D, <<i, j>> \notin worse, <<j, i>> \notin worse
        PROVE  text[i] = text[j]
    <3>1. new[i] \in Int /\ new[j] \in Int /\ text[i] \in Int /\ text[j] \in Int
      BY <1>2
    <3> QED BY <2>1, <2>5, <3>1
  <2> QED BY <2>2, <2>3, <2>4, <2>5 DEF D, worse, Obeys, Comparing
<1>4. CASE f = "pypi"
  <2>1. \A i, j \in D : <<i, j>> \in worse <=>
          new[i] > new[j] \/ (new[i] = new[j] /\ great[i] > great[j])
    BY <1>4 DEF Comparison, NewerThenGreater, Newer
  <2>2. \A i, j \in D : <<i, j>> \in worse => <<i, j>> \in Order(f, rows)
    BY <1>4 DEF Order, Comparison, By
  <2>3. \A i, j \in D : great[i] = great[j] => rows[i].version = rows[j].version
    OBVIOUS
  <2> HIDE DEF D, worse, new, great
  <2>4. ASSUME NEW i \in D, NEW j \in D, NEW l \in D, <<i, l>> \in worse
        PROVE  <<i, j>> \in worse \/ <<j, l>> \in worse
    <3>1. /\ new[i] \in Int /\ new[j] \in Int /\ new[l] \in Int
          /\ great[i] \in Int /\ great[j] \in Int /\ great[l] \in Int
      BY <1>2
    <3> QED BY <2>1, <2>4, <3>1
  <2>5. ASSUME NEW i \in D, NEW j \in D, <<i, j>> \notin worse, <<j, i>> \notin worse
        PROVE  great[i] = great[j]
    <3>1. new[i] \in Int /\ new[j] \in Int /\ great[i] \in Int /\ great[j] \in Int
      BY <1>2
    <3> QED BY <2>1, <2>5, <3>1
  <2> QED BY <2>2, <2>3, <2>4, <2>5 DEF D, worse, Obeys, Comparing
<1> QED BY <1>3, <1>4

(* A listing of a map does not depend on the order in which it is read.    *)
LEMMA ReadingOrder ==
  ASSUME NEW f \in {"php", "pypi"}, f \in Families, NEW rows \in Seq(Rows(f)),
         NEW p \in Bijection(DOMAIN rows, DOMAIN rows)
  PROVE  Listing(f, [i \in DOMAIN rows |-> rows[p[i]]]) = Listing(f, rows)
<1> DEFINE D == DOMAIN rows
           read == [i \in D |-> rows[p[i]]]
           S == Kept(f, rows)
           T == Kept(f, read)
           q == [i \in T |-> p[i]]
           n == Cardinality(S)
<1>1. /\ p \in [D -> D]
      /\ \A i, j \in D : p[i] = p[j] => i = j
      /\ \A j \in D : \E i \in D : p[i] = j
  BY DEF Bijection, Injection, Surjection, IsInjective
<1>2. read \in Seq(Rows(f)) /\ DOMAIN read = D /\ \A i \in D : read[i] = rows[p[i]]
  <2>1. D = 1 .. Len(rows) /\ Len(rows) \in Nat /\ \A i \in D : rows[p[i]] \in Rows(f)
    BY <1>1
  <2> QED BY <2>1
<1>3. T = {i \in D : p[i] \in S}
  BY <1>1 DEF Kept, Releases, PyPiReleases
<1>4. /\ f = "php" => T = Releases(read) /\ S = Releases(rows)
      /\ f = "pypi" => T = PyPiReleases(read) /\ S = PyPiReleases(rows)
  BY DEF Kept
<1>5. /\ S \in SUBSET D /\ IsFiniteSet(S) /\ StrictOrder(S, Order(f, rows))
  BY KeptIsOrdered
<1> HIDE DEF read, S
<1>6. /\ T \in SUBSET D /\ IsFiniteSet(T) /\ StrictOrder(T, Order(f, read))
  BY <1>2, KeptIsOrdered
<1> HIDE DEF T
<1>a. \A a \in T : p[a] \in S /\ read[a] = rows[p[a]]
  BY <1>2, <1>3
<1>b. \A i \in S : \E a \in T : p[a] = i
  BY <1>1, <1>3, <1>5
<1>c. Refused(f, read) <=> Refused(f, rows)
  <2>1. Readable(read, T) <=> Readable(rows, S)
    <3>1. Readable(rows, S) => Readable(read, T)
      BY <1>a DEF Readable
    <3>2. Readable(read, T) => Readable(rows, S)
      BY <1>a, <1>b DEF Readable
    <3> QED BY <3>1, <3>2
  <2>2. Uncomparable(read, T) => Uncomparable(rows, S)
    <3> SUFFICES ASSUME NEW a \in T, NEW b \in T, a # b, read[a].date = read[b].date,
                        Kind[read[a].version] = "unversioned"
                 PROVE  Uncomparable(rows, S)
      BY DEF Uncomparable
    <3>1. p[a] \in S /\ p[b] \in S /\ read[a] = rows[p[a]] /\ read[b] = rows[p[b]]
      BY <1>a
    <3>2. p[a] # p[b]
      BY <1>1, <1>6
    <3> QED BY <3>1, <3>2 DEF Uncomparable
  <2>3. Uncomparable(rows, S) => Uncomparable(read, T)
    <3> SUFFICES ASSUME NEW i \in S, NEW j \in S, i # j, rows[i].date = rows[j].date,
                        Kind[rows[i].version] = "unversioned"
                 PROVE  Uncomparable(read, T)
      BY DEF Uncomparable
    <3>1. PICK a \in T : p[a] = i
      BY <1>b
    <3>2. PICK b \in T : p[b] = j
      BY <1>b
    <3>3. a # b /\ read[a] = rows[i] /\ read[b] = rows[j]
      BY <1>a, <3>1, <3>2
    <3> QED BY <3>3 DEF Uncomparable
  <2> QED BY <1>4, <2>1, <2>2, <2>3 DEF Refused
<1>7. q \in Bijection(T, S)
  <2>1. q \in [T -> S]
    BY <1>3
  <2>2. q \in Injection(T, S)
    BY <1>1, <1>6, <2>1 DEF Injection, IsInjective
  <2>3. \A j \in S : \E i \in T : q[i] = j
    BY <1>1, <1>3, <1>5
  <2> QED BY <2>1, <2>2, <2>3 DEF Bijection, Surjection
<1>8. \A i \in T : q[i] = p[i]
  OBVIOUS
<1> HIDE DEF q
<1>9. Cardinality(T) = n
  <2>1. ExistsBijection(T, S)
    BY <1>7 DEF ExistsBijection
  <2> QED BY <1>6, <2>1, FS_Bijection
<1>10. \A i, j \in D : <<i, j>> \in Comparison(f, read) <=> <<p[i], p[j]>> \in Comparison(f, rows)
  BY <1>1, <1>2 DEF Comparison
<1>11. ASSUME NEW k \in 1 .. n
       PROVE  read[Arranged(T, Order(f, read))[k]].version =
                rows[Arranged(S, Order(f, rows))[k]].version
  <2> DEFINE order == Order(f, rows)
             other == Order(f, read)
             i == Arranged(S, order)[k]
             t == Arranged(T, other)[k]
             worse == Comparison(f, rows)
  <2>0. StrictOrder(S, order) /\ StrictOrder(T, other)
    BY <1>5, <1>6
  <2>1. Obeys(S, order, worse) /\ Comparing(S, worse)
    BY <1>5, Comparisons DEF Obeys, Comparing
  <2>2. Obeys(T, other, Named(T, q, worse))
    <3>1. Obeys(D, other, Comparison(f, read))
      BY <1>2, Comparisons
    <3> QED BY <1>6, <1>8, <1>10, <3>1 DEF Obeys, Named
  <2>4. \A a, b \in S : <<a, b>> \in worse \/ <<b, a>> \in worse \/ rows[a].version = rows[b].version
    BY <1>5, Comparisons
  <2> HIDE DEF worse, order, other
  <2>5. i \in S /\ q[t] \in S /\ <<i, q[t]>> \notin worse /\ <<q[t], i>> \notin worse
    BY <1>5, <1>6, <1>7, <2>0, <2>1, <2>2, SamePlace
  <2>6. t \in T
    <3>1. Arranged(T, other) \in [1 .. Cardinality(T) -> T]
      BY <1>6, <2>0, Arrangement
    <3> QED BY <1>9, <3>1
  <2> HIDE DEF i, t
  <2>7. read[t] = rows[q[t]]
    BY <1>2, <1>6, <1>8, <2>6
  <2> QED BY <2>4, <2>5, <2>7 DEF i, t, order, other
<1>12. VersionsOf(read, T, Order(f, read)) = VersionsOf(rows, S, Order(f, rows))
  <2>1. VersionsOf(rows, S, Order(f, rows)) =
          [k \in 1 .. n |-> rows[Arranged(S, Order(f, rows))[k]].version]
    BY DEF VersionsOf, Arranged
  <2>2. VersionsOf(read, T, Order(f, read)) =
          [k \in 1 .. n |-> read[Arranged(T, Order(f, read))[k]].version]
    BY <1>9 DEF VersionsOf, Arranged
  <2> HIDE DEF n
  <2> QED BY <1>11, <2>1, <2>2
<1>13. Listing(f, rows) = IF Refused(f, rows) THEN Failed ELSE VersionsOf(rows, S, Order(f, rows))
  BY ListingShape DEF S
<1>14. Listing(f, read) = IF Refused(f, read) THEN Failed ELSE VersionsOf(read, T, Order(f, read))
  BY <1>2, ListingShape DEF T
<1> QED BY <1>c, <1>12, <1>13, <1>14 DEF read

-----------------------------------------------------------------------------
(* What has happened so far: the list is the one of the document that was  *)
(* listed, whatever order it was read in, and the answer is one that the   *)
(* document that upstream shows gives, unless a request failed.            *)
History ==
  /\ outage \in BOOLEAN
  /\ pc = "start" => refs = <<>> /\ ~outage
  /\ pc = "listed" => refs = IF outage THEN Failed ELSE Listing(family, listed)
  /\ pc # "answered" => question = Nothing /\ date = Nothing
  /\ pc = "answered" =>
       /\ refs = Listing(family, listed) /\ refs # Failed /\ question \in ToSet(refs)
       /\ IF outage THEN date = Failed ELSE date \in ReleaseDates(family, doc, question)

Documents ==
  /\ family \in Families
  /\ doc \in Seq(Rows(family)) /\ Document(family, doc)
  /\ listed \in Seq(Rows(family)) /\ Document(family, listed)
  /\ changes \in 0..MaxChanges
  /\ pc \in {"start", "listed", "answered"}

(* Why the properties of the listings are invariants.                      *)
IInv == Documents /\ History

(* A document is still one after upstream amended it.                      *)
LEMMA AmendedDocument ==
  ASSUME NEW R, NEW rows \in Seq(R), NEW row \in R
  PROVE  /\ \A i \in 1 .. Len(rows) + 1 : InsertAt(rows, i, row) \in Seq(R)
         /\ \A i \in DOMAIN rows : RemoveAt(rows, i) \in Seq(R)
<1>1. ASSUME NEW i \in 1 .. Len(rows) + 1
      PROVE  InsertAt(rows, i, row) \in Seq(R)
  <2>1. SubSeq(rows, 1, i - 1) \in Seq(R) /\ SubSeq(rows, i, Len(rows)) \in Seq(R)
    OBVIOUS
  <2>2. <<row>> \in Seq(R)
    OBVIOUS
  <2> QED BY <2>1, <2>2 DEF InsertAt
<1>2. ASSUME NEW i \in DOMAIN rows
      PROVE  RemoveAt(rows, i) \in Seq(R)
  <2>1. SubSeq(rows, 1, i - 1) \in Seq(R) /\ SubSeq(rows, i + 1, Len(rows)) \in Seq(R)
    OBVIOUS
  <2> QED BY <2>1 DEF RemoveAt
<1> QED BY <1>1, <1>2

(* Nothing is listed at the beginning.                                     *)
LEMMA InitInvariant == Init => IInv
<1> SUFFICES ASSUME Init PROVE IInv
  OBVIOUS
<1>1. doc \in Seq(Rows(family)) /\ Document(family, doc)
  <2>1. PICK n \in 0 .. MaxRows : doc \in [1 .. n -> Rows(family)]
    BY DEF Init
  <2>2. n \in Nat
    BY <2>1, BoundsAssumption
  <2> QED BY <2>1, <2>2 DEF Init
<1>2. listed = <<>> /\ listed \in Seq(Rows(family)) /\ Document(family, listed)
  BY DEF Init, Document
<1>3. Documents
  BY <1>1, <1>2, BoundsAssumption DEF Init, Documents
<1>4. pc = "start" /\ refs = <<>> /\ question = Nothing /\ date = Nothing /\ outage = FALSE
  BY DEF Init
<1>5. History
  BY <1>4 DEF History
<1> QED BY <1>3, <1>5 DEF IInv

(* Every change of the document, listing and question preserves the        *)
(* invariant.                                                              *)
LEMMA NextInvariant == IInv /\ [Next]_vars => IInv'
<1> SUFFICES ASSUME IInv, [Next]_vars PROVE IInv'
  OBVIOUS
<1>0. Documents /\ History
  BY DEF IInv
<1>1. CASE Amend
  <2>1. doc' \in Seq(Rows(family))
    <3>1. CASE \E i \in 1 .. Len(doc) + 1, row \in Rows(family) : doc' = InsertAt(doc, i, row)
      BY <1>0, <3>1, AmendedDocument DEF Documents
    <3>2. CASE \E i \in DOMAIN doc : doc' = RemoveAt(doc, i)
      <4>1. \E row : row \in Rows(family)
        BY <1>0, <3>2 DEF Documents
      <4> QED BY <1>0, <3>2, <4>1, AmendedDocument DEF Documents
    <3> QED BY <1>1, <3>1, <3>2 DEF Amend
  <2>2. Documents'
    BY <1>0, <1>1, <2>1, BoundsAssumption DEF Amend, Documents
  <2>3. History'
    BY <1>0, <1>1 DEF Amend, History
  <2> QED BY <2>2, <2>3 DEF IInv
<1>2. CASE List
  <2>1. Documents'
    BY <1>0, <1>2 DEF List, Documents
  <2>2. refs' = Listing(family, doc)
    <3>1. PICK rows \in Reading(doc) : refs' = Listing(family, rows)
      BY <1>2 DEF List
    <3>2. CASE family \in {"php", "pypi"}
      <4>1. PICK p \in Bijection(DOMAIN doc, DOMAIN doc) :
              rows = [i \in DOMAIN doc |-> doc[p[i]]]
        BY <3>1, <3>2 DEF Reading
      <4> QED BY <1>0, <3>1, <3>2, <4>1, ReadingOrder DEF Documents
    <3>3. CASE family \notin {"php", "pypi"}
      BY <3>1, <3>3 DEF Reading
    <3> QED BY <3>2, <3>3
  <2>3. History'
    BY <1>0, <1>2, <2>2 DEF List, History
  <2> QED BY <2>1, <2>3 DEF IInv
<1>3. CASE Ask
  <2>1. Documents'
    BY <1>0, <1>3 DEF Ask, Documents
  <2>2. refs = Listing(family, listed) /\ ~outage
    BY <1>0, <1>3 DEF Ask, History
  <2>3. History'
    BY <1>0, <1>3, <2>2 DEF Ask, History
  <2> QED BY <2>1, <2>3 DEF IInv
<1>5. CASE ListFails
  <2>1. Documents'
    BY <1>0, <1>5 DEF ListFails, Documents
  <2>2. History'
    BY <1>0, <1>5 DEF ListFails, History
  <2> QED BY <2>1, <2>2 DEF IInv
<1>6. CASE AskFails
  <2>1. Documents'
    BY <1>0, <1>6 DEF AskFails, Documents
  <2>2. refs = Listing(family, listed)
    BY <1>0, <1>6 DEF AskFails, History
  <2>3. History'
    BY <1>0, <1>6, <2>2 DEF AskFails, History
  <2> QED BY <2>1, <2>3 DEF IInv
<1>4. CASE UNCHANGED vars
  <2>1. Documents' /\ History'
    BY <1>0, <1>4 DEF vars, Documents, History
  <2> QED BY <2>1 DEF IInv
<1> QED BY <1>1, <1>2, <1>3, <1>4, <1>5, <1>6 DEF Next

(* The invariant holds in every reachable state.                           *)
THEOREM InvariantHolds == Spec => []IInv
BY InitInvariant, NextInvariant, PTL DEF Spec

(* The answer is a good one about a version of the list.                   *)
LEMMA AnswerIsGood ==
  ASSUME IInv, pc = "answered"
  PROVE  question \in Versions /\ IF outage THEN date = Failed ELSE GoodDate(question, date)
<1>1. /\ family \in Families /\ doc \in Seq(Rows(family)) /\ Document(family, doc)
      /\ listed \in Seq(Rows(family))
      /\ Listing(family, listed) # Failed /\ question \in ToSet(Listing(family, listed))
      /\ IF outage THEN date = Failed ELSE date \in ReleaseDates(family, doc, question)
  BY DEF IInv, Documents, History
<1>2. question \in Versions /\ (family = "node" \/ Kind[question] # "other")
  BY <1>1, ListedVersions
<1> QED BY <1>1, <1>2, DatesAreGood

(* The listing of a document names versions, or fails.                     *)
LEMMA ListingType ==
  ASSUME NEW f \in Families, NEW rows \in Seq(Rows(f))
  PROVE  Listing(f, rows) = Failed \/ Listing(f, rows) \in Seq(Versions)
<1>1. VersionsOf(rows, Kept(f, rows), Order(f, rows)) \in Seq(Versions)
  BY KeptIsOrdered, VersionsInOrder
<1> QED BY <1>1, ListingShape

(* Documents, lists and answers keep their types; no answer is the zero    *)
(* date of Go.                                                             *)
THEOREM TypeCorrect == Spec => []TypeOK
<1>1. IInv => TypeOK
  <2> SUFFICES ASSUME IInv PROVE TypeOK
    OBVIOUS
  <2>1. /\ family \in Families
        /\ doc \in Seq(Rows(family)) /\ listed \in Seq(Rows(family))
        /\ changes \in 0..MaxChanges
        /\ pc \in {"start", "listed", "answered"}
    BY DEF IInv, Documents
  <2>2. refs = Failed \/ refs \in Seq(Versions)
    <3>1. CASE pc = "start"
      BY <3>1 DEF IInv, History
    <3>2. CASE pc # "start"
      <4>1. refs = Failed \/ refs = Listing(family, listed)
        BY <2>1, <3>2 DEF IInv, History
      <4> QED BY <2>1, <4>1, ListingType
    <3> QED BY <3>1, <3>2
  <2>3. question \in Versions \union {Nothing} /\ date \in 1..MaxDate \union {Failed, Nothing}
    <3>1. CASE pc = "answered"
      <4>1. question \in Versions /\ (date = Failed \/ GoodDate(question, date))
        BY <3>1, AnswerIsGood
      <4>2. date \notin {Failed, Nothing} => \E i \in DOMAIN doc : doc[i].date = date
        BY <4>1 DEF GoodDate, Own
      <4> QED BY <2>1, <4>1, <4>2, Columns
    <3>2. CASE pc # "answered"
      BY <3>2 DEF IInv, History
    <3> QED BY <3>1, <3>2
  <2>4. outage \in BOOLEAN
    BY DEF IInv, History
  <2> QED BY <2>1, <2>2, <2>3, <2>4 DEF TypeOK
<1> QED BY <1>1, InvariantHolds, PTL

(* The random order of Go's maps never reaches a list.                     *)
THEOREM MapOrdersAreInvisible == Spec => []MapOrderIsInvisible
<1>1. IInv => MapOrderIsInvisible
  BY DEF IInv, Documents, History, MapOrderIsInvisible
<1> QED BY <1>1, InvariantHolds, PTL

(* No family loses a row of its document, names one twice or fails without *)
(* a reason in the document.                                               *)
THEOREM ListingsAreComplete == Spec => []ListingIsComplete
<1>1. IInv => ListingIsComplete
  <2> SUFFICES ASSUME IInv, pc # "start" PROVE ListingIsComplete
    BY DEF ListingIsComplete
  <2>1. CASE refs = Listing(family, listed)
    BY <2>1, Completeness DEF IInv, Documents
  <2>2. CASE refs # Listing(family, listed)
    BY <2>2 DEF IInv, Documents, History, ListingIsComplete
  <2> QED BY <2>1, <2>2
<1> QED BY <1>1, InvariantHolds, PTL

(* Every family lists its versions in the order its readers expect.        *)
THEOREM NewestVersionsFirst == Spec => []NewestFirst
<1>1. IInv => NewestFirst
  <2> SUFFICES ASSUME IInv, pc # "start" PROVE NewestFirst
    BY DEF NewestFirst
  <2>1. CASE refs = Listing(family, listed)
    BY <2>1, Orderliness DEF IInv, Documents
  <2>2. CASE refs # Listing(family, listed)
    BY <2>2 DEF IInv, Documents, History, NewestFirst
  <2> QED BY <2>1, <2>2
<1> QED BY <1>1, InvariantHolds, PTL

(* A listed version is dated by a row of its own, or of its page, however  *)
(* the document changed between the two calls.                             *)
THEOREM ListedVersionsAreDated == Spec => []ListedIsDated
<1>1. IInv => ListedIsDated
  <2> SUFFICES ASSUME IInv, pc = "answered" PROVE ListedIsDated
    BY DEF ListedIsDated
  <2>1. CASE outage
    BY <2>1, AnswerIsGood DEF ListedIsDated
  <2>2. CASE ~outage
    <3>1. GoodDate(question, date)
      BY <2>2, AnswerIsGood
    <3>2. Findable(question) = {} =>
            \A i \in DOMAIN doc :
              OwnRow(doc[i], question) => family = "dotnet" /\ ~InNamedFile(doc[i])
      BY DEF Findable, Own
    <3> QED BY <2>2, <3>1, <3>2 DEF GoodDate, Own, ListedIsDated
  <2> QED BY <2>1, <2>2
<1> QED BY <1>1, InvariantHolds, PTL

=============================================================================
