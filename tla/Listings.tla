------------------------------- MODULE Listings -------------------------------
(***************************************************************************)
(* GetAllVersionRefs and GetReleaseDate of the dependencies whose upstream *)
(* is one document: a JSON or CSV file, a feed or a web page.  A listing   *)
(* reads the document once; the date of a listed version is asked later,   *)
(* when the document may have changed.  The channel files of .NET and the  *)
(* release pages of Python count as parts of one document.                 *)
(*                                                                         *)
(* A document is a sequence of rows.  A version is a number, ordered as    *)
(* semantic versions are; TextRank orders the versions as strings, which   *)
(* is another order ("1.9" is after "1.10").                               *)
(***************************************************************************)
EXTENDS Naturals, FiniteSets, SequencesExt

CONSTANTS
  Families,      \* the dependencies
  Versions,      \* versions a document may hold
  Kind,          \* of a version: a "release", an "other" that the listing
                 \* leaves out (a prerelease, or one without download), or
                 \* "unversioned": no semantic version
  TextRank,      \* the place of a version among the strings
  Channels,      \* dotnet: the channels of the index
  Prefix,        \* dotnet: the first two numbers of a version
  WrongChannel,  \* dotnet: the table versionsInWrongChannel
  PageKey,       \* python: a version without its periods
  MaxDate,       \* bound on the dates
  MaxRows,       \* bound on the rows of the first document
  MaxChanges,    \* bound on the changes of the document
  Failed,        \* an error
  Nothing        \* no date and no error

ASSUME FamiliesAssumption ==
  Families \subseteq {"dotnet", "httpd", "php", "pypi", "icu", "curl", "go", "node",
                      "python", "bundler", "ruby", "pecl"}
ASSUME VersionsAssumption == Versions \subseteq Nat
ASSUME KindAssumption == Kind \in [Versions -> {"release", "other", "unversioned"}]
ASSUME TextRankAssumption ==
  /\ TextRank \in [Versions -> Nat]
  /\ \A v, w \in Versions : TextRank[v] = TextRank[w] => v = w
ASSUME BoundsAssumption == MaxDate \in Nat /\ MaxRows \in Nat /\ MaxChanges \in Nat
ASSUME NoResultAssumption ==
  /\ Failed # Nothing /\ {Failed, Nothing} \cap (1 .. MaxDate) = {}
  /\ Failed \notin Seq(Versions)

VARIABLES
  family,    \* the dependency
  doc,       \* the rows upstream shows
  changes,   \* changes of the document so far
  pc,        \* "start", "listed" or "answered"
  listed,    \* the document that was listed
  refs,      \* the versions GetAllVersionRefs returned, or Failed
  question,  \* the version whose date was asked
  date,      \* what GetReleaseDate returned for it
  outage     \* whether the last call failed because a request did

vars == <<family, doc, changes, pc, listed, refs, question, date, outage>>

(* What a row is like: "unreadable" if its date column holds something of  *)
(* the same place in the order of strings that is no date, if a file of    *)
(* PyPI comes without sha256, or if a release page of Python comes without *)
(* source link, MD5 or date; a wheel is a file of PyPI that is no source.  *)
Notes(f) == IF f = "pypi" THEN {"ok", "unreadable", "wheel"} ELSE {"ok", "unreadable"}

(* The file a row is in: .NET has one for each channel.                    *)
Files(f) == IF f = "dotnet" THEN Channels ELSE {"only"}

(* Pages that are read with a regular expression show versions only.       *)
ByPattern == {"httpd", "go", "python", "bundler", "pecl", "ruby"}

Rows(f) ==
  {row \in [version : Versions, date : 1..MaxDate, note : Notes(f), file : Files(f)] :
     f \in ByPattern => Kind[row.version] # "unversioned"}

(* A version of .NET may be in several releases, of several channels, one  *)
(* of PyPI have several files; the other documents name a version once.    *)
Document(f, rows) ==
  f \in {"dotnet", "pypi"} \/
  \A i, j \in DOMAIN rows : rows[i].version = rows[j].version => i = j

-----------------------------------------------------------------------------
(* What the retrievers share.                                              *)

(* A listing keeps some positions of the document, and arranges them by an *)
(* order, a set of pairs of positions: the k-th is the one with k - 1      *)
(* others before it.                                                       *)
Nth(kept, order, k) ==
  CHOOSE i \in kept : Cardinality({j \in kept : <<j, i>> \in order}) = k - 1

VersionsOf(rows, kept, order) ==
  [k \in 1 .. Cardinality(kept) |-> rows[Nth(kept, order, k)].version]

(* sort.SliceStable; also sort.Slice, whose ties are equal versions only.  *)
By(rows, Before(_, _)) ==
  {p \in (DOMAIN rows) \X (DOMAIN rows) :
     LET a == rows[p[1]]
         b == rows[p[2]]
     IN  Before(a, b) \/ (~Before(b, a) /\ p[1] < p[2])}

Backwards(order) == {<<p[2], p[1]>> : p \in order}

Releases(rows) == {i \in DOMAIN rows : Kind[rows[i].version] # "other"}

Readable(rows, kept) == \A i \in kept : rows[i].note # "unreadable"

Versioned(rows) == \A i \in DOMAIN rows : Kind[rows[i].version] # "unversioned"

(* No sort at all: a stable one that finds nothing before anything else.   *)
AsShown(a, b) == FALSE

Newer(a, b) == a.date > b.date

NewerThenGreater(a, b) == Newer(a, b) \/ (a.date = b.date /\ a.version > b.version)

(* Faulty variant of NewerThenText: no order among equal dates.            *)
NewerOnly(a, b) == Newer(a, b)

NewerThenText(a, b) ==
  Newer(a, b) \/ (a.date = b.date /\ TextRank[a.version] > TextRank[b.version])

(* Faulty variant of FirstDate: the error of time.Parse is dropped, which  *)
(* leaves the zero date.                                                   *)
FirstDateOrZero(rows, kept, v, missing) ==
  LET found == {i \in kept : rows[i].version = v}
      first == CHOOSE i \in found : \A j \in found : i <= j
  IN  IF found = {} THEN missing
      ELSE IF rows[first].note = "unreadable" THEN 0 ELSE rows[first].date

(* The loop of most GetReleaseDate: the first row of the version decides.  *)
FirstDate(rows, kept, v, missing) ==
  LET found == {i \in kept : rows[i].version = v}
      first == CHOOSE i \in found : \A j \in found : i <= j
  IN  IF found = {} THEN missing
      ELSE IF rows[first].note = "unreadable" THEN Failed ELSE rows[first].date

-----------------------------------------------------------------------------
(* dotnet.go: one file per channel, of which the last rows are the oldest. *)

(* Faulty variant of FirstOfEach: nothing is left out.                     *)
EachOfThem(rows, kept, order) == kept

(* The maps uniqueVersions: of each version the row that comes first.      *)
FirstOfEach(rows, kept, order) ==
  {i \in kept : \A j \in kept \ {i} :
     rows[j].version = rows[i].version => <<i, j>> \in order}

(* Faulty variant of OlderThenLess: versions instead of dates.             *)
Less(a, b) == a.version < b.version

OlderThenLess(a, b) == a.date < b.date \/ (a.date = b.date /\ a.version < b.version)

(* The file of a channel, read backwards.                                  *)
VersionsForChannel(rows, channel) ==
  FirstOfEach(rows, {i \in Releases(rows) : rows[i].file = channel}, Backwards(By(rows, AsShown)))

(* sortVersions meets a version of two channels at its older date first.   *)
DotnetVersions(rows) ==
  FirstOfEach(rows, UNION {VersionsForChannel(rows, channel) : channel \in Channels},
              By(rows, OlderThenLess))

DotnetListing(rows) ==
  IF Versioned(rows)
  THEN VersionsOf(rows, DotnetVersions(rows), Backwards(By(rows, OlderThenLess))) ELSE Failed

(* Faulty variant of ChannelVersion: without the exceptions.               *)
ChannelByPrefix(v) == Prefix[v]

ChannelVersion(v) == IF v \in DOMAIN WrongChannel THEN WrongChannel[v] ELSE Prefix[v]

DotnetDate(rows, v) ==
  IF ChannelVersion(v) \in Channels
  THEN FirstDate(rows, {i \in DOMAIN rows : rows[i].file = ChannelVersion(v)}, v, Nothing)
  ELSE Failed

-----------------------------------------------------------------------------
(* httpd.go: the index of a directory.  The date is asked of an index that *)
(* Apache restricts to one version.                                        *)

HttpdListing(rows) ==
  IF Readable(rows, Releases(rows))
  THEN VersionsOf(rows, Releases(rows), By(rows, NewerThenGreater)) ELSE Failed

HttpdDate(rows, v) ==
  IF Cardinality({i \in Releases(rows) : rows[i].version = v}) = 1
  THEN FirstDate(rows, Releases(rows), v, Failed) ELSE Failed

(* php.go: a map from version to release for each major version; "3" is    *)
(* left out of the listing, not of the dates.                              *)
PhpListing(rows) ==
  IF Readable(rows, Releases(rows))
  THEN VersionsOf(rows, Releases(rows), By(rows, NewerThenText)) ELSE Failed

PhpDate(rows, v) == FirstDate(rows, DOMAIN rows, v, Failed)

(* pypi.go: a map from version to files.  Two of a day are compared as     *)
(* semantic versions; the sort reports the last one that is none.          *)
PyPiReleases(rows) == {i \in Releases(rows) : rows[i].note # "wheel"}

PyPiListing(rows) ==
  LET files == PyPiReleases(rows)
      uncomparable == \E i, j \in files :
        /\ i # j /\ rows[i].date = rows[j].date
        /\ Kind[rows[i].version] = "unversioned"
  IN  IF Readable(rows, files) /\ ~uncomparable
      THEN VersionsOf(rows, files, By(rows, NewerThenGreater)) ELSE Failed

PyPiDate(rows, v) ==
  IF Readable(rows, PyPiReleases(rows)) THEN FirstDate(rows, PyPiReleases(rows), v, Failed) ELSE Failed

(* icu.go: the releases of a GitHub repository but four; a page of them is *)
(* decoded with its dates.                                                 *)
IcuListing(rows) ==
  IF Readable(rows, DOMAIN rows)
  THEN VersionsOf(rows, Releases(rows), By(rows, NewerThenText)) ELSE Failed

IcuDate(rows, v) ==
  IF Readable(rows, DOMAIN rows) THEN FirstDate(rows, Releases(rows), v, Failed) ELSE Failed

(* curl.go: a CSV file; a row without download is left out after its       *)
(* version and before its date is parsed.                                  *)
CurlParses(rows) == Versioned(rows) /\ Readable(rows, Releases(rows))

CurlListing(rows) ==
  IF CurlParses(rows) THEN VersionsOf(rows, Releases(rows), By(rows, Newer)) ELSE Failed

CurlDate(rows, v) ==
  IF CurlParses(rows) THEN FirstDate(rows, Releases(rows), v, Failed) ELSE Failed

(* go.go: the release page, without the releases the download page lacks;  *)
(* node.go: a JSON index.  Both compare dates as strings.                  *)
GoListing(rows) == VersionsOf(rows, Releases(rows), By(rows, Newer))

GoDate(rows, v) == FirstDate(rows, DOMAIN rows, v, Failed)

NodeListing(rows) == VersionsOf(rows, DOMAIN rows, By(rows, Newer))

NodeDate(rows, v) == FirstDate(rows, DOMAIN rows, v, Failed)

(* python.go, bundler.go, ruby.go and pecl.go keep upstream's order.       *)
PythonListing(rows) == VersionsOf(rows, Releases(rows), By(rows, AsShown))

(* The date is on a release page whose address has no periods: 3.1.11 and  *)
(* 3.11.1 have one address, and either may be what it shows.               *)
PythonDates(rows, v) ==
  LET page == {i \in Releases(rows) : PageKey[rows[i].version] = PageKey[v]}
  IN  IF page = {} THEN {Failed}
      ELSE {IF rows[i].note = "unreadable" THEN Failed ELSE rows[i].date : i \in page}

BundlerListing(rows) == VersionsOf(rows, Releases(rows), By(rows, AsShown))

BundlerDate(rows, v) == FirstDate(rows, DOMAIN rows, v, Failed)

RubyListing(rows) == VersionsOf(rows, Releases(rows), By(rows, AsShown))

RubyDate(rows, v) == FirstDate(rows, Releases(rows), v, Failed)

PeclListing(rows) == VersionsOf(rows, Releases(rows), By(rows, AsShown))

(* The feed's parser leaves a date it does not understand out.             *)
PeclDate(rows, v) ==
  LET d == FirstDate(rows, Releases(rows), v, Nothing) IN IF d = Failed THEN Nothing ELSE d

Listing(f, rows) ==
  CASE f = "dotnet" -> DotnetListing(rows) [] f = "httpd" -> HttpdListing(rows)
    [] f = "php" -> PhpListing(rows) [] f = "pypi" -> PyPiListing(rows)
    [] f = "icu" -> IcuListing(rows) [] f = "curl" -> CurlListing(rows)
    [] f = "go" -> GoListing(rows) [] f = "node" -> NodeListing(rows)
    [] f = "python" -> PythonListing(rows) [] f = "bundler" -> BundlerListing(rows)
    [] f = "ruby" -> RubyListing(rows) [] f = "pecl" -> PeclListing(rows)

ReleaseDate(f, rows, v) ==
  CASE f = "dotnet" -> DotnetDate(rows, v) [] f = "httpd" -> HttpdDate(rows, v)
    [] f = "php" -> PhpDate(rows, v) [] f = "pypi" -> PyPiDate(rows, v)
    [] f = "icu" -> IcuDate(rows, v) [] f = "curl" -> CurlDate(rows, v)
    [] f = "go" -> GoDate(rows, v) [] f = "node" -> NodeDate(rows, v)
    [] f = "bundler" -> BundlerDate(rows, v) [] f = "ruby" -> RubyDate(rows, v)
    [] f = "pecl" -> PeclDate(rows, v)

ReleaseDates(f, rows, v) ==
  IF f = "python" THEN PythonDates(rows, v) ELSE {ReleaseDate(f, rows, v)}

-----------------------------------------------------------------------------
Init ==
  /\ family \in Families
  /\ doc \in {rows \in UNION {[1..n -> Rows(family)] : n \in 0..MaxRows} : Document(family, rows)}
  /\ changes = 0
  /\ pc = "start"
  /\ listed = <<>>
  /\ refs = <<>>
  /\ question = Nothing
  /\ date = Nothing
  /\ outage = FALSE

(* Upstream adds a row or takes one away.                                  *)
Amend ==
  /\ changes < MaxChanges
  /\ pc # "answered"
  /\ changes' = changes + 1
  /\ \/ \E i \in 1 .. Len(doc) + 1, row \in Rows(family) : doc' = InsertAt(doc, i, row)
     \/ \E i \in DOMAIN doc : doc' = RemoveAt(doc, i)
  /\ Document(family, doc')
  /\ UNCHANGED <<family, pc, listed, refs, question, date, outage>>

(* A Go map is read in an order that differs from one reading to another.  *)
Reading(rows) ==
  IF family \in {"php", "pypi"}
  THEN {[i \in DOMAIN rows |-> rows[p[i]]] : p \in Bijection(DOMAIN rows, DOMAIN rows)}
  ELSE {rows}

List ==
  /\ pc = "start"
  /\ pc' = "listed"
  /\ listed' = doc
  /\ \E rows \in Reading(doc) : refs' = Listing(family, rows)
  /\ UNCHANGED <<family, doc, changes, question, date, outage>>

(* A request fails: for the document, or for the licenses that PyPI's      *)
(* listing looks up for every file it keeps.                               *)
ListFails ==
  /\ pc = "start"
  /\ pc' = "listed"
  /\ listed' = doc
  /\ refs' = Failed
  /\ outage' = TRUE
  /\ UNCHANGED <<family, doc, changes, question, date>>

(* The date of one of the versions that were listed.                       *)
Ask ==
  /\ pc = "listed" /\ refs # Failed
  /\ pc' = "answered"
  /\ \E v \in ToSet(refs) : question' = v /\ date' \in ReleaseDates(family, doc, v)
  /\ UNCHANGED <<family, doc, changes, listed, refs, outage>>

AskFails ==
  /\ pc = "listed" /\ refs # Failed
  /\ pc' = "answered"
  /\ question' \in ToSet(refs)
  /\ date' = Failed
  /\ outage' = TRUE
  /\ UNCHANGED <<family, doc, changes, listed, refs>>

Next == Amend \/ List \/ ListFails \/ Ask \/ AskFails

Spec == Init /\ [][Next]_vars

-----------------------------------------------------------------------------
(* Types: a listing names versions, an answer is a date of the documents,  *)
(* an error or nothing, never the zero date.                               *)
TypeOK ==
  /\ family \in Families
  /\ doc \in Seq(Rows(family)) /\ listed \in Seq(Rows(family))
  /\ changes \in 0..MaxChanges
  /\ pc \in {"start", "listed", "answered"}
  /\ refs = Failed \/ refs \in Seq(Versions)
  /\ question \in Versions \union {Nothing}
  /\ date \in 1..MaxDate \union {Failed, Nothing}
  /\ outage \in BOOLEAN

Malformed(rows) == ~Readable(rows, DOMAIN rows) \/ ~Versioned(rows)

(* The rows a listing owes to its readers.                                 *)
Owed(row) == row.note # "wheel" /\ (Kind[row.version] # "other" \/ family = "node")

Times(seq, Test(_)) == Cardinality({i \in DOMAIN seq : Test(seq[i])})

(* A listing loses nothing and invents nothing: every row it should keep   *)
(* is in it exactly once (a version of .NET once, in however many releases *)
(* and channels it is), and it fails for a malformed row or a failed       *)
(* request only.                                                           *)
ListingIsComplete ==
  pc # "start" =>
    IF refs = Failed
    THEN Malformed(listed) \/ outage
    ELSE \A v \in Versions :
           LET owed == Times(listed, LAMBDA row : row.version = v /\ Owed(row))
           IN  Times(refs, LAMBDA r : r = v) =
                 IF family = "dotnet" /\ owed > 0 THEN 1 ELSE owed

InPageOrder == {"python", "bundler", "ruby", "pecl"}

(* Whether the i-th row of the listed document belongs before the j-th.    *)
BelongsBefore(i, j) ==
  LET a == listed[i]
      b == listed[j]
  IN  IF family \in InPageOrder
      THEN i < j
      ELSE \/ a.date > b.date
           \/ /\ a.date = b.date
              /\ CASE family \in {"dotnet", "httpd", "pypi"} -> a.version >= b.version
                   [] family \in {"php", "icu"} -> TextRank[a.version] > TextRank[b.version]
                   [] OTHER -> i < j

(* The row that dates a version: the last one of its file, which for .NET, *)
(* whose files begin with the newest release, is the release it first came *)
(* with there, and of several files the oldest of these; for PyPI any.     *)
Dating(v) ==
  LET rows == {i \in DOMAIN listed : listed[i].version = v /\ Owed(listed[i])}
      last == {i \in rows : \A j \in rows : listed[j].file = listed[i].file => j <= i}
  IN  IF family = "pypi" THEN rows
      ELSE {i \in last : \A j \in last : listed[i].date <= listed[j].date}

(* The list is what its consumers take it for: the newest version first,   *)
(* or as upstream shows it, with ties ordered as each retriever means to.  *)
NewestFirst ==
  pc # "start" /\ refs # Failed =>
    \A k, l \in DOMAIN refs : k < l =>
      \E i \in Dating(refs[k]), j \in Dating(refs[l]) : BelongsBefore(i, j)

(* The random order in which Go reads a map decides nothing: two listings  *)
(* of one document are equal, so jq's difference of the known and the new  *)
(* list sees upstream's changes only.                                      *)
MapOrderIsInvisible ==
  pc # "start" => refs = Listing(family, listed) \/ (refs = Failed /\ outage)

(* Whether a row may date a version: it is one of the version, or shares   *)
(* its page of Python.                                                     *)
OwnRow(row, v) ==
  /\ row.version = v \/ (family = "python" /\ PageKey[row.version] = PageKey[v])
  /\ Owed(row)

(* Where .NET's retriever should look for a version: in the channel the    *)
(* table gives for it, in that of its number if the table gives none.      *)
InNamedFile(row) ==
  LET v == row.version
  IN  IF v \in DOMAIN WrongChannel THEN row.file = WrongChannel[v] ELSE row.file = Prefix[v]

(* A version that was listed is dated as long as it is still there, unless *)
(* a row is malformed, a request fails, or .NET has it only in a channel   *)
(* that neither the table nor its number names.  No version gets the date  *)
(* of another one, but for two of Python that share a page.                *)
ListedIsDated ==
  pc = "answered" =>
    LET own == {i \in DOMAIN doc : OwnRow(doc[i], question)}
    IN  IF date \in {Failed, Nothing}
        THEN \/ outage \/ Malformed(doc)
             \/ \A i \in own : family = "dotnet" /\ ~InNamedFile(doc[i])
        ELSE \E i \in own : doc[i].date = date

=============================================================================
