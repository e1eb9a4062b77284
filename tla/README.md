# Verification of dep-server

TLA+ models, TLC runs and TLAPS proofs about the paketo-buildpacks dep-server:
the workflows that find, build, test and publish dependencies for buildpacks,
the server that hands out their metadata, and the library that asks upstream.
Every definition is translated from the code; `PROJECT.json` names the lines.

    cd tla
    tlc -workers 2 -config Service.cfg MCService.tla
    tlapm Service_proofs.tla

## 1. Inventory

dep-server has no database and hardly a long-running process. Its state lives
in buckets, and each actor is a short job of GitHub Actions (a shell script or a
Go program) that reads some of that state, talks to upstream, and writes it
back. Nothing but a `turnstyle` step orders the jobs.

| component (source) | state | operations | hard behaviour |
|---|---|---|---|
| Get New Versions (`.github/templates/get-new-versions.yml`, `actions/list-new-upstream-dependency-versions`) | `known-versions/<dep>.json` in a GCS bucket | hourly: read the list, list upstream, dispatch a build per new version, overwrite the list | overlapping jobs; a job that dies between dispatch and update; dispatches rejected or cut off; a read whose failure is swallowed |
| Build and Upload (`build-upload.yml`, `actions/get-upstream-dependency`, `build-dependency`, `upload-dependency`) | `deps/<dep>/` in S3, the payload | retrieve metadata, compile from a second download of the source, upload, dispatch | upstream replaces files meanwhile; two builds of one version; re-runs |
| Test and Upload Metadata (`test-upload-metadata.yml`) | the payload | download the required dependency, test, convert the version, compute stacks, upload metadata | tests must cover the very file that is published |
| Metadata upload (`actions/upload-metadata`) | `metadata/<dep>.json` in S3 | download, date, rewrite with jq, copy over | unconditional read-modify-write by concurrent runs |
| Dep server (`cmd/server`, `internal/handler`) | none; reads the S3 object | GET `/v1/dependency?name=` | objects replaced during an answer; a body that breaks off after status 200; names in any case |
| test-dependency (`actions/test-dependency`) | a container, a server process | download the dependency and a required one, extract, check the version, let it work or start it as a server and poll it | a server that comes up late, never, dies, or takes a request and keeps it; a saved error page |
| GitHub client, listing (`pkg/dependency/internal/github_client.go`) | page number and accumulated list of one call | `GetReleaseTags` page by page, `GetTags` in one query | releases appear, vanish, become drafts between two pages; GraphQL errors under status 200 |
| Version retrieval (`pkg/dependency/*.go`, checksummer, web client, licenses) | local files of one call | per dependency: list, download, verify, hash, detect licenses | many remote reads of an upstream that replaces an artifact and its digest one after the other; each can fail |
| Listings of one document (`GetAllVersionRefs`, `GetReleaseDate` of 12 families) | none | read a JSON, CSV, feed or page, filter, sort; later read it again for a date | random map order, ties, duplicates, malformed rows, a document that changes between the two readings |
| scripts/validate | a temporary directory, a container | make retrieve / compile / test, report | printed problems and returned errors are different things |
| convert-semver, get-compatible-stacks | none | pure conversions | numeric and format edges |
| workflow generation, deployment, auto-merge, developer scripts | none of the running system | text substitution, pull requests | - |

How they interact:

    GitHub schedule -> Get New Versions --dispatch--> Build and Upload --dispatch--> Test and Upload Metadata
                          |      ^                       |     |                       |        |
                 listing of      | known-versions        |     v                       |        v
                 upstream        v (GCS)                 |   deps/<dep>/ (S3) <-tests-+  metadata/<dep>.json (S3)
                                                         v                                      ^
                                              GetDependencyVersion (upstream)                   | GET
                                                                                           Dep server

What makes each correct, in a sentence: Get New Versions requests every version
once and never forgets one; a published entry leads to the bytes with the
published sha256, which passed the tests and came from the published source;
the metadata list has one entry per version, newest first, and loses none; the
server answers with one whole current object or an error, so that a client that
asks after an upload gets what it published; a test passes only a dependency
that answered; a listing is as good as one instantaneous reading, names every
version once, newest first, and can date what it names; a
retrieved digest is of bytes that were verified and were behind the URI;
validate passes when no phase fails. Where the code does not keep one of these
(section 4), the models state what it keeps instead.

## 2. Modules

| module | models | relation |
|---|---|---|
| `VersionWatch` | abstract: a version becomes known only after it was requested, and is requested only while unknown | implemented by GetNewVersions |
| `GetNewVersions` | the jobs of the hourly workflow | `Watch == INSTANCE VersionWatch` |
| `UploadMetadata` | the read-modify-write of the published list | its actions are the last step of Pipeline; extended by Service |
| `Pipeline` | one request through both workflows, to its published entry | `Metadata == INSTANCE UploadMetadata`, whose actions it takes as its step `UploadMetadata` |
| `DepServer` | the handler, concurrent requests, the bucket | instantiated by Service |
| `Service` | upload-metadata and the server around the one bucket | EXTENDS UploadMetadata, `Server == INSTANCE DepServer WITH ...`; implements both |
| `DependencyTest` | the entrypoint and the scripts of the tests | its verdict is Pipeline's step `Test` |
| `Snapshot` | abstract: a reading as good as one at one instant | implemented by ReleaseListing |
| `ReleaseListing` | the many requests behind the one step `ListVersions` of GetNewVersions | `Reading == INSTANCE Snapshot WITH ...` |
| `Listings` | what a listing computes from one document, and the date asked for later | the outcome of `ListVersions` for the other dependencies |
| `Retrieval` | what is behind the one step `GetUpstream` of Pipeline | |
| `Validate` | scripts/validate | stands alone |
| `MC*` | values and symmetry for TLC | |
| `*_proofs` | theorems | extend the module they are about |

Correspondence of state and actions with the code:

* **UploadMetadata.** `catalogue` is the object, `base` the downloaded
  `metadata.json`, `now` the shell variable, `pc` the next command. The list is
  a set of entries: the order is determined by "new entry first", which
  `HeadIsNewest` is about. `Upload` may replace the object and still report a
  failure. `overlapped` is history: which runs held a list when it was written.
  There is one `clock`; in the code every runner takes its own (`action.yml:54`),
  so `HeadIsNewest` and `CreatedAtIsStable` assume that the runners' clocks agree.
* **GetNewVersions.** `ahead` is what the turnstyle waits for, `knownRead` and
  `listed` the step outputs (an empty output is the empty set of lists), `todo`
  the rest of the loop. `Fail` is a failing step, a cancellation or a timeout at
  any point. `settled`, `requested` and `accepted` are history. A job that
  finished is idle again, so a handful of `Jobs` stands for all the hours. Each is
  a new run: one that maintainers start again on GitHub keeps its number and so
  its place before later runs, would not wait for those, and is not modelled.
* **Pipeline.** `stage` is the next step; `verified` the output `sha256` of
  get-upstream-dependency; a file stands for its sha256. An artifact's name
  contains its sha256 (docs: `go_go1.16.2_linux_x64_bionic_abd965e7.tgz`, the
  first 8 digits; equal prefixes of different files are left out). A re-run is a
  fresh request with the old payload.
* **DepServer.** An object is its generation, its body `Chunks` writes of
  `io.Copy`; `status` is what `net/http` sent, so `WriteHeader` after the first
  write has no effect. `since` is history.
* **Service.** The only shared state is the object. `Replace` is `Upload` of
  UploadMetadata and `Publish` of DepServer in one step, the copy of one object;
  `contents` gives each generation the list the run computed. `OnRunner` and
  `Serve` are the other steps of the two. The object exists before the first run
  (a run fails when its download fails). `before` is history: who had published
  without overlap when a request was received.
* **DependencyTest.** One script command per action, a server process beside
  it. The constants classify the scripts: `Servers` start one, `Working` are put
  to work instead, `Needing` extract a required dependency; `Daemons` and
  `Quoted` are the ways the server scripts differ. The .NET scripts of `Matching`
  look for the version with `=~` in what both archives brought: `Found` says which
  versions an expression is found in, and `required` may be an archive that brings
  a version. The server may keep a request (`holding`), which `curl` without
  `--max-time` waits for. The commands of the work (`Work`) are one step that
  succeeds or not. `MCArtifactTests` runs it beside Validate; the two share nothing.
* **ReleaseListing.** A job is `fetch` (the requests), `filter` (parse, skip, jq's
  difference), `trigger` (one `Request` per new version, then `UpdateKnown`), and
  `Fail` may end it between any two steps. A release is a number, listed greatest
  first, and a page is a window of ranks at the time of the request. An answer of
  GraphQL that holds errors instead of tags has status 200 and is an empty list
  (`ReadTags`); jq then cannot subtract from `null` and the job fails
  (`Filter`). Deleting shifts later releases to earlier pages, publishing
  shifts them to later ones. The order of upstream is taken to be a fixed one: GitHub sorts by creation, and releases that
  are edited keep their place. `whole`, `seen` and `meanwhile` are history, and
  become the variables of Snapshot: a listing in progress is its "reading", the
  accumulated list its answer. What one reading at an instant returns (`Listable`)
  is every tag, not only the first 100: that a query left some out is recorded
  as "cut", which excuses the answer.
* **Listings.** A document is a sequence of rows (version, date, note, file).
  Versions are numbers ordered as semver orders them; `TextRank` orders them as
  strings, which Go falls back to in places. A row is "unreadable" when its date
  does not parse, a PyPI file comes without sha256, or a release page of Python
  lacks its link, MD5 or date. `file` is the channel a .NET release is in, so that
  a version can be in two. The date of a Python version is on a page keyed by the
  version without its periods (`PageKey`), which two versions can share. The
  channel files and the release pages are taken as parts of one document read at
  once. `ListFails` and `AskFails` are failing requests, those for PyPI's licenses
  included. A listing is a set of kept positions of the document arranged by an
  order: `Nth` is the position with k - 1 others before it, `By` the stable order
  of each retriever's comparison. A document is thereby never copied through
  filters, and what a sort returns is a fact about counting. Reading a Go map is
  a bijection of the positions (`Reading`). `List` and `Ask` read the document at
  different times, with `Amend` between.
* **Retrieval.** Each retriever is a recipe, the sequence of its reads and
  checks in the order of its code; every read and check may fail. A file, a
  digest and a signature are the generation of the bytes. A digest may lag
  behind the bytes or be ahead of them, from the beginning or later, because
  upstream replaces one after the other in either order; `astray` remembers that
  the digest read was not of the current bytes. Bundler's may be missing, and is
  then returned as an empty string. The recipes are plain tuples, as long as the
  code's sequence of requests, so that the provers can compute with them.
  `Pipeline` takes a retrieval as the one step `GetUpstream`; `ShaWasCurrent` says what that step may rely on: the digest returned was current
  at some instant of the retrieval, but for an empty one and one astray that is
  taken as published. `GetUpstream` therefore returns the digest of any source or
  none. Of a compiled dependency an empty one is stopped by the arguments of
  `build-dependency`, another one by its check of the bytes.
* **Validate.** `err` is what each phase returns, `reported` what it printed. Its
  names differ from those of DependencyTest (`call`, `tested`, `ValidateNext`), so
  that one module of proofs extends both.

## 3. Runs

Passing runs (all exhaustive; distinct states rounded):

| run | asks | bounds and why they suffice |
|---|---|---|
| `service` (2 260 000) | unique versions, newest first, nothing lost without overlap, stable `created_at`; a client's answer lacks nothing published alone before it asked | 3 runs: one writes, one overlaps it, one comes after both; 2 versions: the same and another; clock 0..2 orders them; 1 request, which may read any generation (requests share nothing but the bucket) |
| `get_new_versions` (12 000) | known never forgotten, no repeated request, refinement of VersionWatch, every version requested in the end | 2 overlapping jobs, 2 versions, 2 failures, any number of successive jobs |
| `pipeline` (104 000) | the entry downloads to its sha256, was tested, is of its source; every request ends | 2 requests of one version (or a request and its re-run), 2 sources, 2 outcomes of a build: the only ways two files of one version arise |
| `dep_server` (272 000) | whole answers are current; published is served; an answer is whole or marked as broken | 2 requests, 2 spellings of one name and another name, 2 writes per body so that it can break off between them, up to 2 generations |
| `artifact_tests` (18 800) | reject only after all tries, pass only what answered or worked, the script ends unless the server keeps it; the tested artifact is complete | the real 5 tries; one script of each kind; an archive that is right, of another version whose name contains the right one, or no archive; a required dependency that is there, broken, missing, or brings a version itself. Validate: all flags and directory contents, no bound |
| `release_listing` (2 578 000) | refinement of Snapshot, duplicates, repeated requests, termination | 4 releases on pages of 1 (empty first, middle and last pages; a page of drafts only; more tags than a query returns), 2 changes at any time over successive listings, which may fail; one tag that is skipped and one that is no version |
| `listings` (1 866 000) | complete and without duplicates, newest first, independent of map order, listed versions can be dated | 12 families; documents of up to 2 rows, 3 after a change; a pair of rows is what a comparison sees, the third shows ties, duplicates and a lost neighbour; 5 versions: two whose order as strings is the reverse, one that is left out, one that is no semver, and one that shares a page of Python and whose number names no channel; 2 channels, 2 dates for ties |
| `retrieval` (35 000) | completeness, verified before hashed, current digest, licenses | every recipe, every kind of published digest; 2 replacements, so that a digest can be older, current or newer than a download |

The inductive invariants the proofs rest on were found with TLC on these
instances first; the runs check the properties that follow from them.

Runs that show a disagreement between the code and its own words (section 4):
`upload_metadata_lost`, `get_new_versions_lost`, `dependency_test_quoted`,
`validate_verdict`.

Deadlock checking is off where the system really may stop: runs of a workflow
that all ended, requests all answered, a script that exited, a date that was
answered. `Pipeline`'s
configuration is the one of a compiled, tested dependency with a required one,
which goes through all stages; the other switches are covered by the theorems.

**Fairness.** `GetNewVersions`: weak fairness of the steps of a job (GitHub runs
the steps of a started job, up to its time limit, which is `Fail`) and of the
creation of jobs (the hourly schedule); nothing forces upstream to stop or a
failure to happen, and failures are bounded, so `NewVersionIsRequested` is about
what happens once they stop. It says *requested*, not *built*: a rejected
dispatch is the finding below. `Pipeline`: weak fairness of the steps of a
request. `DependencyTest`: the shell runs its next command; the server owes
nothing, so `ScriptEnds` allows for a script that waits for ever for a server
that holds its request: in the code only the limit of the job ends that.
`ReleaseListing`: weak fairness of the requests of one listing (`Fetch` only), which
the 5 minute timeout of `web_client.go` justifies; it does
not assume that requests succeed or that maintainers pause. The other modules
state safety only.

Each property of a passing run is broken by at least one variant of the code
(`mutants` in PROJECT.json, "Faulty variant" in the modules).

## 4. Where the code and its documents disagree

* `upload_metadata_lost`: two overlapping uploads of one dependency both end
  well and leave only one entry; the issue that would tell maintainers is only
  filed for failures.
* `get_new_versions_lost`: the dispatch is sent by `curl` without `--fail`; a
  rejected dispatch looks accepted, the version becomes known and is never
  built.
* `dependency_test_quoted`: `[[ ! "${succeeded}" ]]` in the go, node and rust
  scripts never holds, so a server that never answered passes.
* `validate_verdict`: `main.go:77` joins the errors of the three phases with
  `&&`, so `scripts/validate` prints "All checks passed" unless all of them
  failed; its README (lines 60-61) says that it validates that each works.

Further observations, without a run of their own:

* In `httpd.go` the error of comparing two versions is overwritten by the next
  comparison of the sort. An index line always holds a version, so Listings
  leaves the case out.
* The required dependency is chosen with jq's `sort_by` of the version string
  (`test-upload-metadata.yml:24-25`): of 2.9 and 2.10 it is 2.9.
* The key under which `python.go` finds a release page drops the periods of the
  version, so 3.1.11 and 3.11.1 share one: `ListedIsDated` allows for it.
* `GetTags` asks for the first 100 tags only (`github_client.go:144`), its test
  says "lists all tags" (`github_client_test.go:94`); `ImplementsSnapshot` excuses
  a listing that met more. It also does not look at GraphQL errors that come with status
  200 (`github_client.go:175-186`): they are an empty list, printed as `null`,
  and the job fails only when jq subtracts from it.
* The scripts of dotnet-runtime and dotnet-aspnetcore look for the version as a
  regular expression among all runtimes that both archives brought (`run:12-19`),
  so an archive of 6.0.10, or of anything else beside a required dependency that
  brings the version, passes as 6.0.1. `PassedMeansServed` states what they do
  check.
* The servers of the test scripts are asked by `curl` without `--max-time`: one
  that accepts a request and never answers holds the job until its limit.
* `bundler.go:65` copies the published sha256 unchecked: without one the version
  has an empty SHA256 and no error.
* An upstream that publishes a digest before the bytes it is of makes the
  recipes that take the digest return one that is newer than the bytes whose
  licenses they detect (`LicensesNotOlder`).
* A .NET version in a channel that neither its number nor the table
  `versionsInWrongChannel` names gets no date and no error, or an error
  when there is no such channel (`ListedIsDated` excuses it).
* `main.go:184-185` of `scripts/validate` does not look at the exit status of the
  container: a compilation that failed is noticed by its missing outputs only.
* One tag of composer, yarn or rust that is no semantic version makes every
  listing fail until it is removed.
* A version that is missing from one listing (hidden and shown again, skipped by
  a deletion between pages), or that was requested by a job which ended before it
  recorded it, is built a second time: `RepeatedOnlyAfterLoss`.
  Duplicates within one listing are requested twice (jq's `-` keeps them).
* `pecl.go` returns an empty DepVersion and no error for a version that is not
  listed; `curl.go` drops the error of the license lookup. For a dependency that
  is neither compiled nor tested nothing later would notice.
* For a dependency that is not compiled, the tests download the URI again
  without comparing the sha256 that is published (`PublishedWasTested` is weaker
  there on purpose).
* PyPI retrieval looks up the licenses of every release, so the failure of any
  of them fails the requested one. `licenses.go` and the handler use `http.Get`,
  which has no timeout.
* `Yarn.GetReleaseDate` compares tags, which begin with `v`, with the version its
  listing stripped of it; the deprecation date of Python is found by a prefix
  (`3.1` matches `3.10`); PHP and
  ICU break ties of equal dates by comparing version strings;
  `get-compatible-stacks` ignores the error of `semver.NewVersion`;
  `convert-semver` indexes the first match of a version without digits.
* validate leaves its container behind when a Docker call fails half-way.
* After a broken bucket body the client has status 200, part of the list and the
  error text: `AnswerIsWholeOrMarked` is all a client can rely on.

## 5. Proofs

TLAPS proves these for every value of the constants. The assumptions are the
`ASSUME`s of the modules (types of constants, `NoVersion` outside `Versions`,
and so on), which TLC evaluates in the runs.

* **Service_proofs, about UploadMetadata.** Types, unique versions, newest first, nothing lost
  without overlap, stable `created_at`. None is inductive alone: a run writes the
  list it downloaded, so the invariant says of every downloaded list what it says
  of the catalogue (unique, dated in the past) and that a list held now contains
  everything published by a run that overlapped nobody (`Keeps`).
* **GetNewVersions_proofs.** The refinement of VersionWatch, no forgetting, no
  repeated requests, types. The invariant has two parts: of two unfinished jobs
  one waits for the other, hence at most one is past the turnstyle
  (`Serialised`); and what the job inside read is still what the bucket holds
  (`Coherent`).
* **Pipeline_proofs.** The published entry downloads to its sha256, was tested,
  is of its source; types. The invariant: every object is named for its own
  bytes, so an upload cannot change another object, and what a stage hands on
  (`Carried`) stays true. That the variables of UploadMetadata behave as in that
  module (`MetadataBehaves`) is a lemma on the way to their types and claims
  nothing of its own: the pipeline takes that module's actions as its steps.
* **DepServer_proofs.** Types, current answers, published names served, answers
  whole or marked, for any number of requests and writes. The invariant describes a
  request at each place of its handler; a lemma (`Frame`) shows that it is
  disturbed neither by another request nor by an upload, as generations only
  grow.
* **Service_proofs, about Service.** The composition is both components at once: each of its
  steps is one of UploadMetadata or leaves it alone, and one of DepServer or
  leaves it alone, so every theorem above holds of it. The promise to the client
  then needs an invariant of its own: the last of `contents` is the catalogue
  (`Stored`), what a run published alone stays in every later generation, or a
  newer entry of its version does (`PublishedForGood`), and the generation a
  handler reads is none that was replaced before the request.
* **ArtifactTests_proofs, about DependencyTest.** Types and rejection only after
  all tries, for any scripts, any relation `Found` and number of tries; a passed server answered, under
  the assumption `Quoted = {}` of that theorem, without which it is false: that is
  the finding `dependency_test_quoted`. The invariant says of each place in the
  script which checks it has behind it.
* **ArtifactTests_proofs, about Validate.** Types and complete artifacts. The run is
  exhaustive already (the module has no constants); the invariant says why: a failed compilation leaves `test` nothing to run against.
* **ReleaseListing_proofs.** The refinement of Snapshot, duplicates, repeated
  requests and types, for any finite set of releases, any names and any page
  size. The invariant says of the next page: what could be listed all the time
  has been read or is still ahead, unless something was deleted (`Ahead`), and
  what was read is behind, unless something appeared (`Behind`). That an empty
  page ends the listing rightly needs that ranks are contiguous: the rank is an
  injection of the published releases into an interval of their number
  (FiniteSetTheorems), hence onto it, so if any release were ahead the page would
  hold one. `Lasting` follows the versions over successive listings: while
  nothing was removed and no job ended between a request and its update, a version
  that was requested is known, is among those about to be recorded, or was pushed
  out of the window of `GetTags` for good.

* **Retrieval_proofs.** Completeness, verified before hashed, the current digest,
  the licenses and types, for any number of replacements. The proof has two
  halves. One lemma about the 17 recipes as they are, each in its variants, says
  which steps precede which and which must be there (`WellOrdered`): nothing is
  looked up before it is listed, nothing verified or searched for licenses before
  all that is read has been read, nothing hashed that was not downloaded. The
  invariant then never looks at a recipe again: it says of the position in it what
  the steps behind have left (`Reached`) and how old that can be (`Aged`: unless
  a digest was astray, none that was read is newer than the bytes behind the URI;
  the licenses are detected in bytes at least as new as any file downloaded). A
  retriever that is added or reordered has to pass the lemma only.

* **Listings_proofs.** All five properties, for documents of any number of rows,
  any versions and dates, and any number of changes. The proof has three layers.
  About arrangements: in a finite set with a strict total order every position
  has its own number of predecessors, so `Nth` is a bijection that follows the
  order (`Places`, `Arrangement`), and a bijection of the positions that carries
  one order to the other leaves the arrangement as it was (`Renaming`). About the
  families: `By` of each comparison is such an order (`Orders`), and each listing
  either failed or is the arrangement of a set by an order (`ListingShape`). From
  this shape follow, in turn, that nothing is lost or doubled (`Completeness`),
  that the list runs as its documentation says (`Orderliness`), and that the
  first row found for a listed version has a date (`DatesAreGood`). The last layer
  is the inductive invariant, which only says that the list is the listing of
  `listed` and the date one of those of `doc`, unless a request failed.
  `MapOrderIsInvisible` holds because positions which a comparison does not tell
  apart hold the same version: the retrievers that read a map break ties of dates by
  the version (as a string for PHP).
  `ListedIsDated` assumes nothing of the table of .NET's channels: what it leaves
  out is excused in the property, version by version.

Every safety and action property of a passing run is a theorem. Only
model-checked are the liveness properties (`NewVersionIsRequested`,
`RequestIsSettled`, `ScriptEnds`, `ListingEnds`): they need fairness, which is out
of the prover's reach. The four findings are counterexamples, which the runs
show.

## 6. Not modelled

* convert-semver (a regular expression on one string) and get-compatible-stacks (a
  filter by semver constraints): `Pipeline` takes their outcome, failures
  included, as given.
* The order and the dates of the versions listed through GitHub by composer,
  tini, nginx, rust and yarn (ReleaseListing has what they keep, Listings has
  icu's); deprecation dates; the formats of dates, which Listings reduces to
  whether one parses and to its order.
* The PURL and CPE strings, the license detector, OpenPGP, semver, jq, gsutil
  and aws themselves: libraries and external programs, modelled from their use.
* What binary-builder compiles (an arbitrary outcome) and the content of the
  tests of dependencies that start no server.
* Workflow generation, deployment, auto-merge and the developers' scripts:
  continuous integration of the repository, no state of the running system. The
  wrappers `purl.go` and `file_system.go` and the generated fakes.
* Durations: there is no clock but the dates of UploadMetadata; a hang is a
  state that is not left.

## 7. Plan

Done, in this order, because everything published passes through the first ones:
UploadMetadata, GetNewVersions, Pipeline, DepServer; then DependencyTest,
Validate, ReleaseListing and Retrieval; then the composition Service, the
abstract Snapshot, the algorithms in Listings, and the proofs about all of them.

Next:

1. Composition of ReleaseListing with GetNewVersions, so that the repeated
   request is seen from the hidden release to the second build.
2. Operators for convert-semver and get-compatible-stacks in the style of
   Listings, checked over bounded inputs.
