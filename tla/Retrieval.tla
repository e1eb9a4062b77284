----------------------------- MODULE Retrieval ------------------------------
(***************************************************************************)
(* GetDependencyVersion (pkg/dependency), as the get-upstream-dependency   *)
(* action runs it for one version of one dependency: a sequence of remote  *)
(* reads, each of which may fail, of an upstream that may replace the      *)
(* artifact of the version, and the digest it publishes for it, meanwhile. *)
(* What is returned is a URI and a SHA256 the artifact is checked against  *)
(* ever after.                                                             *)
(*                                                                         *)
(* The bytes behind the URI are a number, their generation; a digest or a  *)
(* signature is the generation of the bytes it is for.                     *)
(***************************************************************************)
EXTENDS Naturals, Sequences

CONSTANTS
  Dependencies,   \* the names the action is called with
  MaxGeneration   \* bound: how often upstream replaces the artifact

ASSUME MaxGenerationAssumption == MaxGeneration \in Nat

VARIABLES
  dep,         \* the dependency
  digests,     \* the digest upstream publishes: "sha256", "other" or "none"
  waived,      \* the version is on the list of those not to be verified
  listed,      \* upstream lists the version
  artifact,    \* generation of the bytes behind the URI
  digest,      \* generation the published digest is for
  step,        \* position in the recipe
  entry,       \* the listing read names the version
  want,        \* the digest read
  file,        \* the bytes downloaded
  sha,         \* the digest returned
  licensed,    \* the bytes the licenses were detected in
  result,      \* "running", "found", "empty" or "error"
  seen,        \* history: generations current since the retrieval began
  astray       \* history: the digest was of other bytes than the current
               \* ones when read

release == <<dep, digests, waived>>
upstream == <<listed, artifact, digest>>
locals == <<entry, want, file, sha, licensed>>
vars == <<release, upstream, step, locals, result, seen, astray>>

Generations == 1 .. MaxGeneration + 1

(* No bytes: nothing read, or an empty string.                             *)
None == 0

-----------------------------------------------------------------------------
(* The recipes.  "list" reads a listing, "index" one with digests; "find"  *)
(* looks the version up in it; "digest" reads a digest or signature; "page" *)
(* reads anything else: dates, keys, the URL of an asset.  What is returned *)
(* is the digest read ("take") or that of a file downloaded ("hash"); a    *)
(* downloaded file may have to pass a check first ("verify").              *)

(* The digest is returned as it is found, be it an empty string.           *)
Bundler == <<"index", "licenses", "find", "take">>

(* LookupLicenses returns no licenses for composer and reads nothing.      *)
Composer == <<"list", "find", "digest", "take">>

(* Releases up to 7.29.0 have no signature.                                *)
Curl ==
  IF digests = "none"
  THEN <<"list", "find", "download", "hash", "licenses">>
  ELSE <<"list", "find", "download", "page", "digest", "verify", "hash", "licenses">>

(* A hash of 64 digits is taken for a SHA256, any other for a SHA512.      *)
Dotnet ==
  CASE digests = "sha256" -> <<"index", "find", "take", "licenses">>
    [] digests = "none" -> <<"index", "find", "download", "hash", "licenses">>
    [] OTHER -> <<"index", "find", "download", "verify", "hash", "licenses">>

Go ==
  IF digests = "sha256"
  THEN <<"index", "page", "find", "take", "licenses">>
  ELSE <<"index", "page", "find", "download", "hash", "licenses">>

(* A version without any checksum is an error, unless it is known.         *)
Httpd ==
  CASE digests = "sha256" -> <<"list", "find", "digest", "take", "licenses">>
    [] digests # "sha256" /\ waived -> <<"list", "find", "download", "hash", "licenses">>
    [] digests = "none" /\ ~waived -> <<"list", "find", "fail", "licenses">>
    [] OTHER -> <<"list", "find", "download", "digest", "verify", "hash", "licenses">>

Icu == <<"list", "find", "page", "page", "download", "page", "page", "digest", "verify",
         "hash", "licenses">>

(* Four keys and the signature are read before the file.                   *)
Nginx == <<"list", "find", "page", "page", "page", "page", "page", "digest", "download",
           "verify", "hash", "licenses">>

Node == <<"list", "page", "find", "digest", "take", "licenses">>

Pecl == <<"list", "find", "download", "hash", "licenses">>

(* Some versions are known to have no checksum, some a wrong one.          *)
Php ==
  CASE digests = "sha256" -> <<"index", "find", "take", "page", "licenses">>
    [] digests # "sha256" /\ waived -> <<"index", "find", "download", "hash", "page", "licenses">>
    [] digests = "none" /\ ~waived -> <<"index", "find", "fail", "page", "licenses">>
    [] OTHER -> <<"index", "find", "download", "verify", "hash", "page", "licenses">>

(* The licenses of every release are looked up, then the version.          *)
Pypi == <<"index", "licenses", "find", "take">>

Python ==
  IF waived
  THEN <<"index", "find", "download", "hash", "page", "licenses">>
  ELSE <<"index", "find", "download", "verify", "hash", "page", "licenses">>

(* The digest is in the release data on GitHub or in the mirror's index.   *)
Ruby == <<"list", "digest", "take", "licenses", "find">>

Rust == <<"list", "find", "page", "page", "digest", "download", "verify", "hash", "licenses">>

(* Faulty variant of Tini: the licenses are looked up first.               *)
TiniLicensed == <<"list", "find", "licenses", "download", "hash">>

(* GitHub makes the tarball of a tag on demand and publishes no digest.    *)
Tini == <<"list", "find", "download", "hash", "licenses">>

Yarn == <<"list", "find", "page", "page", "download", "page", "page", "digest", "verify",
          "hash", "licenses">>

(* NewDependency: the recipe of every supported dependency; pip, pipenv    *)
(* and poetry share one, as do the three of dotnet, and apc and apcu.      *)
Recipes ==
  [apcu |-> Pecl, bundler |-> Bundler, composer |-> Composer, curl |-> Curl,
   dotnet |-> Dotnet, go |-> Go, httpd |-> Httpd, icu |-> Icu, nginx |-> Nginx,
   node |-> Node, php |-> Php, pip |-> Pypi, python |-> Python, ruby |-> Ruby,
   rust |-> Rust, tini |-> Tini, yarn |-> Yarn]

SupportsDependency == dep \in DOMAIN Recipes

Recipe == Recipes[dep]

(* The dependencies some of whose versions have a SHA256, another digest   *)
(* or signature, or neither; and those with versions not to be verified.   *)
Publishing ==
  [sha256 |-> {"bundler", "composer", "dotnet", "go", "httpd", "node", "php", "pip", "ruby"},
   other  |-> {"curl", "dotnet", "httpd", "icu", "nginx", "php", "python", "rust", "yarn"},
   none   |-> {"apcu", "bundler", "curl", "dotnet", "go", "httpd", "php", "tini"}]

Waivable ==
  (dep \in {"httpd", "php"} /\ digests # "sha256") \/ dep = "python"

(* The digest may already lag behind the bytes, or be ahead of them:       *)
(* upstream replaces the two one after the other.                          *)
Init ==
  /\ digests \in DOMAIN Publishing
  /\ dep \in Dependencies
  /\ waived \in BOOLEAN
  /\ SupportsDependency => dep \in Publishing[digests]
  /\ waived => Waivable
  /\ listed \in BOOLEAN /\ artifact \in Generations
  /\ digest \in {g \in Generations : g <= artifact + 1}
  /\ step = 1 /\ entry = FALSE
  /\ want = None /\ file = None /\ sha = None /\ licensed = None
  /\ result = "running"
  /\ seen = {artifact} /\ astray = FALSE

-----------------------------------------------------------------------------
(* Upstream.                                                               *)

List == listed' = ~listed /\ UNCHANGED <<artifact, digest, seen>>

Replace ==
  /\ artifact < MaxGeneration + 1
  /\ artifact' = artifact + 1
  /\ seen' = seen \union {artifact'}
  /\ UNCHANGED <<listed, digest>>

(* The digest of the bytes that are there, or of those about to replace    *)
(* them.                                                                   *)
PublishDigest ==
  /\ digest' \in {artifact, artifact + 1} \intersect Generations
  /\ UNCHANGED <<listed, artifact, seen>>

Maintain ==
  /\ List \/ Replace \/ PublishDigest
  /\ UNCHANGED <<release, step, locals, result, astray>>

-----------------------------------------------------------------------------
(* The retrieval.                                                          *)

At(name) ==
  /\ result = "running" /\ SupportsDependency
  /\ step <= Len(Recipe) /\ Recipe[step] = name
  /\ UNCHANGED <<release, upstream, seen>>

Ok == step' = step + 1 /\ UNCHANGED result

Error == result' = "error" /\ UNCHANGED <<step, locals, astray>>

(* Each read is a request of the web client, or several; an answer other   *)
(* than 200, a body that breaks off or does not parse, is an error.        *)
ReadList ==
  /\ At("list")
  /\ \/ Ok /\ entry' = listed /\ UNCHANGED <<want, file, sha, licensed, astray>>
     \/ Error

ReadDigest ==
  /\ want' = IF digests = "none" THEN None ELSE digest
  /\ astray' = (astray \/ want' \notin {None, artifact})

ReadIndex ==
  /\ At("index")
  /\ \/ Ok /\ entry' = listed /\ ReadDigest /\ UNCHANGED <<file, sha, licensed>>
     \/ Error

ReadPage ==
  /\ At("page")
  /\ \/ Ok /\ UNCHANGED <<locals, astray>>
     \/ Error

ReadDigestFile ==
  /\ At("digest")
  /\ \/ Ok /\ ReadDigest /\ UNCHANGED <<entry, file, sha, licensed>>
     \/ Error

(* Faulty variants of Find: one step is skipped; a missing version is no   *)
(* error for any dependency.                                               *)
FindAndSkip ==
  /\ At("find")
  /\ \/ entry /\ step' = step + 2 /\ UNCHANGED <<result, locals, astray>>
     \/ ~entry /\ Error

FindNothing ==
  /\ At("find")
  /\ \/ entry /\ Ok
     \/ ~entry /\ result' = "empty" /\ UNCHANGED step
  /\ UNCHANGED <<locals, astray>>

(* Pecl returns an empty DepVersion and no error for a missing version.    *)
Find ==
  /\ At("find")
  /\ \/ entry /\ Ok
     \/ ~entry /\ dep = "apcu" /\ result' = "empty" /\ UNCHANGED step
     \/ ~entry /\ dep # "apcu" /\ result' = "error" /\ UNCHANGED step
  /\ UNCHANGED <<locals, astray>>

(* No checksum to be found, and none known to be missing.                  *)
NoChecksum == At("fail") /\ Error

Download ==
  /\ At("download")
  /\ \/ Ok /\ file' = artifact /\ UNCHANGED <<entry, want, sha, licensed, astray>>
     \/ Error

(* Faulty variant of Verify: the error is only logged.                     *)
VerifyNothing == At("verify") /\ Ok /\ UNCHANGED <<locals, astray>>

(* VerifyASC, VerifyMD5, VerifySHA1, VerifySHA512.  A signature may also   *)
(* be of a key that is not among those read.                               *)
Verify ==
  /\ At("verify")
  /\ \/ file = want /\ Ok /\ UNCHANGED <<locals, astray>>
     \/ file # want /\ Error
     \/ dep \in {"curl", "icu", "nginx", "rust", "yarn"} /\ Error

(* Faulty variant of Hash: the digest asked for is returned.               *)
HashWanted == At("hash") /\ Ok /\ sha' = want /\ UNCHANGED <<entry, want, file, licensed, astray>>

Hash ==
  /\ At("hash")
  /\ \/ Ok /\ sha' = file /\ UNCHANGED <<entry, want, file, licensed, astray>>
     \/ Error

(* A file of digests without the one looked for, or a date beside it that  *)
(* does not parse, is an error.                                            *)
Take ==
  /\ At("take")
  /\ \/ Ok /\ sha' = want /\ UNCHANGED <<entry, want, file, licensed, astray>>
     \/ Error

(* LookupLicenses downloads the artifact itself; curl drops its error.     *)
Licenses ==
  /\ At("licenses")
  /\ \/ Ok /\ licensed' = artifact /\ UNCHANGED <<entry, want, file, sha, astray>>
     \/ dep = "curl" /\ Ok /\ UNCHANGED <<locals, astray>>
     \/ dep # "curl" /\ Error

(* NewDependency fails, or GetDependencyVersion has returned a version.    *)
Answer ==
  /\ result = "running"
  /\ \/ ~SupportsDependency /\ result' = "error"
     \/ SupportsDependency /\ step = Len(Recipe) + 1 /\ result' = "found"
  /\ UNCHANGED <<release, upstream, step, locals, seen, astray>>

Next ==
  \/ Maintain
  \/ ReadList \/ ReadIndex \/ ReadPage \/ ReadDigestFile \/ Find \/ NoChecksum
  \/ Download \/ Verify \/ Hash \/ Take \/ Licenses \/ Answer

Spec == Init /\ [][Next]_vars

-----------------------------------------------------------------------------
(* Types of upstream and of the retrieval's variables.                     *)
TypeOK ==
  /\ listed \in BOOLEAN /\ {artifact, digest} \subseteq Generations
  /\ step \in 1 .. (IF SupportsDependency THEN Len(Recipe) + 1 ELSE 1)
  /\ entry \in BOOLEAN /\ astray \in BOOLEAN
  /\ {want, file, sha, licensed} \subseteq Generations \union {None}
  /\ result \in {"running", "found", "empty", "error"}
  /\ seen \subseteq Generations

(* In whatever order a recipe looks things up and whichever read fails, a  *)
(* version that is returned was listed, has a digest unless bundler's was  *)
(* published without, and, but for composer and curl, was searched for     *)
(* licenses; only apc and apcu answer with an empty version, and only when *)
(* theirs is not listed.                                                   *)
AnswerIsComplete ==
  /\ result = "found" => entry
  /\ result = "found" /\ sha = None => dep = "bundler" /\ digests = "none"
  /\ result = "found" /\ licensed = None => dep \in {"composer", "curl"}
  /\ result = "empty" => dep = "apcu" /\ ~entry

(* A digest the library computed is of bytes that passed the check against *)
(* what upstream published for them, except for the versions listed in the *)
(* code, those without any digest, and go, which has no other check.       *)
HashedMeansVerified ==
  result = "found" /\ file # None /\ digests = "other" /\ ~waived
    => sha = file /\ file = want

(* What is returned is the digest of bytes that were behind the URI at     *)
(* some time of the retrieval; only a published digest that is taken       *)
(* without a download may be of others, when it was not, at the time it    *)
(* was read, the one of the bytes behind the URI.                          *)
ShaWasCurrent ==
  result = "found" => sha \in seen \union {None} \/ (astray /\ file = None)

(* The licenses are detected in a second download.  It may see newer bytes *)
(* than the ones the digest is of, but in no recipe older ones, unless     *)
(* upstream published a digest before its bytes and the recipe took it.    *)
LicensesNotOlder ==
  result = "found" /\ licensed # None /\ (file # None \/ ~astray) => sha <= licensed

=============================================================================
