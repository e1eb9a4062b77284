-------------------------- MODULE Retrieval_proofs --------------------------
(* Proofs about Retrieval: what every recipe guarantees, whatever upstream *)
(* does between its steps and whichever of its requests fails, for any     *)
(* number of replacements.  The first lemma is about the recipes as they   *)
(* are; the invariant uses nothing else of them.                           *)
EXTENDS Retrieval, TLAPS

(* The order of the steps of a recipe: every step of `before' precedes     *)
(* every one of `after'; every step of `after' is preceded by one of       *)
(* `before'; there is a step of `names'.                                   *)
Precede(before, after) ==
  \A i, j \in DOMAIN Recipe : Recipe[i] \in before /\ Recipe[j] \in after => i < j

Needs(after, before) ==
  \A j \in DOMAIN Recipe : Recipe[j] \in after => \E i \in 1 .. j - 1 : Recipe[i] \in before

Has(names) == \E i \in DOMAIN Recipe : Recipe[i] \in names

(* What every recipe has in common.                                        *)
WellOrdered ==
  /\ Len(Recipe) \in Nat /\ DOMAIN Recipe = 1 .. Len(Recipe)
  /\ Precede({"list", "index"}, {"find"})
  /\ Precede({"index", "digest", "download"}, {"verify", "licenses"})
  /\ Precede({"download", "take"}, {"hash"})
  /\ Needs({"take"}, {"index", "digest"}) /\ Needs({"hash"}, {"download"})
  /\ Has({"find"}) /\ Has({"hash", "take", "fail"})
  /\ dep \notin {"composer", "curl"} => Has({"licenses", "fail"})
  /\ Has({"download"}) => Has({"hash"})
  /\ digests = "other" /\ ~waived /\ Has({"download"}) => Has({"verify"})
  /\ digests = "none" /\ Has({"take"}) => dep = "bundler"

(* The combinations of dependency, digest and version there are.           *)
Configured ==
  /\ digests \in DOMAIN Publishing
  /\ SupportsDependency => dep \in Publishing[digests]
  /\ waived \in BOOLEAN /\ (waived => Waivable)

(* A step of `names' is behind the retrieval.                              *)
Done(names) == \E i \in 1 .. step - 1 : Recipe[i] \in names

(* What the steps behind the retrieval have left.                          *)
Reached ==
  /\ Done({"find"}) => entry
  /\ ~Done({"fail"})
  /\ Done({"index", "digest"}) => want # None \/ digests = "none"
  /\ file # None <=> Done({"download"})
  /\ Done({"hash", "take"}) => sha # None \/ (dep = "bundler" /\ digests = "none")
  /\ Done({"licenses"}) /\ dep # "curl" => licensed # None
  /\ licensed # None => Done({"licenses"})
  /\ Done({"verify"}) => file = want
  /\ Done({"hash"}) => sha = file

(* How old what was read can be.                                           *)
Aged ==
  /\ artifact \in seen
  /\ file <= artifact
  /\ file \in seen \union {None}
  /\ licensed # None => file <= licensed
  /\ ~astray =>
       /\ {want, sha} \subseteq seen \union {None}
       /\ \A g \in {want, sha} : g <= artifact /\ (licensed # None => g <= licensed)

Answered ==
  /\ result = "found" => SupportsDependency /\ step = Len(Recipe) + 1
  /\ result = "empty" => dep = "apcu" /\ ~entry

InductiveInvariant ==
  /\ TypeOK
  /\ Configured
  /\ SupportsDependency => Reached
  /\ Aged
  /\ Answered

(* Every recipe, in each of its variants, is well ordered.                 *)
LEMMA RecipesAreWellOrdered ==
  ASSUME Configured, SupportsDependency
  PROVE  WellOrdered
<1> USE DEF Recipe, Recipes, WellOrdered, Precede, Needs, Has
<1>C. /\ dep \in {"apcu", "bundler", "composer", "curl", "dotnet", "go", "httpd", "icu",
                 "nginx", "node", "php", "pip", "python", "ruby", "rust", "tini", "yarn"}
      /\ digests \in {"sha256", "other", "none"} /\ waived \in BOOLEAN
      /\ dep \in {"apcu", "tini"} => digests = "none"
      /\ dep = "go" => digests # "other"
      /\ dep \in {"composer", "node", "pip", "ruby"} => digests = "sha256"
      /\ dep \in {"icu", "nginx", "python", "rust", "yarn"} => digests # "none"
  BY DEF SupportsDependency, Configured, Publishing
<1>1. CASE dep = "apcu"
  BY <1>C, <1>1 DEF Pecl
<1>2. CASE dep = "bundler"
  BY <1>C, <1>2 DEF Bundler
<1>3. CASE dep = "composer"
  BY <1>C, <1>3 DEF Composer
<1>4. CASE dep = "icu"
  BY <1>C, <1>4 DEF Icu
<1>5. CASE dep = "nginx"
  BY <1>C, <1>5 DEF Nginx
<1>6. CASE dep = "node"
  BY <1>C, <1>6 DEF Node
<1>7. CASE dep = "pip"
  BY <1>C, <1>7 DEF Pypi
<1>8. CASE dep = "ruby"
  BY <1>C, <1>8 DEF Ruby
<1>9. CASE dep = "rust"
  BY <1>C, <1>9 DEF Rust
<1>10. CASE dep = "tini"
  BY <1>C, <1>10 DEF Tini
<1>11. CASE dep = "yarn"
  BY <1>C, <1>11 DEF Yarn
<1>12. CASE dep = "curl"
  <2>1. CASE digests = "none"
    BY <1>12, <2>1 DEF Curl
  <2>2. CASE digests # "none"
    BY <1>12, <2>2 DEF Curl
  <2> QED BY <1>C, <1>12, <2>1, <2>2
<1>13. CASE dep = "dotnet"
  <2>1. CASE digests = "sha256"
    BY <1>13, <2>1 DEF Dotnet
  <2>2. CASE digests = "none"
    BY <1>13, <2>2 DEF Dotnet
  <2>3. CASE digests = "other"
    BY <1>13, <2>3 DEF Dotnet
  <2> QED BY <1>C, <1>13, <2>1, <2>2, <2>3
<1>14. CASE dep = "go"
  <2>1. CASE digests = "sha256"
    BY <1>14, <2>1 DEF Go
  <2>2. CASE digests = "none"
    BY <1>14, <2>2 DEF Go
  <2> QED BY <1>C, <1>14, <2>1, <2>2
<1>15. CASE dep = "httpd"
  <2>1. CASE digests = "sha256"
    BY <1>15, <2>1 DEF Httpd
  <2>2. CASE digests # "sha256" /\ waived
    BY <1>15, <2>2 DEF Httpd
  <2>3. CASE digests = "none" /\ ~waived
    BY <1>15, <2>3 DEF Httpd
  <2>4. CASE digests = "other" /\ ~waived
    BY <1>15, <2>4 DEF Httpd
  <2> QED BY <1>C, <1>15, <2>1, <2>2, <2>3, <2>4
<1>16. CASE dep = "php"
  <2>1. CASE digests = "sha256"
    BY <1>16, <2>1 DEF Php
  <2>2. CASE digests # "sha256" /\ waived
    BY <1>16, <2>2 DEF Php
  <2>3. CASE digests = "none" /\ ~waived
    BY <1>16, <2>3 DEF Php
  <2>4. CASE digests = "other" /\ ~waived
    BY <1>16, <2>4 DEF Php
  <2> QED BY <1>C, <1>16, <2>1, <2>2, <2>3, <2>4
<1>17. CASE dep = "python"
  <2>1. CASE waived
    BY <1>17, <2>1 DEF Python
  <2>2. CASE ~waived
    BY <1>17, <2>2 DEF Python
  <2> QED BY <1>C, <1>17, <2>1, <2>2
<1> QED
  BY <1>C, <1>1, <1>2, <1>3, <1>4, <1>5, <1>6, <1>7, <1>8, <1>9, <1>10, <1>11, <1>12, <1>13,
     <1>14, <1>15, <1>16, <1>17

(* The inductive invariant holds initially.                                *)
LEMMA InitInvariant == Init => InductiveInvariant
<1> SUFFICES ASSUME Init PROVE InductiveInvariant
  OBVIOUS
<1>1. Configured
  BY DEF Init, Configured, Waivable, SupportsDependency
<1>2. SupportsDependency => Len(Recipe) \in Nat
  BY <1>1, RecipesAreWellOrdered DEF WellOrdered
<1>3. TypeOK
  <2>1. step \in 1 .. (IF SupportsDependency THEN Len(Recipe) + 1 ELSE 1)
    BY <1>2 DEF Init
  <2>2. artifact \in Generations /\ digest \in Generations
    BY DEF Init
  <2> QED BY <2>1, <2>2 DEF Init, TypeOK
<1>4. \A names : ~Done(names)
  BY DEF Init, Done
<1>5. Aged
  BY MaxGenerationAssumption DEF Init, Generations, Aged, None
<1> QED
  BY <1>1, <1>3, <1>4, <1>5 DEF Init, InductiveInvariant, Reached, Answered

(* The recipe is that of the release asked for.                            *)
LEMMA ReleaseStays ==
  ASSUME UNCHANGED <<dep, digests, waived>>
  PROVE  /\ Recipe' = Recipe
         /\ SupportsDependency' <=> SupportsDependency
         /\ Configured' <=> Configured
<1>1. Recipes' = Recipes
  BY DEF Recipes, Curl, Dotnet, Go, Httpd, Php, Python
<1>2. SupportsDependency' <=> SupportsDependency
  BY <1>1 DEF SupportsDependency
<1>3. Configured' <=> Configured
  BY <1>2 DEF Configured, Waivable
<1> QED BY <1>1, <1>2, <1>3 DEF Recipe

(* Where the retrieval is in the recipe when it takes a step named name.   *)
LEMMA Position ==
  ASSUME InductiveInvariant, NEW name, At(name)
  PROVE  /\ SupportsDependency /\ WellOrdered /\ Reached /\ UNCHANGED <<dep, digests>>
         /\ step \in 1 .. Len(Recipe) /\ Recipe[step] = name
         /\ \A before, after : Precede(before, after) /\ name \in before => ~Done(after)
         /\ \A before, after : Needs(after, before) /\ name \in after => Done(before)
         /\ Ok => \A names : Done(names)' <=> Done(names) \/ name \in names
<1>1. SupportsDependency /\ WellOrdered /\ Reached /\ UNCHANGED <<dep, digests>>
  BY RecipesAreWellOrdered DEF At, InductiveInvariant, release
<1>2. /\ step \in 1 .. Len(Recipe) /\ DOMAIN Recipe = 1 .. Len(Recipe)
      /\ Len(Recipe) \in Nat /\ Recipe[step] = name
  BY <1>1 DEF At, InductiveInvariant, TypeOK, WellOrdered
<1>3. ASSUME NEW before, NEW after, Precede(before, after), name \in before
      PROVE  ~Done(after)
  BY <1>2, <1>3 DEF Precede, Done
<1>4. ASSUME NEW before, NEW after, Needs(after, before), name \in after
      PROVE  Done(before)
  BY <1>2, <1>4 DEF Needs, Done
<1>5. ASSUME Ok, NEW names
      PROVE  Done(names)' <=> Done(names) \/ name \in names
  <2>1. Recipe' = Recipe /\ step' = step + 1
    BY <1>5, ReleaseStays DEF At, Ok, release
  <2>2. 1 .. step' - 1 = (1 .. step - 1) \union {step}
    BY <1>2, <2>1
  <2> QED BY <1>2, <2>1, <2>2 DEF Done
<1> QED BY <1>1, <1>2, <1>3, <1>4, <1>5

(* A step that moves on does not end the retrieval.                        *)
LEMMA OkIsNoError == \A name : At(name) /\ Ok => ~Error
BY DEF At, Ok, Error

(* The retrieval moves on: what is left to show of each kind of step.      *)
LEMMA OkStep ==
  ASSUME InductiveInvariant, NEW name, At(name), Ok,
         entry' \in BOOLEAN, astray' \in BOOLEAN,
         {want, file, sha, licensed}' \subseteq Generations \union {None},
         Reached', Aged'
  PROVE  InductiveInvariant'
<1>1. /\ UNCHANGED <<dep, digests, waived, listed, artifact, digest, seen, result>>
      /\ step' = step + 1
  BY DEF At, Ok, release, upstream
<1>2. /\ Configured' /\ Recipe' = Recipe
      /\ SupportsDependency /\ SupportsDependency' /\ result' = "running"
  BY <1>1, ReleaseStays DEF InductiveInvariant, At
<1>3. step' \in 1 .. Len(Recipe') + 1
  BY <1>1, <1>2, Position DEF WellOrdered
<1>4. TypeOK'
  BY <1>1, <1>2, <1>3 DEF InductiveInvariant, TypeOK
<1> QED BY <1>2, <1>4 DEF InductiveInvariant, Answered

(* The retrieval ends, or nothing changes.                                 *)
LEMMA EndStep ==
  ASSUME InductiveInvariant, UNCHANGED <<release, upstream, step, locals, seen, astray>>,
         result' \in {"running", "found", "empty", "error"}, Answered'
  PROVE  InductiveInvariant'
<1>1. UNCHANGED <<dep, digests, waived, listed, artifact, digest, step, entry, want, file,
                  sha, licensed, seen, astray>>
  BY DEF release, upstream, locals
<1>2. /\ Recipe' = Recipe /\ (SupportsDependency' <=> SupportsDependency)
      /\ (Configured' <=> Configured) /\ \A names : Done(names)' <=> Done(names)
  BY <1>1, ReleaseStays DEF Done
<1>3. TypeOK' /\ Aged'
  BY <1>1, <1>2 DEF InductiveInvariant, TypeOK, Aged
<1>4. SupportsDependency' => Reached'
  BY <1>1, <1>2 DEF InductiveInvariant, Reached
<1> QED BY <1>2, <1>3, <1>4 DEF InductiveInvariant

(* A request fails, and with it the retrieval.                             *)
LEMMA ErrorStep ==
  ASSUME InductiveInvariant, NEW name, At(name), Error
  PROVE  InductiveInvariant'
<1>1. UNCHANGED <<release, upstream, step, locals, seen, astray>> /\ result' = "error"
  BY DEF At, Error
<1>2. Answered'
  BY <1>1 DEF Answered
<1> QED BY <1>1, <1>2, EndStep

(* Upstream lists, replaces or publishes; the retrieval keeps what it has. *)
LEMMA MaintainStep ==
  ASSUME InductiveInvariant, Maintain
  PROVE  InductiveInvariant'
<1>1. UNCHANGED <<dep, digests, waived, step, entry, want, file, sha, licensed, result, astray>>
  BY DEF Maintain, release, locals
<1>2. /\ Recipe' = Recipe /\ (SupportsDependency' <=> SupportsDependency)
      /\ (Configured' <=> Configured) /\ \A names : Done(names)' <=> Done(names)
  BY <1>1, ReleaseStays DEF Done
<1>3. SupportsDependency' => Reached'
  BY <1>1, <1>2 DEF InductiveInvariant, Reached
<1>4. /\ artifact \in Generations /\ digest \in Generations /\ seen \subseteq Generations
      /\ {want, file, sha, licensed} \subseteq Generations \union {None}
      /\ \A g \in Generations \union {None} : g \in Nat
      /\ listed \in BOOLEAN /\ Aged
  BY MaxGenerationAssumption DEF InductiveInvariant, TypeOK, Generations, None
<1>5. /\ listed' \in BOOLEAN /\ artifact' \in Generations /\ digest' \in Generations
      /\ artifact <= artifact' /\ seen' = seen \union {artifact'}
  <2>1. CASE List
    BY <1>4, <2>1 DEF List, Aged
  <2>2. CASE Replace
    BY <1>4, <2>2, MaxGenerationAssumption DEF Replace, Generations
  <2>3. CASE PublishDigest
    BY <1>4, <2>3 DEF PublishDigest, Aged
  <2> QED BY <2>1, <2>2, <2>3 DEF Maintain
<1>6. TypeOK'
  BY <1>1, <1>2, <1>4, <1>5 DEF InductiveInvariant, TypeOK
<1>7. Aged'
  BY <1>1, <1>4, <1>5 DEF Aged
<1>8. Answered'
  BY <1>1, <1>2 DEF InductiveInvariant, Answered
<1> QED BY <1>2, <1>3, <1>6, <1>7, <1>8 DEF InductiveInvariant

(* Every step preserves the inductive invariant.                           *)
LEMMA NextInvariant == InductiveInvariant /\ [Next]_vars => InductiveInvariant'
<1> SUFFICES ASSUME InductiveInvariant, [Next]_vars
             PROVE  InductiveInvariant'
  OBVIOUS
<1>T. /\ listed \in BOOLEAN /\ entry \in BOOLEAN /\ astray \in BOOLEAN
      /\ {artifact, digest} \subseteq Generations
      /\ {want, file, sha, licensed} \subseteq Generations \union {None}
      /\ \A g \in Generations \union {None} : g \in Nat
      /\ None \notin Generations
  BY MaxGenerationAssumption DEF InductiveInvariant, TypeOK, Generations, None
<1>A. Aged
  BY DEF InductiveInvariant
<1>1. CASE Maintain
  BY <1>1, MaintainStep
<1>2. CASE ReadList
  <2>1. CASE Ok
    <3>1. At("list") /\ entry' = listed /\ UNCHANGED <<want, file, sha, licensed, astray>>
      BY <1>2, <2>1, OkIsNoError DEF ReadList
    <3>2. ~Done({"find"})
      BY <3>1, Position DEF WellOrdered
    <3>3. Reached'
      BY <2>1, <3>1, <3>2, Position DEF Reached
    <3>4. Aged'
      BY <1>A, <3>1 DEF Aged, At, upstream
    <3> QED BY <1>T, <2>1, <3>1, <3>3, <3>4, OkStep
  <2> QED BY <1>2, <2>1, ErrorStep DEF ReadList
<1>3. CASE ReadIndex
  <2>1. CASE Ok
    <3>1. /\ At("index") /\ entry' = listed
          /\ want' = IF digests = "none" THEN None ELSE digest
          /\ astray' = (astray \/ want' \notin {None, artifact})
          /\ UNCHANGED <<file, sha, licensed>>
      BY <1>3, <2>1, OkIsNoError DEF ReadIndex, ReadDigest
    <3>2. ~Done({"find"}) /\ ~Done({"verify", "licenses"})
      BY <3>1, Position DEF WellOrdered
    <3>3. ~Done({"verify"}) /\ ~Done({"licenses"})
      BY <3>2 DEF Done
    <3>4. Reached'
      BY <1>T, <2>1, <3>1, <3>2, <3>3, Position DEF Reached
    <3>5. licensed = None
      BY <3>1, <3>3, Position DEF Reached
    <3>6. want' \in {None, artifact} => want' <= artifact' /\ want' \in seen' \union {None}
      BY <1>A, <1>T, <3>1 DEF Aged, At, upstream, None
    <3>7. ~astray' => ~astray /\ want' \in {None, artifact}
      BY <1>T, <3>1
    <3>8. Aged'
      BY <1>A, <3>1, <3>5, <3>6, <3>7 DEF Aged, At, upstream
    <3> QED BY <1>T, <2>1, <3>1, <3>4, <3>8, OkStep
  <2> QED BY <1>3, <2>1, ErrorStep DEF ReadIndex
<1>4. CASE ReadPage
  <2>1. CASE Ok
    <3>1. At("page") /\ UNCHANGED <<entry, want, file, sha, licensed, astray>>
      BY <1>4, <2>1, OkIsNoError DEF ReadPage, locals
    <3>2. Reached'
      BY <2>1, <3>1, Position DEF Reached
    <3>3. Aged'
      BY <1>A, <3>1 DEF Aged, At, upstream
    <3> QED BY <1>T, <2>1, <3>1, <3>2, <3>3, OkStep
  <2> QED BY <1>4, <2>1, ErrorStep DEF ReadPage
<1>5. CASE ReadDigestFile
  <2>1. CASE Ok
    <3>1. /\ At("digest") /\ want' = IF digests = "none" THEN None ELSE digest
          /\ astray' = (astray \/ want' \notin {None, artifact})
          /\ UNCHANGED <<entry, file, sha, licensed>>
      BY <1>5, <2>1, OkIsNoError DEF ReadDigestFile, ReadDigest
    <3>2. ~Done({"verify", "licenses"})
      BY <3>1, Position DEF WellOrdered
    <3>3. ~Done({"verify"}) /\ ~Done({"licenses"})
      BY <3>2 DEF Done
    <3>4. Reached'
      BY <1>T, <2>1, <3>1, <3>3, Position DEF Reached
    <3>5. licensed = None
      BY <3>1, <3>3, Position DEF Reached
    <3>6. want' \in {None, artifact} => want' <= artifact' /\ want' \in seen' \union {None}
      BY <1>A, <1>T, <3>1 DEF Aged, At, upstream, None
    <3>7. ~astray' => ~astray /\ want' \in {None, artifact}
      BY <1>T, <3>1
    <3>8. Aged'
      BY <1>A, <3>1, <3>5, <3>6, <3>7 DEF Aged, At, upstream
    <3> QED BY <1>T, <2>1, <3>1, <3>4, <3>8, OkStep
  <2> QED BY <1>5, <2>1, ErrorStep DEF ReadDigestFile
<1>6. CASE Find
  <2>1. At("find") /\ UNCHANGED <<entry, want, file, sha, licensed, astray>>
    BY <1>6 DEF Find, locals
  <2>2. CASE Ok /\ entry
    <3>1. Reached'
      BY <2>1, <2>2, Position DEF Reached
    <3>2. Aged'
      BY <1>A, <2>1 DEF Aged, At, upstream
    <3> QED BY <1>T, <2>1, <2>2, <3>1, <3>2, OkStep
  <2>3. CASE ~entry /\ UNCHANGED step /\ result' \in {"empty", "error"}
             /\ (result' = "empty" => dep = "apcu")
    <3>1. UNCHANGED <<release, upstream, step, locals, seen, astray>>
      BY <2>1, <2>3 DEF At, locals
    <3>2. Answered'
      BY <2>1, <2>3, <3>1 DEF Answered, release
    <3> QED BY <2>3, <3>1, <3>2, EndStep
  <2> QED BY <1>6, <2>2, <2>3 DEF Find
<1>7. CASE NoChecksum
  BY <1>7, ErrorStep DEF NoChecksum
<1>8. CASE Download
  <2>1. CASE Ok
    <3>1. At("download") /\ file' = artifact /\ UNCHANGED <<entry, want, sha, licensed, astray>>
      BY <1>8, <2>1, OkIsNoError DEF Download
    <3>2. ~Done({"verify", "licenses"}) /\ ~Done({"hash"})
      BY <3>1, Position DEF WellOrdered
    <3>3. ~Done({"verify"}) /\ ~Done({"licenses"})
      BY <3>2 DEF Done
    <3>4. Reached'
      BY <1>T, <2>1, <3>1, <3>2, <3>3, Position DEF Reached
    <3>5. licensed = None
      BY <3>1, <3>3, Position DEF Reached
    <3>6. Aged'
      BY <1>A, <1>T, <3>1, <3>5 DEF Aged, At, upstream
    <3> QED BY <1>T, <2>1, <3>1, <3>4, <3>6, OkStep
  <2> QED BY <1>8, <2>1, ErrorStep DEF Download
<1>9. CASE Verify
  <2>1. CASE Ok
    <3>1. /\ At("verify") /\ file = want
          /\ UNCHANGED <<entry, want, file, sha, licensed, astray>>
      BY <1>9, <2>1, OkIsNoError DEF Verify, locals
    <3>2. Reached'
      BY <2>1, <3>1, Position DEF Reached
    <3>3. Aged'
      BY <1>A, <3>1 DEF Aged, At, upstream
    <3> QED BY <1>T, <2>1, <3>1, <3>2, <3>3, OkStep
  <2> QED BY <1>9, <2>1, ErrorStep DEF Verify
<1>10. CASE Hash
  <2>1. CASE Ok
    <3>1. At("hash") /\ sha' = file /\ UNCHANGED <<entry, want, file, licensed, astray>>
      BY <1>10, <2>1, OkIsNoError DEF Hash
    <3>2. Done({"download"})
      BY <3>1, Position DEF WellOrdered
    <3>3. Reached'
      BY <2>1, <3>1, <3>2, Position DEF Reached
    <3>4. Aged'
      BY <1>A, <1>T, <3>1 DEF Aged, At, upstream
    <3> QED BY <1>T, <2>1, <3>1, <3>3, <3>4, OkStep
  <2> QED BY <1>10, <2>1, ErrorStep DEF Hash
<1>11. CASE Take
  <2>1. CASE Ok
    <3>1. At("take") /\ sha' = want /\ UNCHANGED <<entry, want, file, licensed, astray>>
      BY <1>11, <2>1, OkIsNoError DEF Take
    <3>2. /\ Done({"index", "digest"}) /\ ~Done({"hash"})
          /\ digests = "none" => dep = "bundler"
      BY <3>1, Position DEF WellOrdered, Has
    <3>3. Reached'
      BY <2>1, <3>1, <3>2, Position DEF Reached
    <3>4. Aged'
      BY <1>A, <1>T, <3>1 DEF Aged, At, upstream
    <3> QED BY <1>T, <2>1, <3>1, <3>3, <3>4, OkStep
  <2> QED BY <1>11, <2>1, ErrorStep DEF Take
<1>12. CASE Licenses
  <2>1. CASE Ok
    <3>1. /\ At("licenses") /\ UNCHANGED <<entry, want, file, sha, astray>>
          /\ licensed' = artifact \/ (dep = "curl" /\ licensed' = licensed)
      BY <1>12, <2>1, OkIsNoError DEF Licenses, locals
    <3>2. dep' = dep
      BY <3>1 DEF At, release
    <3>3. Reached'
      BY <1>T, <2>1, <3>1, <3>2, Position DEF Reached
    <3>4. Aged'
      BY <1>A, <1>T, <3>1 DEF Aged, At, upstream
    <3> QED BY <1>T, <2>1, <3>1, <3>3, <3>4, OkStep
  <2> QED BY <1>12, <2>1, ErrorStep DEF Licenses
<1>13. CASE Answer
  <2>1. /\ UNCHANGED <<release, upstream, step, locals, seen, astray>>
        /\ \/ result' = "error"
           \/ SupportsDependency /\ step = Len(Recipe) + 1 /\ result' = "found"
    BY <1>13 DEF Answer
  <2>2. Recipe' = Recipe /\ (SupportsDependency' <=> SupportsDependency) /\ step' = step
    BY <2>1, ReleaseStays DEF release
  <2>3. Answered'
    BY <2>1, <2>2 DEF Answered
  <2> QED BY <2>1, <2>3, EndStep
<1>14. CASE UNCHANGED vars
  <2>1. UNCHANGED <<release, upstream, step, locals, seen, astray, result>>
    BY <1>14 DEF vars
  <2>2. Answered'
    BY <2>1, ReleaseStays DEF InductiveInvariant, Answered, release, locals
  <2> QED BY <2>1, <2>2, EndStep DEF InductiveInvariant, TypeOK
<1> QED
  BY <1>1, <1>2, <1>3, <1>4, <1>5, <1>6, <1>7, <1>8, <1>9, <1>10, <1>11, <1>12, <1>13, <1>14
     DEF Next

(* The inductive invariant holds in every reachable state.                 *)
THEOREM InvariantHolds == Spec => []InductiveInvariant
BY InitInvariant, NextInvariant, PTL DEF Spec

(* Type correctness, for any dependencies and number of replacements.      *)
THEOREM TypeCorrect == Spec => []TypeOK
<1>1. InductiveInvariant => TypeOK
  BY DEF InductiveInvariant
<1> QED BY <1>1, InvariantHolds, PTL

(* A step every recipe has is behind a retrieval that has found a version. *)
LEMMA FoundIsDone ==
  ASSUME InductiveInvariant, result = "found"
  PROVE  /\ Reached /\ WellOrdered
         /\ \A names : Has(names) => Done(names)
         /\ \A names : Done(names) => Has(names)
<1>1. SupportsDependency /\ step = Len(Recipe) + 1 /\ Reached
  BY DEF InductiveInvariant, Answered
<1>2. WellOrdered
  BY <1>1, RecipesAreWellOrdered DEF InductiveInvariant
<1>3. 1 .. step - 1 = DOMAIN Recipe
  BY <1>1, <1>2 DEF WellOrdered
<1> QED BY <1>1, <1>2, <1>3 DEF Has, Done

(* A version that is returned was listed and has licenses and a digest,    *)
(* but for a version of bundler that was published without.                *)
THEOREM AnswersAreComplete == Spec => []AnswerIsComplete
<1>1. InductiveInvariant => AnswerIsComplete
  <2> SUFFICES ASSUME InductiveInvariant
               PROVE  AnswerIsComplete
    OBVIOUS
  <2>1. result = "empty" => dep = "apcu" /\ ~entry
    BY DEF InductiveInvariant, Answered
  <2>2. CASE result = "found"
    <3>1. /\ Done({"find"}) /\ Done({"hash", "take", "fail"})
          /\ dep \notin {"composer", "curl"} => Done({"licenses", "fail"})
      BY <2>2, FoundIsDone DEF WellOrdered
    <3>2. /\ Done({"hash", "take"})
          /\ dep \notin {"composer", "curl"} => Done({"licenses"})
      BY <2>2, <3>1, FoundIsDone DEF Reached, Done
    <3> QED BY <2>1, <2>2, <3>1, <3>2, FoundIsDone DEF Reached, AnswerIsComplete
  <2> QED BY <2>1, <2>2 DEF AnswerIsComplete
<1> QED BY <1>1, InvariantHolds, PTL

(* A digest computed for a version with another one is of checked bytes.   *)
THEOREM HashedAreVerified == Spec => []HashedMeansVerified
<1>1. InductiveInvariant => HashedMeansVerified
  <2> SUFFICES ASSUME InductiveInvariant, result = "found", file # None,
                      digests = "other", ~waived
               PROVE  sha = file /\ file = want
    BY DEF HashedMeansVerified
  <2>1. Has({"download"})
    BY FoundIsDone DEF Reached
  <2>2. Done({"verify"}) /\ Done({"hash"})
    BY <2>1, FoundIsDone DEF WellOrdered
  <2> QED BY <2>2, FoundIsDone DEF Reached
<1> QED BY <1>1, InvariantHolds, PTL

(* The digest returned is of bytes that were current during the retrieval, *)
(* unless it was taken from upstream, which published another one.         *)
THEOREM DigestsWereCurrent == Spec => []ShaWasCurrent
<1>1. InductiveInvariant /\ AnswerIsComplete => ShaWasCurrent
  <2> SUFFICES ASSUME InductiveInvariant, AnswerIsComplete, result = "found"
               PROVE  sha \in seen \union {None} \/ (astray /\ file = None)
    BY DEF ShaWasCurrent
  <2>1. CASE file = None
    BY <2>1 DEF InductiveInvariant, Aged, AnswerIsComplete
  <2>2. CASE file # None
    <3>1. Done({"hash"})
      BY <2>2, FoundIsDone DEF Reached, WellOrdered
    <3> QED BY <2>2, <3>1, FoundIsDone DEF Reached, InductiveInvariant, Aged
  <2> QED BY <2>1, <2>2
<1> QED BY <1>1, InvariantHolds, AnswersAreComplete, PTL

(* In every recipe the licenses are detected after the digest's bytes,     *)
(* unless the digest was taken and upstream published another one.         *)
THEOREM LicensesAreNotOlder == Spec => []LicensesNotOlder
<1>1. InductiveInvariant => LicensesNotOlder
  <2> SUFFICES ASSUME InductiveInvariant, result = "found", licensed # None,
                      file # None \/ ~astray
               PROVE  sha <= licensed
    BY DEF LicensesNotOlder
  <2>1. CASE ~astray
    BY <2>1 DEF InductiveInvariant, Aged
  <2>2. CASE file # None
    <3>1. sha = file
      BY <2>2, FoundIsDone DEF Reached, WellOrdered
    <3> QED BY <3>1 DEF InductiveInvariant, Aged
  <2> QED BY <2>1, <2>2
<1> QED BY <1>1, InvariantHolds, PTL

=============================================================================
