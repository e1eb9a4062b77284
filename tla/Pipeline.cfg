CONSTANTS
  Runs = {r1, r2}
  RawVersions = {"go1.2"}
  Versions = {"1.2.0"}
  SemVer <- MCSemVer
  Sources = {s1, s2}
  Builds = {b1, b2}
  SkipCompile = FALSE
  SkipTest = FALSE
  Requires = TRUE
  MaxClock = 1
  NoVersion = NoVersion
  NoFile = NoFile
SPECIFICATION FairSpec
CHECK_DEADLOCK FALSE
INVARIANTS
  TypeOK
  PublishedIsDownloadable
  PublishedWasTested
  BuiltFromPublishedSource
PROPERTY RequestIsSettled
