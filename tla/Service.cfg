CONSTANTS
  Runs = {r1, r2, r3}
  Versions = {v1, v2}
  MaxClock = 2
  NoVersion = NoVersion
  Requests = {q1}
  Spellings = {"go", "Go"}
  Key = "go"
  NoName = ""
  Chunks = 1
SPECIFICATION ServiceSpec
SYMMETRY Symmetry
CHECK_DEADLOCK FALSE
INVARIANTS
  UniqueVersions
  HeadIsNewest
  LostOnlyByOverlap
  CreatedAtIsStable
  ServedHoldsPublished
