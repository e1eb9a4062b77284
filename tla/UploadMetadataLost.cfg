CONSTANTS
  Runs = {r1, r2, r3}
  Versions = {v1, v2}
  MaxClock = 2
  NoVersion = NoVersion
SPECIFICATION Spec
SYMMETRY Symmetry
CHECK_DEADLOCK FALSE

INVARIANT EveryUploadIsPublished
