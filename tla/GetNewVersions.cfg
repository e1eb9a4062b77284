CONSTANTS
  Jobs = {j1, j2}
  Versions = {v1, v2}
  MaxFaults = 2
SPECIFICATION FairSpec
INVARIANTS
  SettledStaysKnown
  NoRepeatedRequest
PROPERTIES
  ImplementsWatch
  NewVersionIsRequested
