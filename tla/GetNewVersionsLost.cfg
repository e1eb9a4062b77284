CONSTANTS
  Jobs = {j1, j2}
  Versions = {v1, v2}
  MaxFaults = 1
SPECIFICATION Spec
SYMMETRY Symmetry
INVARIANT KnownWasPickedUp
