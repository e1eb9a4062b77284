CONSTANTS
  Scripts = {"go", "node", "rust"}
  Servers = {"go", "node", "rust"}
  Working = {}
  Needing = {}
  Daemons = {}
  Matching = {}
  Quoted = {"go", "node", "rust"}
  Versions = {"6.0.1", "6.0.10"}
  Found <- MCFound
  MaxTries = 5
SPECIFICATION MCSpec
CHECK_DEADLOCK FALSE
INVARIANT PassedMeansServed
