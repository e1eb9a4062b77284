CONSTANTS
  Releases = {1, 2, 3, 4}
  Name <- MCName
  PageSize = 1
  Dependency = {"composer", "tini", "nginx", "rust"}
  MaxChanges = 2
SPECIFICATION Spec
INVARIANTS
  TypeOK
  DoubledOnlyByPublication
  RepeatedOnlyAfterLoss
PROPERTIES
  ImplementsSnapshot
  ListingEnds
