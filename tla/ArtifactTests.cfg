CONSTANTS
  Scripts = {"httpd", "python", "yarn", "dotnet-runtime", "curl", "icu"}
  Servers = {"httpd", "python"}
  Working = {"yarn", "curl"}
  Needing = {"yarn", "dotnet-runtime"}
  Matching = {"dotnet-runtime"}
  Daemons = {"httpd"}
  Quoted = {}
  Versions = {"6.0.1", "6.0.10"}
  Found <- MCFound
  MaxTries = 5
SPECIFICATION MCSpec
CHECK_DEADLOCK FALSE
INVARIANTS
  TypeOK
  RejectedAfterAllTries
  PassedMeansServed
  ValidateTypeOK
  TestedArtifactIsComplete
PROPERTY ScriptEnds
