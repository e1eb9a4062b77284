CONSTANTS
  Dependencies = {"apcu", "bundler", "composer", "curl", "dotnet", "go", "httpd", "icu",
                  "nginx", "node", "php", "pip", "python", "ruby", "rust", "tini", "yarn",
                  "unsupported"}
  MaxGeneration = 2
SPECIFICATION Spec
INVARIANTS
  TypeOK
  AnswerIsComplete
  HashedMeansVerified
  ShaWasCurrent
  LicensesNotOlder
