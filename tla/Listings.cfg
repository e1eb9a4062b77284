CONSTANTS
  Families = {"dotnet", "httpd", "php", "pypi", "icu", "curl", "go", "node",
              "python", "bundler", "ruby", "pecl"}
  Versions = {1, 2, 3, 4, 5}
  Kind <- MCKind
  TextRank <- MCTextRank
  Channels <- MCChannels
  Prefix <- MCPrefix
  WrongChannel <- MCWrongChannel
  PageKey <- MCPageKey
  MaxDate = 2
  MaxRows = 2
  MaxChanges = 1
  Failed = Failed
  Nothing = Nothing
SPECIFICATION Spec
CHECK_DEADLOCK FALSE
INVARIANTS
  TypeOK
  ListingIsComplete
  NewestFirst
  MapOrderIsInvisible
  ListedIsDated
