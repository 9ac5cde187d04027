SPECIFICATION FairSpec
CONSTANTS
  Contents = {"old", "new", "truncated"}
  Version <- MCVersion
  Sound = {"old", "new"}
  First = "old"
  NoFile = NoFile
  NoRegistry = NoRegistry
  MaxEdits = 2
  Calls = {c1, c2}
  Schemes = {"bearer", "client", "partner", "cookie", "sso", "other"}
  Kind <- MCKind
  Place <- MCPlace
  Configured = {"bearer", "client", "partner", "cookie", "sso"}
  MaxTokens = 2
  AuthOf <- MCAuthOf
INVARIANTS
  TypeOK
  RegistryFollowsFile
  NeverUnknown
  CarriesOneGroup
  RetryIsFresh
CHECK_DEADLOCK FALSE
PROPERTIES
  CatchesUp
  CallsEnd
