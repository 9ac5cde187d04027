SPECIFICATION FairSpec
CONSTANTS
  Calls = {c1, c2}
  MaxTokens = 3
  Nobody = Nobody
  MaxAttempts = 2
INVARIANTS
  TypeOK
  OneFetch
  RetryUsesNewerToken
  SendsAreBounded
PROPERTIES
  ImplementsSingleFlight
  DispatchEnds
