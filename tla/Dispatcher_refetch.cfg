\* A late 401 for an old token drops the token fetched after it.
SPECIFICATION Spec
CONSTANTS
  Calls = {c1, c2}
  MaxTokens = 2
  Nobody = Nobody
  MaxAttempts = 1
INVARIANT FetchOncePerWindow
