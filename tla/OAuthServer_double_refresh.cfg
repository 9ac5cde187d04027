\* The session lock expires while a refresh holds it.
SPECIFICATION Spec
CONSTANTS
  Schemes = {a}
  Sessions = {s1}
  Logins = {l1}
  Calls = {c1, c2}
  None = None
  MaxGen = 2
  MaxSecond = 0
  MaxEpoch = 1
INVARIANT SingleRefresh
