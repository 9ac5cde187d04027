\* A login completed after its session ended.
SPECIFICATION FairSpec
CONSTANTS
  Schemes = {a}
  Sessions = {s1}
  Logins = {l1}
  Calls = {c1}
  None = None
  MaxGen = 1
  MaxSecond = 0
  MaxEpoch = 0
PROPERTY NoTokensAfterPurge
