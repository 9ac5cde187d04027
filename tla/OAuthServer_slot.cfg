\* One slot, two calls, two logins: the races for one session's tokens.
SPECIFICATION Spec
CONSTANTS
  Schemes = {a}
  Sessions = {s1}
  Logins = {l1, l2}
  Calls = {c1, c2}
  None = None
  MaxGen = 2
  MaxSecond = 1
  MaxEpoch = 1
SYMMETRY CallLoginSymmetry
INVARIANTS
  TypeOK
  NoLeakedLock
  RefreshExclusion
  RotationKept
  VerifierKept
PROPERTIES
  NoResurrection
  LoginsOnlyAdvance
