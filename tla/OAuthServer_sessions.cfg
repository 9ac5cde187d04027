\* Two sessions: what one does never reaches the other's tokens.
SPECIFICATION Spec
CONSTANTS
  Schemes = {a}
  Sessions = {s1, s2}
  Logins = {l1, l2}
  Calls = {c1, c2}
  None = None
  MaxGen = 1
  MaxSecond = 0
  MaxEpoch = 0
SYMMETRY CallLoginSymmetry
INVARIANTS
  SessionIsolation
