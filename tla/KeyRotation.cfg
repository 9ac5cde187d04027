SPECIFICATION Spec
CONSTANTS
  s1 = s1  s2 = s2  v1 = v1  v2 = v2
  k1 = k1  k2 = k2  f1 = f1  f2 = f2  f3 = f3
  Sessions <- MCSessions
  Values <- MCValues
  Keys <- MCKeys
  Files <- MCFiles
  WrongKey = WrongKey
  None = None
  Same = Same
SYMMETRY Interchange
INVARIANTS
  TypeOK
  NothingLost
  OneKey
  ReadsItsWrites
