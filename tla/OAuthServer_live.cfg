\* Two schemes, so that purge and DELETE have several stores to visit.
SPECIFICATION FairSpec
CONSTANTS
  Schemes = {a, b}
  Sessions = {s1}
  Logins = {l1}
  Calls = {c1, c2}
  None = None
  MaxGen = 1
  MaxSecond = 0
  MaxEpoch = 0
PROPERTIES
  CallsComplete
  RequestsComplete
  SessionsArePurged
