CONSTANTS
  User = {u1}
  IP = {a, b, c}
  SessionPerUser = 1
  Expiry = 1
SPECIFICATION FairSpec
INVARIANTS TypeOK SessionBound DistinctIPs
PROPERTIES TableSafe PolicyKeepsFresh ExpiredGoes
CHECK_DEADLOCK FALSE
