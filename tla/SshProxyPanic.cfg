CONSTANTS
  User = {u1}
  IP = {a, b, c}
  SessionPerUser = 1
  Expiry = 1
SPECIFICATION Spec
INVARIANTS NoIndexPanic
CHECK_DEADLOCK FALSE
