CONSTANTS
  Sid = {s1, s2}
  Writes <- BusyAndOthers
  InCap = 1
  NetCap = 1
  Closing = {}
  Faults = {}
SPECIFICATION FairSpec
INVARIANTS NeverOlder
PROPERTIES Delivered
CHECK_DEADLOCK FALSE
