CONSTANTS
  Sid = {s1}
  Writes <- Up5Down5
  InCap = 1
  NetCap = 1
  Closing = {}
  Faults = {}
SPECIFICATION FairSpec
PROPERTIES DuplexDelivers
CHECK_DEADLOCK FALSE
