CONSTANTS
  Sid = {s1, s2}
  Writes <- Up2Down0
  InCap = 1
  NetCap = 1
  Closing = {}
  Faults = {}
SPECIFICATION Spec
INVARIANTS UploadStaysOwn
CHECK_DEADLOCK FALSE
