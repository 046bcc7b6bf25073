CONSTANTS
  Sid = {s1}
  Writes <- Up3Down3
  InCap = 1
  NetCap = 1
  Closing = {"client", "server"}
  Faults = {"assoc", "dial"}
SPECIFICATION FairSpec
INVARIANTS TypeOK DownInFlight
PROPERTIES DownSafe ReaderReleased
CHECK_DEADLOCK FALSE
