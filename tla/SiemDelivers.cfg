CONSTANTS
  Files <- TwoFiles
  Commands = {"sentinel", "opensearch", "elastic", "splunk"}
  BatchSize = 2
  Endpoint = {e1, e2}
  Faults = {"setup", "refused", "error", "lost"}
  MaxRuns = 3
SPECIFICATION FairSpec
INVARIANTS TypeOK NothingLost BatchBounded DocIsLine ElasticAccounts
PROPERTIES RunEnds
CHECK_DEADLOCK FALSE
