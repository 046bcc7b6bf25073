CONSTANTS
  Files <- TwoFiles
  Commands = {"sentinel"}
  BatchSize = 2
  Endpoint = {e1, e2}
  Faults = {}
  MaxRuns = 3
SPECIFICATION Spec
INVARIANTS ReadsAll
CHECK_DEADLOCK FALSE
