CONSTANTS
  Thread = {t1, t2}
  Magic = {TRUE, FALSE}
  Failing = {}
  MaxRuns = 1
SPECIFICATION Spec
INVARIANTS EngineInside
CHECK_DEADLOCK FALSE
