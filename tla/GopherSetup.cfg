CONSTANTS
  Thread = {t1, t2}
  Magic = {TRUE, FALSE}
  Failing <- AnyStep
  MaxRuns = 3
SPECIFICATION FairSpec
INVARIANTS TypeOK NamedWhileSetUp
PROPERTIES ToldUntilSignal NameIsOwn ComesUp
CHECK_DEADLOCK FALSE
