CONSTANTS
  Chunks = 2
  Shared = {"md5", "sha1", "sha256"}
  Own = {"tlsh", "ssdeep"}
  Index = {"big", "small"}
  Pages <- OneAndTwoPages
  Offers <- AnyOrder
  Wanted = {"big", "small"}
  Refused = TRUE
  Error = TRUE
  Cut = TRUE
  Disk = TRUE
  Key = {k, l}
  Val = {v, w}
  BATCH_SIZE = 2
  PebMaxLines = 3
  PebMaxRuns = 2
  HWID = {id}
  Date = {}
  Stages <- ThreeStages
  MaxRows = 1
  RlMaxRuns = 2
  RpMaxLines = 4
  RpMaxFiles = 2
  Request = {q1, q2}
  BodyMax = 2
  SNI = {"a", "b"}
  Backend = {x, y}
  FlagMax = 3
SPECIFICATION ToolsSpec
INVARIANTS ToolsTypeOK PrintedOnce DumpTold LinesKept FilesOfRuns RowsOfText AnswerTellsLog OwnOrDefault
PROPERTIES DumpSafe ToolsEnd
CHECK_DEADLOCK FALSE
