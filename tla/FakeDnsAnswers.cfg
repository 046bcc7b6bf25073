CONSTANTS
  Letter <- Letters
  MaxLen = 2
  MaxLines = 2
  Query = {q1, q2}
  Asked <- AskedNames
SPECIFICATION FairSpec
INVARIANTS TypeOK LookupIsReference AnswerMatches
PROPERTIES RepliesSafe QueryReplied
CHECK_DEADLOCK FALSE
