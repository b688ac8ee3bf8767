\* Two copies and two streams at a time.
CONSTANTS
  Lists <- MCLists
  Floor = 4
  Limit = 13
  CountLimit = 3
  CopyWindow = 2
  StreamWindow = 2
SPECIFICATION Spec
INVARIANTS PartsLegal ArchiveReadable
PROPERTIES AnswerHasCause
CHECK_DEADLOCK FALSE
