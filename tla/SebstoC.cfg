\* Three downloads and 6 bytes at a time, batches of 4 bytes.
CONSTANTS
  Lists <- MCLists
  MaxDownloads = 3
  MaxInflight = 6
  BatchSize = 4
  CountLimit = 4
  Limit = 100
SPECIFICATION Spec
INVARIANTS TypeOK OkMeansWhole
PROPERTIES AnswerHasCause
CHECK_DEADLOCK FALSE
