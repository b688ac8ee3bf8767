\* c1 is slow and its deletions may fail; connections to c2 may be lost.
CONSTANTS
  Contenders = {c1, c2}
  RunsPerContender = 2
  Slow = {c1}
  LostCalls = {c2}
  DeleteErrors = {c1}
  ConfigErrors = {c1}
SPECIFICATION BenchSpec
INVARIANTS ListsRight VerdictOwn OnlyLostLeft
PROPERTIES ExecutionEnds
\* The execution has ended.
CHECK_DEADLOCK FALSE
