\* With two workers and lists of one job: two rounds, and an empty list in the
\* second. The budget holds one upload and a copy.
CONSTANTS
  Jobs <- MCJobs
  WorkerCount = 2
  ChunkMax = 1
  MaxMemory = 3
  EntryErrors = {2, 4}
  PartErrors = {2}
  WorkerErrors = TRUE
SPECIFICATION Spec
INVARIANTS TypeOK ArchiveWhole BudgetConserved NoWorkerOutlives
PROPERTIES EveryoneEnds
\* The handler has answered.
CHECK_DEADLOCK FALSE
