\* One file above the budget, one of size 0; six parts, two slots.
CONSTANTS
  Size <- MCSize
  Budget = 4
  ChunkSize = 3
  MaxInFlight = 2
  MaxUploads = 3
  DirectorySize = 2
  FetchFails = {1, 3, 4}
  PartFails = TRUE
SPECIFICATION JobSpec
INVARIANT OkMeansEveryPart
CHECK_DEADLOCK FALSE
