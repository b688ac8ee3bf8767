\* The sizes of files and headers against the two thresholds; a file of 270 bytes
\* fills the fields of 32 bits, one of 360 needs ZIP64, and so do six files.
CONSTANTS
  MaxFiles = 6
  FileSizes = {0, 30, 60, 120, 150, 210, 270, 360}
  NameLen <- MCNameLen
  Max32 = 270
  Max16 = 5
  MinPart = 150
  Target = 240
  MaxMemory = 552
SPECIFICATION PlanSpec
INVARIANTS TypeOK LayoutLegal OffsetsMatch JobsLegal FilesCarried
\* The jobs are built.
CHECK_DEADLOCK FALSE
