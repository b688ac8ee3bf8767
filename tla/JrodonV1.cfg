\* A download, an upload and an add_file may fail.
CONSTANTS
  FileCount = 3
  Size <- MCSize
  MaxMemory = 3
  MaxUploads = 2
  ChunkSize = 2
  SlabCount = 2
  DirectorySize = 2
  MinPart = 2
  FetchFails = {1, 3}
  UploadFails = TRUE
  ZipFails = {2}
SPECIFICATION Spec
INVARIANTS PermitsConserved ObjectWhole
PROPERTIES HandlerAnswers
\* The handler has answered and every task has ended.
CHECK_DEADLOCK FALSE
