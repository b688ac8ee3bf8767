\* HEADs two at a time, two segments at a time.
CONSTANTS
  Lists <- MCLists
  Floor = 3
  Limit = 9
  CountLimit = 3
  HeadWindow = 2
  BuildWindow = 2
SPECIFICATION ChainSpec
INVARIANTS LinksLegal ArchiveReadable
PROPERTIES RunHasCause
CHECK_DEADLOCK FALSE
