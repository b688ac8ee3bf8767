\* Windows of 2 and 4 over 9 bytes: the last is cut; every byte may be sought.
CONSTANTS
  Size = 9
  MinWindow = 2
  MaxWindow = 4
  FetchErrors = TRUE
SPECIFICATION Spec
INVARIANTS InFlightExact
PROPERTIES ReadReturns
\* The caller may stop, or have panicked.
CHECK_DEADLOCK FALSE
