SPECIFICATION Spec
CONSTANTS
  Messages <- MCChunked
  MaxRequests = 1
  MaxLine = 6
  MaxName = 2
  MaxValue = 3
  CutsAnywhere = TRUE
INVARIANTS RefusedOnlyIfMalformed
CHECK_DEADLOCK FALSE
