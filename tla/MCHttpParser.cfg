SPECIFICATION Spec
CONSTANTS
  Messages <- MCMessages
  MaxRequests = 2
  MaxLine = 6
  MaxName = 2
  MaxValue = 3
  CutsAnywhere = FALSE
INVARIANTS ServedAsSent RefusedOnlyIfMalformed NextRequestIsClean WaitsForSender
CHECK_DEADLOCK FALSE
