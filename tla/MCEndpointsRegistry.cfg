SPECIFICATION FairSpec
CONSTANTS
  MaxParams = 2
  MaxKeyLen = 3
  Callers = {c1}
  Workers = {w1}
  Nodes = {n1, n2, n3}
  Uris <- MCUris
  Requests <- MCRequests
  Handlers <- MCHandlers
  None = None
  NotFound = NotFound
  Rejected = Rejected
  UsesFind = FALSE
  UsesDirect = FALSE
  HeedsStop = TRUE
INVARIANTS NothingLeaks
PROPERTIES ImplementsRegistry RequestsAreAnswered
CHECK_DEADLOCK FALSE
