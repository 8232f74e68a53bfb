SPECIFICATION Spec
CONSTANTS
  MaxParams = 2
  MaxKeyLen = 3
  Callers = {c1}
  Workers = {w1, w2}
  Nodes = {n1, n2, n3}
  Uris <- MCUris
  Requests <- MCRequests
  Handlers <- MCHandlers
  None = None
  NotFound = NotFound
  Rejected = Rejected
  UsesFind = TRUE
  UsesDirect = TRUE
  HeedsStop = TRUE
SYMMETRY Symmetry
INVARIANTS NoUseAfterFree EndpointsAreDistinct DistinctInv
CHECK_DEADLOCK FALSE
