SPECIFICATION FairSpec
CONSTANTS
    Workers = {w1, w2, w3}
    NoWorker = NoWorker
    MaxArrivals = 3
    WaitSeconds = 1
    HeedsFailure = TRUE
INVARIANTS
    QueueOutlivesWorkers
    CleanStopIsClean
    HandleOutlivesService
    IInv
PROPERTIES
    StopReturns
    WorkersLeave
CHECK_DEADLOCK FALSE
