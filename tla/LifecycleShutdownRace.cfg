SPECIFICATION Spec
CONSTANTS
    Workers = {w1, w2, w3}
    NoWorker = NoWorker
    MaxArrivals = 3
    WaitSeconds = 1
    HeedsFailure = TRUE
INVARIANTS
    HandleOutlivesWorkers
CHECK_DEADLOCK FALSE
