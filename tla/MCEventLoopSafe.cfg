SPECIFICATION Spec
CONSTANTS
    Workers = {w1, w2}
    Conns = {c1, c2}
    Requests = {r1, r2, r3, r4}
    NoWorker = NoWorker
    NoConn = NoConn
    NoRequest = NoRequest
    QueueSize = 2
    Secure = TRUE
    TimersRaceResets = FALSE
SYMMETRY Symmetry
INVARIANTS
    NoUseAfterFree
    OneWorkerPerConnection
    ServiceIsUndisturbed
    NoLostConnection
    RequestsAccounted
    RequestsInOrder
PROPERTIES
    ExpiredIsNotServed
    PartialRequestIsKept
CHECK_DEADLOCK FALSE
