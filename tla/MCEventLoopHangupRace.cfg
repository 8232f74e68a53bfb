SPECIFICATION Spec
CONSTANTS
    Workers = {w1, w2}
    Conns = {c1}
    Requests = {r1, r2, r3}
    NoWorker = NoWorker
    NoConn = NoConn
    NoRequest = NoRequest
    QueueSize = 5
    Secure = FALSE
    TimersRaceResets = TRUE
INVARIANTS
    NoUseAfterFree
CHECK_DEADLOCK FALSE
