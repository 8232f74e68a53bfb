SPECIFICATION FairSpec
CONSTANTS
    Workers = {w1}
    Conns = {c1, c2}
    Requests = {r1, r2}
    QueueSize = 2
    Secure = TRUE
    NoWorker = NoWorker
    NoConn = NoConn
    NoRequest = NoRequest
    TimersRaceResets = FALSE
PROPERTIES
    IdleIsClosed
    InputIsServed
    ResetIsReclaimed
CHECK_DEADLOCK FALSE
