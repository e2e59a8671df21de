CONSTANTS
    Conn = {c1, c2}
    Blocking = {c1}
    NoConn = NoConn
    KeepAlive = 1
    WorkerTimeout = 2
    StopTimeout = 1
SPECIFICATION ReturningSpec
INVARIANTS TypeOK StopHeeded
PROPERTIES RequestsSpared IdleReaped StopEnds
CHECK_DEADLOCK FALSE
