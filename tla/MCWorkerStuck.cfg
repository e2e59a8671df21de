CONSTANTS
    Conn = {c1}
    Blocking = {c1}
    NoConn = NoConn
    KeepAlive = 1
    WorkerTimeout = 2
    StopTimeout = 1
SPECIFICATION Spec
PROPERTIES StuckKilled
CHECK_DEADLOCK FALSE
