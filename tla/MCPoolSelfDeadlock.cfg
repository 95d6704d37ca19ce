\* min_connections = 0, max_connections = 1: the first acquire should get a new connection.
CONSTANTS
    t1 = t1
    t2 = t2
    NoThread = NoThread
    Threads <- MCThreads1
    MinConnections = 0
    MaxConnections = 1
    AcquireTimeout = 2
    IdleTimeout = 1
    MaxTime = 3
    CallersReleaseStale = FALSE
SPECIFICATION FairSpec
PROPERTY AcquireCompletes
CHECK_DEADLOCK FALSE
