\* A caller holds a handle when another caller closes the pool.
CONSTANTS
    t1 = t1
    t2 = t2
    NoThread = NoThread
    Threads <- MCThreads2
    MinConnections = 1
    MaxConnections = 1
    AcquireTimeout = 2
    IdleTimeout = 2
    MaxTime = 2
    CallersReleaseStale = FALSE
SPECIFICATION Spec
INVARIANT InUseRecordsHeld
CHECK_DEADLOCK FALSE
