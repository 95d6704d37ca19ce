\* Safety of the pool shared by two callers that release only what they hold.
CONSTANTS
    t1 = t1
    t2 = t2
    NoThread = NoThread
    Threads <- MCThreads2
    MinConnections = 3
    MaxConnections = 2
    AcquireTimeout = 2
    IdleTimeout = 1
    MaxTime = 3
    CallersReleaseStale = FALSE
SYMMETRY MCSymmetry2
SPECIFICATION Spec
INVARIANT TypeOK
INVARIANT ExclusiveOwnership
INVARIANT Capacity
\* acquire can block forever on the lock it already holds (acquire line 103
\* calling _create_connection line 61), after which every thread that needs
\* the lock waits too: the program itself stops there.
CHECK_DEADLOCK FALSE
