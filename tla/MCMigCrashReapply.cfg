CONSTANTS
    p1 = p1
    p2 = p2
    Procs <- MCProcs1
    NumMigrations = 2
    MaxCommands = 4
    UpgradesMayFail = FALSE
    Crashes = TRUE
SPECIFICATION Spec
INVARIANT UpgradeAtMostOnce
\* Every behaviour ends when MaxCommands commands have run.
CHECK_DEADLOCK FALSE
