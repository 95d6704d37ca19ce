\* One CLI process, three migration files, upgrades that may raise, rollback
\* and no crash: the setting in which the history and the database agree.
CONSTANTS
    p1 = p1
    p2 = p2
    Procs <- MCProcs1
    NumMigrations = 3
    MaxCommands = 8
    UpgradesMayFail = TRUE
    Crashes = FALSE
SPECIFICATION Spec
INVARIANT TypeOK
INVARIANT StatusReflectsDb
\* Every behaviour ends when MaxCommands commands have run; nothing in the
\* CLI waits, so the only terminal states are those of the bound.
CHECK_DEADLOCK FALSE
