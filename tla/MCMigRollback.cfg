\* One CLI process that applies a migration and then rolls it back: the
\* rollback command must leave the migration no longer APPLIED.
CONSTANTS
    p1 = p1
    p2 = p2
    Procs <- MCProcs1
    NumMigrations = 2
    MaxCommands = 4
    UpgradesMayFail = FALSE
    Crashes = FALSE
SPECIFICATION Spec
PROPERTY RollbackReverts
\* Every behaviour ends when MaxCommands commands have run.
CHECK_DEADLOCK FALSE
