\* Two CLI processes running create, migrate and rollback, with failing
\* upgrades and crashes at every step.
CONSTANTS
    p1 = p1
    p2 = p2
    Procs <- MCProcs2
    NumMigrations = 3
    MaxCommands = 6
    UpgradesMayFail = TRUE
    Crashes = TRUE
SYMMETRY MCSymmetry2
SPECIFICATION Spec
INVARIANT RecordsFollowUpgrades
\* Every behaviour ends when MaxCommands commands have run; nothing in the
\* CLI waits, so the only terminal states are those of the bound.
CHECK_DEADLOCK FALSE
