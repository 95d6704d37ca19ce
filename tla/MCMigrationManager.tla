------------------------- MODULE MCMigrationManager -------------------------
(* Model values and definitions for checking MigrationManager with TLC. *)
EXTENDS MigrationManager, TLC

CONSTANTS p1, p2

(* One CLI invocation at a time, as a developer runs it. *)
MCProcs1 == {p1}

(* Two invocations at once, as two deploy jobs would run them. *)
MCProcs2 == {p1, p2}

MCSymmetry2 == Permutations(MCProcs2)
=============================================================================
