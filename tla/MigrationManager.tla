-------------------------- MODULE MigrationManager --------------------------
(***************************************************************************)
(* MigrationManager (src/src/migration/migration_manager.py) driven by the  *)
(* migration CLI (src/src/migration/cli.py): the create, migrate and        *)
(* rollback commands.                                                       *)
(*                                                                         *)
(* Persistent state:                                                       *)
(*   - the migration files in the migrations directory;                   *)
(*   - the history file migration_history.json;                           *)
(*   - the effect of the migrations on the database.                      *)
(* Each CLI invocation is a process that may run beside another one and    *)
(* may crash at any step.  The database effect of migration i is counted   *)
(* by ups[i], the upgrade() calls that completed.  rollback never calls     *)
(* downgrade(): the history record it passes to revert_migration() has no   *)
(* 'filepath' key (record_migration, lines 134-141), so line 189 raises     *)
(* KeyError first.                                                          *)
(***************************************************************************)
EXTENDS Naturals, Sequences, FiniteSets

CONSTANTS
    Procs,            \* concurrent invocations of the migration CLI
    NumMigrations,    \* migration files that can ever exist
    MaxCommands,      \* bound on the CLI commands run, over all processes
    UpgradesMayFail,  \* whether loading, upgrade() or downgrade() may raise
    Crashes           \* whether a process may die between two steps

ASSUME MigConstantsAssumption ==
    /\ IsFiniteSet(Procs)
    /\ NumMigrations \in Nat
    /\ MaxCommands \in Nat
    /\ UpgradesMayFail \in BOOLEAN
    /\ Crashes \in BOOLEAN

(* Migration files, numbered in the order sorted(os.listdir()) gives them  *)
(* (timestamp, then name).                                                  *)
Mig == 1..NumMigrations

(* A history entry: record_migration() keeps the file name and the action; *)
(* the timestamp, name, hash and applied_at fields are never read back by  *)
(* the code, and it writes no 'filepath'.  Only apply_migration() records, *)
(* with "applied"; the "reverted" record of revert_migration() (line 202)  *)
(* is never reached.                                                        *)
Actions == {"applied"}

Record == [file : Mig, action : Actions]

PC == {"idle", "mig_next", "mig_upgrade", "rb_revert",
       "rec_read", "rec_trunc", "rec_dump"}

VARIABLES
    files,      \* migration files present in migrations_dir
    history,    \* what get_applied_migrations() reads from the history file
    ups,        \* ups[i]: upgrade() calls that completed for migration i
    pc,         \* pc[p]: where process p is
    todo,       \* todo[p]: migrations migrate() still has to apply
    cur,        \* cur[p]: the migration being applied or rolled back (0: none)
    buf,        \* buf[p]: the history record_migration() read
    commands    \* CLI commands started so far

vars == <<files, history, ups, pc, todo, cur, buf, commands>>

procVars == <<pc, todo, cur, buf>>

(* The file names migrate() and the status command treat as applied: those *)
(* with a record whose action is "applied" (migration_manager.py line 218,  *)
(* cli.py line 156).                                                        *)
AppliedFilenames(h) == {h[k].file : k \in {k \in DOMAIN h : h[k].action = "applied"}}

(* The first file of a set in sorted order. *)
Earliest(S) == CHOOSE i \in S : \A j \in S : i <= j

Init ==
    /\ files = {}
    /\ history = <<>>
    /\ ups = [i \in Mig |-> 0]
    /\ pc = [p \in Procs |-> "idle"]
    /\ todo = [p \in Procs |-> {}]
    /\ cur = [p \in Procs |-> 0]
    /\ buf = [p \in Procs |-> <<>>]
    /\ commands = 0

(* The state a process returns to when a command ends or raises. *)
Finish(p) ==
    /\ pc' = [pc EXCEPT ![p] = "idle"]
    /\ todo' = [todo EXCEPT ![p] = {}]
    /\ cur' = [cur EXCEPT ![p] = 0]
    /\ buf' = [buf EXCEPT ![p] = <<>>]

(* create: create_migration() writes a new file.  Its place in the sorted *)
(* order is set by a second-resolution timestamp and the name, so a new    *)
(* file may sort before files that exist already.                          *)
CreateMigration(p) ==
    /\ pc[p] = "idle"
    /\ commands < MaxCommands
    /\ \E i \in Mig \ files : files' = files \cup {i}
    /\ commands' = commands + 1
    /\ UNCHANGED <<history, ups, procVars>>

(* Mutant: migrate ignores the history and applies every file. *)
MigrateStartNoHistory(p) ==
    /\ pc[p] = "idle"
    /\ commands < MaxCommands
    /\ todo' = [todo EXCEPT ![p] = files]
    /\ pc' = [pc EXCEPT ![p] = "mig_next"]
    /\ commands' = commands + 1
    /\ UNCHANGED <<files, history, ups, cur, buf>>

(* migrate, lines 214-218: list the files, read the history and keep the  *)
(* files with no "applied" record.                                          *)
MigrateStart(p) ==
    /\ pc[p] = "idle"
    /\ commands < MaxCommands
    /\ todo' = [todo EXCEPT ![p] = files \ AppliedFilenames(history)]
    /\ pc' = [pc EXCEPT ![p] = "mig_next"]
    /\ commands' = commands + 1
    /\ UNCHANGED <<files, history, ups, cur, buf>>

(* Mutant: the loop applies the file after the one it removes. *)
MigrateNextOffByOne(p) ==
    /\ pc[p] = "mig_next"
    /\ \/ /\ todo[p] = {}
          /\ Finish(p)
       \/ /\ todo[p] # {}
          /\ cur' = [cur EXCEPT ![p] = Earliest(todo[p]) + 1]
          /\ todo' = [todo EXCEPT ![p] = @ \ {Earliest(todo[p])}]
          /\ pc' = [pc EXCEPT ![p] = "mig_upgrade"]
          /\ UNCHANGED buf
    /\ UNCHANGED <<files, history, ups, commands>>

(* migrate, lines 221-223: the loop over the pending files in sorted     *)
(* order; when none is left, migrate() returns.                             *)
MigrateNext(p) ==
    /\ pc[p] = "mig_next"
    /\ \/ /\ todo[p] = {}
          /\ Finish(p)
       \/ /\ todo[p] # {}
          /\ cur' = [cur EXCEPT ![p] = Earliest(todo[p])]
          /\ todo' = [todo EXCEPT ![p] = @ \ {Earliest(todo[p])}]
          /\ pc' = [pc EXCEPT ![p] = "mig_upgrade"]
          /\ UNCHANGED buf
    /\ UNCHANGED <<files, history, ups, commands>>

(* Mutant: the migration is recorded even when upgrade() raises, as if     *)
(* record_migration() were called in a finally block.                       *)
MigrateUpgradeRecordOnFailure(p) ==
    /\ pc[p] = "mig_upgrade"
    /\ \/ ups' = [ups EXCEPT ![cur[p]] = @ + 1]
       \/ UpgradesMayFail /\ UNCHANGED ups
    /\ pc' = [pc EXCEPT ![p] = "rec_read"]
    /\ UNCHANGED <<files, history, todo, cur, buf, commands>>

(* apply_migration(), lines 157-176: load the file and call upgrade(db).  *)
(* If loading fails, upgrade is missing or upgrade() raises, the exception *)
(* ends migrate() and the CLI (cli.py 177-179) with nothing recorded.     *)
MigrateUpgrade(p) ==
    /\ pc[p] = "mig_upgrade"
    /\ \/ /\ ups' = [ups EXCEPT ![cur[p]] = @ + 1]
          /\ pc' = [pc EXCEPT ![p] = "rec_read"]
          /\ UNCHANGED <<todo, cur, buf>>
       \/ /\ UpgradesMayFail
          /\ Finish(p)
          /\ UNCHANGED ups
    /\ UNCHANGED <<files, history, commands>>

(* rollback (cli.py 135-142): read the history; with no record, print "No *)
(* migrations to rollback" and end; otherwise pass its last record,        *)
(* whatever its action, to revert_migration().                              *)
RollbackStart(p) ==
    /\ pc[p] = "idle"
    /\ commands < MaxCommands
    /\ commands' = commands + 1
    /\ \/ /\ history = <<>>
          /\ UNCHANGED procVars
       \/ /\ history # <<>>
          /\ cur' = [cur EXCEPT ![p] = history[Len(history)].file]
          /\ pc' = [pc EXCEPT ![p] = "rb_revert"]
          /\ UNCHANGED <<todo, buf>>
    /\ UNCHANGED <<files, history, ups>>

(* revert_migration(), line 189: migration_info['filepath'] raises KeyError *)
(* on a history record, before the file is loaded or downgrade() is called; *)
(* the CLI's handler (177-179) ends the command.                            *)
RollbackRevert(p) ==
    /\ pc[p] = "rb_revert"
    /\ Finish(p)
    /\ UNCHANGED <<files, history, ups, commands>>

(* record_migration(), line 132: read the history file. *)
RecordRead(p) ==
    /\ pc[p] = "rec_read"
    /\ buf' = [buf EXCEPT ![p] = history]
    /\ pc' = [pc EXCEPT ![p] = "rec_trunc"]
    /\ UNCHANGED <<files, history, ups, todo, cur, commands>>

(* record_migration(), line 146: open(..., 'w') truncates the file; until *)
(* json.dump() has written it, get_applied_migrations() reads it as [].   *)
RecordTruncate(p) ==
    /\ pc[p] = "rec_trunc"
    /\ history' = <<>>
    /\ pc' = [pc EXCEPT ![p] = "rec_dump"]
    /\ UNCHANGED <<files, ups, todo, cur, buf, commands>>

(* record_migration(), lines 134-147: write the history read at line 132  *)
(* with the new "applied" record appended; migrate() goes on with its loop. *)
RecordDump(p) ==
    /\ pc[p] = "rec_dump"
    /\ history' = Append(buf[p], [file |-> cur[p], action |-> "applied"])
    /\ pc' = [pc EXCEPT ![p] = "mig_next"]
    /\ UNCHANGED <<files, ups, todo, cur, buf, commands>>

(* The process dies (killed, machine lost) between two steps: the files,  *)
(* the history file and the database keep what was written.                *)
Crash(p) ==
    /\ Crashes
    /\ pc[p] # "idle"
    /\ Finish(p)
    /\ UNCHANGED <<files, history, ups, commands>>

Next ==
    \E p \in Procs :
        \/ CreateMigration(p)
        \/ MigrateStart(p)
        \/ MigrateNext(p)
        \/ MigrateUpgrade(p)
        \/ RollbackStart(p)
        \/ RollbackRevert(p)
        \/ RecordRead(p)
        \/ RecordTruncate(p)
        \/ RecordDump(p)
        \/ Crash(p)

Spec == Init /\ [][Next]_vars

-----------------------------------------------------------------------------
(* Properties *)

(* The database effect of migration i: 1 when it is in effect. *)
InEffect(i) == ups[i]

(* The records of migration i with action a in a history. *)
RecordCount(h, i, a) == Cardinality({k \in DOMAIN h : h[k] = [file |-> i, action |-> a]})

(* The state of every variable, and a process that holds a migration holds *)
(* a real one.                                                               *)
TypeOK ==
    /\ files \subseteq Mig
    /\ history \in Seq(Record)
    /\ ups \in [Mig -> Nat]
    /\ pc \in [Procs -> PC]
    /\ todo \in [Procs -> SUBSET Mig]
    /\ cur \in [Procs -> Mig \cup {0}]
    /\ buf \in [Procs -> Seq(Record)]
    /\ commands \in 0..MaxCommands
    /\ \A p \in Procs : pc[p] \notin {"idle", "mig_next"} => cur[p] \in Mig

(* Whenever no command is running, what the status command prints agrees *)
(* with the database: a file is listed APPLIED exactly when its upgrade is *)
(* in effect, exactly once.                                                  *)
StatusReflectsDb ==
    (\A p \in Procs : pc[p] = "idle") =>
        \A i \in files : (i \in AppliedFilenames(history)) <=> InEffect(i) = 1

(* The history file never claims more than was done: for every migration, *)
(* it holds no more "applied" records than upgrade() calls that completed,  *)
(* whatever the crashes and the interleaving of two CLI processes.          *)
RecordsFollowUpgrades ==
    \A i \in Mig : RecordCount(history, i, "applied") <= ups[i]

(* No migration's upgrade() runs on a database where it is already in      *)
(* effect.                                                                   *)
UpgradeAtMostOnce == \A i \in Mig : InEffect(i) <= 1

(* What cli.py promises of rollback: it prints "Reverted migration: <name>" *)
(* (line 141) after revert_migration(), whose docstring says it reverts the *)
(* migration; so when a rollback of the last recorded migration ends, the  *)
(* status command no longer lists that migration as APPLIED.                *)
RollbackReverts ==
    [][\A p \in Procs : pc[p] = "rb_revert" /\ pc'[p] = "idle"
                         => cur[p] \notin AppliedFilenames(history')]_vars

=============================================================================
