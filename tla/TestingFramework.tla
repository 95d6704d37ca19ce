-------------------------- MODULE TestingFramework --------------------------
(***************************************************************************)
(* The database life cycle of the PhantomDB testing framework              *)
(* (src/src/testing/framework.py), run by several test processes against   *)
(* one server.                                                             *)
(*                                                                         *)
(* A test runs in one of two harnesses:                                    *)
(*   - PhantomDBTestRunner.run_test_case() on a PhantomDBTestCase: setUp   *)
(*     names the database test_db_<ms> and creates it, the test method     *)
(*     creates tables through create_table(), then tearDown drops the      *)
(*     database and runs the registered cleanups in reverse order;         *)
(*   - the phantomdb_test decorator: create, call the test, drop in a      *)
(*     finally clause.                                                     *)
(* Each client call is one step of the PhantomDBClient module, with its    *)
(* network outcome.  The clock is int(time.time() * 1000), a test          *)
(* database's name is the clock value, and several steps may happen in one *)
(* millisecond.  `owner` records which test created each database; it is   *)
(* observation only, and no step reads it.                                  *)
(***************************************************************************)
EXTENDS PhantomDBClient, Integers, Sequences

CONSTANTS
    Testers,        \* test processes sharing the server
    Forms,          \* harnesses in use: subset of {"case", "decorator"}
    MaxTests,       \* tests each process runs (model bound)
    MaxTime,        \* last millisecond of the run (model bound)
    BodiesFail      \* TRUE: a test method may raise (a failed assertion)

ASSUME FrameworkConstantsAssumption ==
    /\ Forms \subseteq {"case", "decorator"}
    /\ MaxTests \in Nat
    /\ MaxTime \in Nat
    /\ BodiesFail \in BOOLEAN
    /\ DbNames = 0..MaxTime

(* self.test_database before setUp, and the owner of a database no test  *)
(* created.                                                                 *)
NoName == -1

NoRun == <<>>

(* The n-th test of process p. *)
RunIds == Testers \X (1..MaxTests)

(* A registered cleanup: the drop_database lambda, or the drop_table       *)
(* lambda of a table.                                                       *)
DropDbCleanup == "drop_database"

Cleanups == {DropDbCleanup} \cup TableNames

PC == {"idle", "setup_create", "body", "teardown_drop", "cleanup",
       "dec_create", "dec_body", "dec_drop"}

VARIABLES
    now,        \* int(time.time() * 1000)
    pc,         \* pc[p]: where test process p is
    k,          \* k[p]: tests process p has started
    db,         \* db[p]: self.test_database, or the decorator's test_database
    cleanups,   \* cleanups[p]: cleanup_functions not yet run by tearDown
    made,       \* made[p]: tables the running test has created
    owner       \* owner[n]: the test that created database n (observation)

frameworkVars == <<now, pc, k, db, cleanups, made, owner>>

vars == <<dbs, tables, now, pc, k, db, cleanups, made, owner>>

Run(p) == <<p, k[p]>>

Init ==
    /\ dbs = {}
    /\ tables = {}
    /\ now = 0
    /\ pc = [p \in Testers |-> "idle"]
    /\ k = [p \in Testers |-> 0]
    /\ db = [p \in Testers |-> NoName]
    /\ cleanups = [p \in Testers |-> <<>>]
    /\ made = [p \in Testers |-> {}]
    /\ owner = [n \in DbNames |-> NoRun]

(* The server created database db[p] for p's current test. *)
RecordOwner(p, applied) ==
    owner' = IF applied THEN [owner EXCEPT ![db[p]] = Run(p)] ELSE owner

(* Mutant: setUp does not name the database, and the test keeps the name *)
(* of the one before it (None for the first test).                          *)
CaseStartKeepName(p) ==
    /\ "case" \in Forms
    /\ pc[p] = "idle"
    /\ k[p] < MaxTests
    /\ k' = [k EXCEPT ![p] = @ + 1]
    /\ UNCHANGED db
    /\ cleanups' = [cleanups EXCEPT ![p] = <<>>]
    /\ made' = [made EXCEPT ![p] = {}]
    /\ pc' = [pc EXCEPT ![p] = "setup_create"]
    /\ UNCHANGED <<serverVars, now, owner>>

-----------------------------------------------------------------------------
(* run_test_case(), lines 167-177, and setUp(), lines 74-78: a new test   *)
(* instance with no cleanups, named after the clock.                        *)
CaseStart(p) ==
    /\ "case" \in Forms
    /\ pc[p] = "idle"
    /\ k[p] < MaxTests
    /\ k' = [k EXCEPT ![p] = @ + 1]
    /\ db' = [db EXCEPT ![p] = now]
    /\ cleanups' = [cleanups EXCEPT ![p] = <<>>]
    /\ made' = [made EXCEPT ![p] = {}]
    /\ pc' = [pc EXCEPT ![p] = "setup_create"]
    /\ UNCHANGED <<serverVars, now, owner>>

(* _create_test_database(), lines 91-98: on success register the drop     *)
(* lambda; on PhantomDBError only warn.  setUp returns either way.          *)
SetupCreate(p) ==
    /\ pc[p] = "setup_create"
    /\ \E o \in Outcomes :
         LET ok == CreateDatabaseOk(db[p]) IN
         /\ CreateDatabase(db[p], Applied(ok, o))
         /\ RecordOwner(p, Applied(ok, o))
         /\ cleanups' = IF Raised(ok, o) THEN cleanups
                        ELSE [cleanups EXCEPT ![p] = Append(@, DropDbCleanup)]
    /\ pc' = [pc EXCEPT ![p] = "body"]
    /\ UNCHANGED <<now, k, db, made>>

(* The test method calls create_table(), lines 108-117: on success the    *)
(* drop_table lambda is registered; an error is re-raised, and             *)
(* run_test_case's except clause (lines 194-201) ends the test without     *)
(* tearDown.                                                                *)
CaseCreateTable(p, t) ==
    /\ pc[p] = "body"
    /\ t \notin made[p]
    /\ \E o \in Outcomes :
         LET ok == CreateTableOk(db[p], t) IN
         /\ CreateTable(db[p], t, Applied(ok, o))
         /\ IF Raised(ok, o)
              THEN /\ pc' = [pc EXCEPT ![p] = "idle"]
                   /\ UNCHANGED <<cleanups, made>>
              ELSE /\ cleanups' = [cleanups EXCEPT ![p] = Append(@, t)]
                   /\ made' = [made EXCEPT ![p] = @ \cup {t}]
                   /\ UNCHANGED pc
    /\ UNCHANGED <<now, k, db, owner>>

(* Mutant: the runner forgets to call tearDown after a passing test. *)
CaseBodyReturnsSkipTeardown(p) ==
    /\ pc[p] = "body"
    /\ pc' = [pc EXCEPT ![p] = "idle"]
    /\ UNCHANGED <<serverVars, now, k, db, cleanups, made, owner>>

(* The test method returns (lines 180-181); run_test_case calls tearDown *)
(* (lines 184-185).                                                         *)
CaseBodyReturns(p) ==
    /\ pc[p] = "body"
    /\ pc' = [pc EXCEPT ![p] = "teardown_drop"]
    /\ UNCHANGED <<serverVars, now, k, db, cleanups, made, owner>>

(* The test method raises: run_test_case's except clause records a failed *)
(* TestResult and tearDown is never called.                                *)
CaseBodyRaises(p) ==
    /\ BodiesFail
    /\ pc[p] = "body"
    /\ pc' = [pc EXCEPT ![p] = "idle"]
    /\ UNCHANGED <<serverVars, now, k, db, cleanups, made, owner>>

(* tearDown() line 83, _drop_test_database(), lines 100-106: drop, warn   *)
(* on error.                                                                *)
TeardownDrop(p) ==
    /\ pc[p] = "teardown_drop"
    /\ \E o \in Outcomes :
         DropDatabase(db[p], Applied(DropDatabaseOk(db[p]), o))
    /\ pc' = [pc EXCEPT ![p] = "cleanup"]
    /\ UNCHANGED <<now, k, db, cleanups, made, owner>>

(* tearDown() lines 85-89: the last registered cleanup not yet run is     *)
(* called, and an error only warns.  The drop_database lambda reads        *)
(* self.test_database when called.                                          *)
CleanupStep(p) ==
    /\ pc[p] = "cleanup"
    /\ cleanups[p] # <<>>
    /\ LET c == cleanups[p][Len(cleanups[p])] IN
       \E o \in Outcomes :
         IF c = DropDbCleanup
           THEN DropDatabase(db[p], Applied(DropDatabaseOk(db[p]), o))
           ELSE DropTable(db[p], c, Applied(DropTableOk(db[p], c), o))
    /\ cleanups' = [cleanups EXCEPT ![p] = SubSeq(@, 1, Len(@) - 1)]
    /\ UNCHANGED <<now, pc, k, db, made, owner>>

(* tearDown() returns after the last cleanup; run_test_case records a     *)
(* passed TestResult (lines 187-192).                                       *)
CleanupDone(p) ==
    /\ pc[p] = "cleanup"
    /\ cleanups[p] = <<>>
    /\ pc' = [pc EXCEPT ![p] = "idle"]
    /\ UNCHANGED <<serverVars, now, k, db, cleanups, made, owner>>

-----------------------------------------------------------------------------
(* phantomdb_test's wrapper, lines 230-233: the name from the clock. *)
DecStart(p) ==
    /\ "decorator" \in Forms
    /\ pc[p] = "idle"
    /\ k[p] < MaxTests
    /\ k' = [k EXCEPT ![p] = @ + 1]
    /\ db' = [db EXCEPT ![p] = now]
    /\ made' = [made EXCEPT ![p] = {}]
    /\ pc' = [pc EXCEPT ![p] = "dec_create"]
    /\ UNCHANGED <<serverVars, now, cleanups, owner>>

(* Mutant: a failed create only warns, as in _create_test_database. *)
DecCreateWarnOnly(p) ==
    /\ pc[p] = "dec_create"
    /\ \E o \in Outcomes :
         LET ok == CreateDatabaseOk(db[p]) IN
         /\ CreateDatabase(db[p], Applied(ok, o))
         /\ RecordOwner(p, Applied(ok, o))
    /\ pc' = [pc EXCEPT ![p] = "dec_body"]
    /\ UNCHANGED <<now, k, db, cleanups, made>>

(* Lines 235-240: create the database; on error warn and re-raise, before *)
(* the try/finally, so nothing is dropped.                                  *)
DecCreate(p) ==
    /\ pc[p] = "dec_create"
    /\ \E o \in Outcomes :
         LET ok == CreateDatabaseOk(db[p]) IN
         /\ CreateDatabase(db[p], Applied(ok, o))
         /\ RecordOwner(p, Applied(ok, o))
         /\ pc' = [pc EXCEPT ![p] = IF Raised(ok, o) THEN "idle" ELSE "dec_body"]
    /\ UNCHANGED <<now, k, db, cleanups, made>>

(* Line 244: the test function creates a table in test_database; an error *)
(* propagates to the finally clause.                                        *)
DecCreateTable(p, t) ==
    /\ pc[p] = "dec_body"
    /\ t \notin made[p]
    /\ \E o \in Outcomes :
         LET ok == CreateTableOk(db[p], t) IN
         /\ CreateTable(db[p], t, Applied(ok, o))
         /\ IF Raised(ok, o)
              THEN /\ pc' = [pc EXCEPT ![p] = "dec_drop"]
                   /\ UNCHANGED made
              ELSE /\ made' = [made EXCEPT ![p] = @ \cup {t}]
                   /\ UNCHANGED pc
    /\ UNCHANGED <<now, k, db, cleanups, owner>>

(* Line 244: the test function returns or raises; either way the finally  *)
(* clause runs.                                                             *)
DecBodyEnds(p) ==
    /\ pc[p] = "dec_body"
    /\ pc' = [pc EXCEPT ![p] = "dec_drop"]
    /\ UNCHANGED <<serverVars, now, k, db, cleanups, made, owner>>

(* Mutant: the finally clause rebuilds the name from the clock. *)
DecDropNow(p) ==
    /\ pc[p] = "dec_drop"
    /\ \E o \in Outcomes :
         DropDatabase(now, Applied(DropDatabaseOk(now), o))
    /\ pc' = [pc EXCEPT ![p] = "idle"]
    /\ UNCHANGED <<now, k, db, cleanups, made, owner>>

(* Lines 245-251: the finally clause drops the database, warning on error. *)
DecDrop(p) ==
    /\ pc[p] = "dec_drop"
    /\ \E o \in Outcomes :
         DropDatabase(db[p], Applied(DropDatabaseOk(db[p]), o))
    /\ pc' = [pc EXCEPT ![p] = "idle"]
    /\ UNCHANGED <<now, k, db, cleanups, made, owner>>

-----------------------------------------------------------------------------
(* The millisecond clock advancing. *)
Tick ==
    /\ now < MaxTime
    /\ now' = now + 1
    /\ UNCHANGED <<serverVars, pc, k, db, cleanups, made, owner>>

Step(p) ==
    \/ CaseStart(p)
    \/ SetupCreate(p)
    \/ \E t \in TableNames : CaseCreateTable(p, t)
    \/ CaseBodyReturns(p)
    \/ CaseBodyRaises(p)
    \/ TeardownDrop(p)
    \/ CleanupStep(p)
    \/ CleanupDone(p)
    \/ DecStart(p)
    \/ DecCreate(p)
    \/ \E t \in TableNames : DecCreateTable(p, t)
    \/ DecBodyEnds(p)
    \/ DecDrop(p)

Next == (\E p \in Testers : Step(p)) \/ Tick

Spec == Init /\ [][Next]_vars

-----------------------------------------------------------------------------
(* Properties *)

TypeOK ==
    /\ ServerTypeOK
    /\ now \in DbNames
    /\ pc \in [Testers -> PC]
    /\ k \in [Testers -> 0..MaxTests]
    /\ db \in [Testers -> DbNames \cup {NoName}]
    /\ cleanups \in [Testers -> Seq(Cleanups)]
    /\ made \in [Testers -> SUBSET TableNames]
    /\ owner \in [DbNames -> RunIds \cup {NoRun}]

(* A test runs on a database of its own: while a test method runs, the    *)
(* database it was given, if the server has it, is the one its own setUp   *)
(* or decorator created, never one left by an earlier test or made by a    *)
(* test running beside it.  Test methods rely on this when they assert row *)
(* counts and table lists.                                                  *)
Isolated ==
    \A p \in Testers :
        pc[p] \in {"body", "dec_body"} /\ db[p] \in dbs => owner[db[p]] = Run(p)

(* Process p took the step: its drop steps all move pc or the cleanups. *)
Moved(p) == <<pc'[p], cleanups'[p]>> # <<pc[p], cleanups[p]>>

(* Every database a step removes was created by the test of a process   *)
(* that takes part in the step.                                             *)
DropsOwn ==
    \A n \in dbs \ dbs' : \E p \in Testers : Moved(p) /\ owner[n] = Run(p)

(* A test drops only its own database: no step of a test process removes  *)
(* a database that another test created.                                    *)
DropsOnlyOwn == [][DropsOwn]_vars

(* The framework leaves nothing behind: when no test is running, no test  *)
(* database is left on the server (the docstrings: tearDown "cleans up    *)
(* after the test case", the decorator "sets up and tears down a test      *)
(* database").                                                              *)
NoLeak == (\A p \in Testers : pc[p] = "idle") => dbs = {}

=============================================================================
