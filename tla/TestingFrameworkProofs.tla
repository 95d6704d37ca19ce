----------------------- MODULE TestingFrameworkProofs -----------------------
(***************************************************************************)
(* Proofs about TestingFramework: type correctness under both harnesses,  *)
(* and the isolation of the phantomdb_test decorator, for every            *)
(* number of test processes, tests, tables and milliseconds, with failing  *)
(* tests and a network that loses requests and replies.                    *)
(*                                                                         *)
(* The argument: a decorated test past its create step always has its      *)
(* database on the server, created by itself (DecoratorOwns).  A create    *)
(* that the server applies is for a name it did not have, so it changes   *)
(* the owner of no database another test is using; a drop is done by the   *)
(* test that owns the database, so it removes no other test's database;   *)
(* and a test whose create was not applied raises before its try/finally  *)
(* and never reaches the test function or the drop.                        *)
(***************************************************************************)
EXTENDS TestingFramework, SequenceTheorems, TLAPS

USE ClientConstantsAssumption, FrameworkConstantsAssumption

(* The theorems are about test processes that all use the decorator. *)
DecoratorOnly == Forms = {"decorator"}

DecPC == {"idle", "dec_create", "dec_body", "dec_drop"}

(* The part of the state the argument reads, with its types.              *)
DecTypeInv ==
    /\ dbs \subseteq DbNames
    /\ now \in DbNames
    /\ pc \in [Testers -> DecPC]
    /\ k \in [Testers -> Nat]
    /\ db \in [Testers -> DbNames \cup {NoName}]
    /\ \A p \in Testers : pc[p] # "idle" => db[p] \in DbNames
    /\ owner \in [DbNames -> (Testers \X Nat) \cup {NoRun}]

(* A decorated test that is running its test function or its finally     *)
(* clause has its database on the server, and it is the one it created.   *)
DecoratorOwns ==
    \A p \in Testers :
        pc[p] \in {"dec_body", "dec_drop"} => db[p] \in dbs /\ owner[db[p]] = Run(p)

IInv == DecTypeInv /\ DecoratorOwns

-----------------------------------------------------------------------------
(* Two tests of different processes are different tests. *)
LEMMA RunsDistinct ==
    ASSUME NEW p \in Testers, NEW q \in Testers, p # q
    PROVE  Run(p) # Run(q)
    BY DEF Run

(* What a client call's outcome means for its caller: a call that returns *)
(* was applied, and a call that was not applied raised.                    *)
LEMMA ReturnedApplied ==
    ASSUME NEW ok \in BOOLEAN, NEW o \in Outcomes, ~Raised(ok, o)
    PROVE  Applied(ok, o)
    BY DEF Raised, Applied, Outcomes

LEMMA InitIInv == ASSUME DecoratorOnly PROVE Init => IInv
    BY DEF Init, IInv, DecTypeInv, DecoratorOwns, DecPC, NoName, NoRun

LEMMA StepIInv == ASSUME DecoratorOnly PROVE IInv /\ [Next]_vars => IInv'
<1> SUFFICES ASSUME IInv, [Next]_vars PROVE IInv'
    OBVIOUS
<1> USE DEF IInv, DecTypeInv, DecoratorOwns, DecPC
<1>1. ASSUME NEW p \in Testers, CaseStart(p) PROVE FALSE
    BY <1>1 DEF CaseStart, DecoratorOnly
<1>2. ASSUME NEW p \in Testers,
             \/ SetupCreate(p)
             \/ \E t \in TableNames : CaseCreateTable(p, t)
             \/ CaseBodyReturns(p) \/ CaseBodyRaises(p) \/ TeardownDrop(p)
             \/ CleanupStep(p) \/ CleanupDone(p)
      PROVE FALSE
    BY <1>2 DEF SetupCreate, CaseCreateTable, CaseBodyReturns, CaseBodyRaises,
                TeardownDrop, CleanupStep, CleanupDone
<1>3. ASSUME NEW p \in Testers, DecStart(p) PROVE IInv'
    <2>1. \A q \in Testers \ {p} : Run(q)' = Run(q)
        BY <1>3 DEF DecStart, Run
    <2>2. QED
        BY <1>3, <2>1 DEF DecStart, serverVars
<1>4. ASSUME NEW p \in Testers, DecCreate(p) PROVE IInv'
    <2>1. PICK o \in Outcomes :
             LET ok == CreateDatabaseOk(db[p]) IN
             /\ CreateDatabase(db[p], Applied(ok, o))
             /\ RecordOwner(p, Applied(ok, o))
             /\ pc' = [pc EXCEPT ![p] = IF Raised(ok, o) THEN "idle" ELSE "dec_body"]
        BY <1>4 DEF DecCreate
    <2> DEFINE ok == CreateDatabaseOk(db[p])
    <2>2. db[p] \in DbNames
        BY <1>4 DEF DecCreate
    <2>3. UNCHANGED <<now, k, db>>
        BY <1>4 DEF DecCreate
    <2>4. \A q \in Testers \ {p} :
             pc[q] \in {"dec_body", "dec_drop"} => db[q] # db[p] \/ ~Applied(ok, o)
        BY DEF Applied, CreateDatabaseOk
    <2>5. CASE Applied(ok, o)
        <3>1. dbs' = dbs \cup {db[p]} /\ owner' = [owner EXCEPT ![db[p]] = Run(p)]
            BY <2>1, <2>5 DEF CreateDatabase, RecordOwner
        <3>2. Run(p) \in Testers \X Nat
            BY DEF Run
        <3>3. QED
            BY <2>1, <2>2, <2>3, <2>4, <2>5, <3>1, <3>2 DEF Run
    <2>6. CASE ~Applied(ok, o)
        <3>1. Raised(ok, o)
            BY <2>6, ReturnedApplied DEF CreateDatabaseOk
        <3>2. dbs' = dbs /\ owner' = owner
            BY <2>1, <2>6 DEF CreateDatabase, RecordOwner
        <3>3. pc' = [pc EXCEPT ![p] = "idle"]
            BY <2>1, <3>1
        <3>4. QED
            BY <2>3, <3>2, <3>3 DEF Run
    <2>7. QED
        BY <2>5, <2>6
<1>5. ASSUME NEW p \in Testers, NEW t \in TableNames, DecCreateTable(p, t) PROVE IInv'
    BY <1>5 DEF DecCreateTable, CreateTable, Run
<1>6. ASSUME NEW p \in Testers, DecBodyEnds(p) PROVE IInv'
    BY <1>6 DEF DecBodyEnds, serverVars, Run
<1>7. ASSUME NEW p \in Testers, DecDrop(p) PROVE IInv'
    <2>1. dbs' \subseteq dbs /\ dbs \ dbs' \subseteq {db[p]}
        BY <1>7 DEF DecDrop, DropDatabase
    <2>2. \A q \in Testers \ {p} : pc[q] \in {"dec_body", "dec_drop"} => db[q] # db[p]
        BY <1>7, RunsDistinct DEF DecDrop
    <2>3. QED
        BY <1>7, <2>1, <2>2 DEF DecDrop, Run
<1>8. CASE Tick
    BY <1>8 DEF Tick, serverVars, Run
<1>9. CASE UNCHANGED vars
    BY <1>9 DEF vars, Run
<1>10. QED
    BY <1>1, <1>2, <1>3, <1>4, <1>5, <1>6, <1>7, <1>8, <1>9 DEF Next, Step

(* The inductive invariant holds in every reachable state. *)
LEMMA IInvHolds == ASSUME DecoratorOnly PROVE Spec => []IInv
    BY InitIInv, StepIInv, PTL DEF Spec

-----------------------------------------------------------------------------
(* Isolated, for any number of processes running decorated tests: a test   *)
(* function never runs on a database another test created or left behind,  *)
(* whatever fails and whichever requests or replies are lost.              *)
THEOREM DecoratorIsolation == ASSUME DecoratorOnly PROVE Spec => []Isolated
<1>1. IInv => Isolated
    BY DEF IInv, DecoratorOwns, DecTypeInv, DecPC, Isolated
<1>2. QED
    BY <1>1, IInvHolds, PTL

(* DropsOnlyOwn, for any number of processes running decorated tests: the *)
(* finally clause's drop_database (line 249) only ever removes the         *)
(* database of the test that runs it.                                       *)
THEOREM DecoratorDropsOnlyOwn == ASSUME DecoratorOnly PROVE Spec => DropsOnlyOwn
<1>1. IInv /\ [Next]_vars => [DropsOwn]_vars
    <2> SUFFICES ASSUME IInv, [Next]_vars,
                        NEW n \in dbs \ dbs'
                 PROVE  \E p \in Testers : Moved(p) /\ owner[n] = Run(p)
        BY DEF DropsOwn
    <2> USE DEF IInv, DecTypeInv, DecoratorOwns, DecPC
    <2>1. ASSUME NEW p \in Testers, DecDrop(p)
          PROVE  \E q \in Testers : Moved(q) /\ owner[n] = Run(q)
        <3>1. n = db[p]
            BY <2>1 DEF DecDrop, DropDatabase
        <3>2. Moved(p)
            BY <2>1 DEF DecDrop, Moved
        <3>3. QED
            BY <2>1, <3>1, <3>2 DEF DecDrop
    <2>2. ASSUME NEW p \in Testers,
                 \/ CaseStart(p) \/ SetupCreate(p)
                 \/ \E t \in TableNames : CaseCreateTable(p, t)
                 \/ CaseBodyReturns(p) \/ CaseBodyRaises(p) \/ TeardownDrop(p)
                 \/ CleanupStep(p) \/ CleanupDone(p)
          PROVE  FALSE
        BY <2>2 DEF CaseStart, DecoratorOnly, SetupCreate, CaseCreateTable,
                    CaseBodyReturns, CaseBodyRaises, TeardownDrop, CleanupStep,
                    CleanupDone
    (* Every other step keeps every database. *)
    <2>3. ASSUME NEW p \in Testers,
                 \/ DecStart(p) \/ DecCreate(p) \/ DecBodyEnds(p)
                 \/ \E t \in TableNames : DecCreateTable(p, t)
          PROVE  dbs \subseteq dbs'
        BY <2>3 DEF DecStart, DecCreate, DecBodyEnds, DecCreateTable, serverVars,
                    CreateDatabase, CreateTable
    <2>4. Tick \/ UNCHANGED vars => dbs \subseteq dbs'
        BY DEF Tick, vars, serverVars
    <2>5. QED
        BY <2>1, <2>2, <2>3, <2>4 DEF Next, Step
<1>2. QED
    BY <1>1, IInvHolds, PTL DEF Spec, DropsOnlyOwn
-----------------------------------------------------------------------------
(* Type correctness, for both harnesses.                                    *)

(* What each client call does to the server's catalogue, applied or not.  *)
LEMMA CreateDatabaseType ==
    ASSUME ServerTypeOK, NEW n \in DbNames, NEW a, CreateDatabase(n, a)
    PROVE  ServerTypeOK'
    BY DEF CreateDatabase, ServerTypeOK

LEMMA DropDatabaseType ==
    ASSUME ServerTypeOK, NEW n, NEW a, DropDatabase(n, a)
    PROVE  ServerTypeOK'
    BY DEF DropDatabase, ServerTypeOK

LEMMA CreateTableType ==
    ASSUME ServerTypeOK, NEW n \in DbNames, NEW t \in TableNames, NEW a,
           CreateTable(n, t, a)
    PROVE  ServerTypeOK'
    BY DEF CreateTable, ServerTypeOK

LEMMA DropTableType ==
    ASSUME ServerTypeOK, NEW n, NEW t, NEW a, DropTable(n, t, a)
    PROVE  ServerTypeOK'
    BY DEF DropTable, ServerTypeOK

(* A test that has started has its database name and its number. *)
Started ==
    \A p \in Testers : pc[p] # "idle" => db[p] \in DbNames /\ k[p] \in 1..MaxTests

(* TypeOK is not inductive by itself: a step that creates a database uses *)
(* db[p] as a name and RecordOwner uses k[p] as a test number, so both are *)
(* needed for each test past its start.                                     *)
TFInv == TypeOK /\ Started

LEMMA TFInvInit == Init => TFInv
    BY DEF Init, TFInv, TypeOK, ServerTypeOK, Started, PC, NoRun, NoName

(* RecordOwner keeps owner a map from names to tests. *)
LEMMA RecordOwnerType ==
    ASSUME TFInv, NEW p \in Testers, pc[p] # "idle", NEW a, RecordOwner(p, a)
    PROVE  owner' \in [DbNames -> RunIds \cup {NoRun}]
<1>1. db[p] \in DbNames /\ Run(p) \in RunIds
    BY DEF TFInv, Started, Run, RunIds
<1>2. QED
    BY <1>1 DEF RecordOwner, TFInv, TypeOK

LEMMA NoCleanups == <<>> \in Seq(Cleanups)
    BY EmptySeq

LEMMA TFInvStep == TFInv /\ [Next]_vars => TFInv'
<1> SUFFICES ASSUME TFInv, [Next]_vars PROVE TFInv'
    OBVIOUS
<1> USE DEF TFInv, TypeOK, PC
<1>1. ASSUME NEW p \in Testers, CaseStart(p) \/ DecStart(p) PROVE TFInv'
    <2>1. k[p] < MaxTests /\ k' = [k EXCEPT ![p] = k[p] + 1] /\ db' = [db EXCEPT ![p] = now]
        BY <1>1 DEF CaseStart, DecStart
    <2>2. k' \in [Testers -> 0..MaxTests] /\ k'[p] \in 1..MaxTests
        BY <2>1
    <2>3. db' \in [Testers -> DbNames \cup {NoName}] /\ db'[p] \in DbNames
        BY <2>1
    <2>4. /\ pc' \in [Testers -> PC]
          /\ \A q \in Testers \ {p} : pc'[q] = pc[q] /\ k'[q] = k[q] /\ db'[q] = db[q]
        <3>1. CASE CaseStart(p)
            BY <3>1, <2>1 DEF CaseStart
        <3>2. CASE DecStart(p)
            BY <3>2, <2>1 DEF DecStart
        <3>3. QED
            BY <1>1, <3>1, <3>2
    <2>5. Started'
        BY <2>2, <2>3, <2>4 DEF Started
    <2>6. UNCHANGED <<dbs, tables, now, owner>>
        BY <1>1 DEF CaseStart, DecStart, serverVars
    <2>7. made' \in [Testers -> SUBSET TableNames]
        BY <1>1 DEF CaseStart, DecStart
    <2>9. cleanups' \in [Testers -> Seq(Cleanups)]
        <3>1. cleanups' = cleanups \/ cleanups' = [cleanups EXCEPT ![p] = <<>>]
            BY <1>1, Zenon DEF CaseStart, DecStart
        <3>2. QED
            BY <3>1, NoCleanups
    <2>8. QED
        BY <2>2, <2>3, <2>4, <2>5, <2>6, <2>7, <2>9 DEF ServerTypeOK
<1>2. ASSUME NEW p \in Testers, SetupCreate(p) PROVE TFInv'
    <2>1. PICK o \in Outcomes :
             LET ok == CreateDatabaseOk(db[p]) IN
             /\ CreateDatabase(db[p], Applied(ok, o))
             /\ RecordOwner(p, Applied(ok, o))
             /\ cleanups' = IF Raised(ok, o) THEN cleanups
                            ELSE [cleanups EXCEPT ![p] = Append(@, DropDbCleanup)]
        BY <1>2 DEF SetupCreate
    <2>2. db[p] \in DbNames /\ pc[p] # "idle"
        BY <1>2 DEF SetupCreate, Started
    <2>3. ServerTypeOK' /\ owner' \in [DbNames -> RunIds \cup {NoRun}]
        BY <2>1, <2>2, CreateDatabaseType, RecordOwnerType
    <2>4. cleanups' \in [Testers -> Seq(Cleanups)]
        BY <2>1 DEF Cleanups
    <2>5. Started'
        BY <1>2, <2>2 DEF SetupCreate, Started
    <2>6. QED
        BY <1>2, <2>3, <2>4, <2>5 DEF SetupCreate
<1>3. ASSUME NEW p \in Testers, NEW t \in TableNames,
             CaseCreateTable(p, t) \/ DecCreateTable(p, t)
      PROVE TFInv'
    <2>1. db[p] \in DbNames /\ k[p] \in 1..MaxTests /\ pc[p] # "idle"
        BY <1>3 DEF CaseCreateTable, DecCreateTable, Started
    <2>2. ServerTypeOK' /\ UNCHANGED <<now, k, db, owner>>
        BY <1>3, <2>1, CreateTableType DEF CaseCreateTable, DecCreateTable
    <2>3. made' \in [Testers -> SUBSET TableNames]
        <3>1. made' = made \/ made' = [made EXCEPT ![p] = made[p] \cup {t}]
            BY <1>3, Zenon DEF CaseCreateTable, DecCreateTable
        <3>2. [made EXCEPT ![p] = made[p] \cup {t}] \in [Testers -> SUBSET TableNames]
            BY DEF TFInv, TypeOK
        <3>3. QED
            BY <3>1, <3>2, Zenon DEF TFInv, TypeOK
    <2>4. cleanups' \in [Testers -> Seq(Cleanups)]
        <3>1. CASE CaseCreateTable(p, t)
            <4>1. Append(cleanups[p], t) \in Seq(Cleanups)
                BY AppendProperties DEF Cleanups
            <4>2. cleanups' = cleanups \/ cleanups' = [cleanups EXCEPT ![p] = Append(cleanups[p], t)]
                BY <3>1, Zenon DEF CaseCreateTable
            <4>3. QED
                BY <4>1, <4>2
        <3>2. CASE DecCreateTable(p, t)
            BY <3>2 DEF DecCreateTable
        <3>3. QED
            BY <1>3, <3>1, <3>2
    <2>5. pc' = pc \/ pc' = [pc EXCEPT ![p] = "idle"]
                   \/ pc' = [pc EXCEPT ![p] = "dec_drop"]
        <3>1. CASE CaseCreateTable(p, t)
            BY <3>1, Zenon DEF CaseCreateTable
        <3>2. CASE DecCreateTable(p, t)
            BY <3>2, Zenon DEF DecCreateTable
        <3>3. QED
            BY <1>3, <3>1, <3>2
    <2>6. QED
        BY <2>1, <2>2, <2>3, <2>4, <2>5 DEF Started
<1>4. ASSUME NEW p \in Testers,
             CaseBodyReturns(p) \/ CaseBodyRaises(p) \/ CleanupDone(p) \/ DecBodyEnds(p)
      PROVE TFInv'
    BY <1>4 DEF CaseBodyReturns, CaseBodyRaises, CleanupDone, DecBodyEnds, Started,
                serverVars, ServerTypeOK
<1>5. ASSUME NEW p \in Testers, TeardownDrop(p) \/ DecDrop(p) PROVE TFInv'
    <2>1. PICK o \in Outcomes : DropDatabase(db[p], Applied(DropDatabaseOk(db[p]), o))
        BY <1>5 DEF TeardownDrop, DecDrop
    <2>2. ServerTypeOK'
        BY <2>1, DropDatabaseType
    <2>3. QED
        BY <1>5, <2>2 DEF TeardownDrop, DecDrop, Started
<1>6. ASSUME NEW p \in Testers, CleanupStep(p) PROVE TFInv'
    <2> DEFINE c == cleanups[p][Len(cleanups[p])]
    <2>1. ServerTypeOK'
        <3>1. PICK o \in Outcomes :
                 IF c = DropDbCleanup
                   THEN DropDatabase(db[p], Applied(DropDatabaseOk(db[p]), o))
                   ELSE DropTable(db[p], c, Applied(DropTableOk(db[p], c), o))
            BY <1>6 DEF CleanupStep
        <3>2. CASE c = DropDbCleanup
            BY <3>1, <3>2, DropDatabaseType
        <3>3. CASE c # DropDbCleanup
            BY <3>1, <3>3, DropTableType
        <3>4. QED
            BY <3>2, <3>3
    <2>2. cleanups[p] \in Seq(Cleanups) /\ cleanups[p] # <<>>
        BY <1>6 DEF CleanupStep
    <2>3. SubSeq(cleanups[p], 1, Len(cleanups[p]) - 1) \in Seq(Cleanups)
        <3>1. Len(cleanups[p]) \in Nat \ {0}
            BY <2>2, EmptySeq
        <3>2. \A i \in 1..(Len(cleanups[p]) - 1) : cleanups[p][i] \in Cleanups
            BY <2>2, <3>1, ElementOfSeq
        <3>3. QED
            BY <3>1, <3>2, SubSeqProperties
    <2>4. QED
        BY <1>6, <2>1, <2>3 DEF CleanupStep, Started
<1>7. ASSUME NEW p \in Testers, DecCreate(p) PROVE TFInv'
    <2>1. PICK o \in Outcomes :
             LET ok == CreateDatabaseOk(db[p]) IN
             /\ CreateDatabase(db[p], Applied(ok, o))
             /\ RecordOwner(p, Applied(ok, o))
             /\ pc' = [pc EXCEPT ![p] = IF Raised(ok, o) THEN "idle" ELSE "dec_body"]
        BY <1>7 DEF DecCreate
    <2>2. db[p] \in DbNames /\ pc[p] # "idle"
        BY <1>7 DEF DecCreate, Started
    <2>3. ServerTypeOK' /\ owner' \in [DbNames -> RunIds \cup {NoRun}]
        BY <2>1, <2>2, CreateDatabaseType, RecordOwnerType
    <2>4. QED
        BY <1>7, <2>1, <2>2, <2>3 DEF DecCreate, Started
<1>8. CASE Tick
    BY <1>8 DEF Tick, Started, serverVars, ServerTypeOK
<1>9. CASE UNCHANGED vars
    BY <1>9 DEF vars, Started, ServerTypeOK
<1>10. QED
    BY <1>1, <1>2, <1>3, <1>4, <1>5, <1>6, <1>7, <1>8, <1>9 DEF Next, Step

(* TypeOK, for any number of processes in either harness, with failing    *)
(* tests and lost requests: database names come from the clock, tests are  *)
(* numbered up to MaxTests, tearDown's cleanup list holds drop_database and *)
(* drop_table lambdas, and the server's catalogue stays within the names.  *)
THEOREM FrameworkTypeCorrect == Spec => []TypeOK
<1>1. TFInv => TypeOK
    BY DEF TFInv
<1>2. QED
    BY <1>1, TFInvInit, TFInvStep, PTL DEF Spec
=============================================================================
