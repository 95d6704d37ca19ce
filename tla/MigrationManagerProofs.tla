----------------------- MODULE MigrationManagerProofs -----------------------
(***************************************************************************)
(* Proofs about MigrationManager, for any number of CLI processes and of   *)
(* migration files, with crashes, failing upgrades and rollbacks; and, for *)
(* one process without crash, the agreement of the status list with the    *)
(* database.                                                                *)
(***************************************************************************)
EXTENDS MigrationManager, FiniteSetTheorems, SequenceTheorems, TLAPS

USE MigConstantsAssumption

(* The loop of migrate() takes the first pending file: a nonempty set of   *)
(* file numbers has one.                                                    *)
LEMMA EarliestProps ==
    ASSUME NEW S \in SUBSET Nat, S # {}
    PROVE  Earliest(S) \in S /\ \A j \in S : Earliest(S) <= j
<1>1. \E x \in S : \A y \in S : ~(<<y, x>> \in OpToRel(<, Nat))
    BY NatLessThanWellFounded, WFMin, Zenon
<1>2. PICK x \in S : \A y \in S : ~(<<y, x>> \in OpToRel(<, Nat))
    BY <1>1, Zenon
<1>3. \A y \in S : x <= y
    <2> TAKE y \in S
    <2>1. <<y, x>> \in Nat \X Nat
        OBVIOUS
    <2>2. ~(y < x)
        BY <1>2, <2>1, Zenon DEF OpToRel
    <2>3. QED
        BY <2>2
<1>4. QED
    BY <1>3 DEF Earliest

LEMMA TypeInitial == Init => TypeOK
BY DEF Init, TypeOK, Mig, PC

(* A command that ends or raises leaves a well-typed state. *)
LEMMA FinishTyped ==
    ASSUME TypeOK, NEW p \in Procs, Finish(p),
           UNCHANGED <<files, ups, commands>>, history' \in Seq(Record)
    PROVE  TypeOK'
<1> USE DEF TypeOK, Finish
<1>1. pc' \in [Procs -> PC]
    BY DEF PC
<1>2. todo' \in [Procs -> SUBSET Mig] /\ cur' \in [Procs -> Mig \cup {0}]
    OBVIOUS
<1>3. buf' \in [Procs -> Seq(Record)]
    BY EmptySeq
<1>4. \A q \in Procs : pc'[q] \notin {"idle", "mig_next"} => cur'[q] \in Mig
    OBVIOUS
<1>5. QED
    BY <1>1, <1>2, <1>3, <1>4

LEMMA TypeStep == TypeOK /\ [Next]_vars => TypeOK'
<1> SUFFICES ASSUME TypeOK, [Next]_vars PROVE TypeOK'
    OBVIOUS
<1> USE DEF TypeOK, PC
<1>1. ASSUME NEW p \in Procs, CreateMigration(p) PROVE TypeOK'
    BY <1>1 DEF CreateMigration, procVars
<1>2. ASSUME NEW p \in Procs, MigrateStart(p) PROVE TypeOK'
    BY <1>2 DEF MigrateStart
<1>3. ASSUME NEW p \in Procs, MigrateNext(p) PROVE TypeOK'
    <2>1. CASE todo[p] = {}
        BY <1>3, <2>1, FinishTyped DEF MigrateNext
    <2>2. CASE todo[p] # {}
        <3>0. todo[p] \in SUBSET Nat /\ todo[p] \subseteq Mig
            BY DEF Mig
        <3>1. Earliest(todo[p]) \in Mig
            BY <2>2, <3>0, EarliestProps
        <3>2. QED
            BY <1>3, <2>2, <3>1 DEF MigrateNext, PC
    <2>3. QED
        BY <2>1, <2>2
<1>4. ASSUME NEW p \in Procs, MigrateUpgrade(p) PROVE TypeOK'
    <2>1. cur[p] \in Mig /\ pc[p] = "mig_upgrade"
        BY <1>4 DEF MigrateUpgrade
    <2>2. CASE ups' = [ups EXCEPT ![cur[p]] = @ + 1]
               /\ pc' = [pc EXCEPT ![p] = "rec_read"] /\ UNCHANGED <<todo, cur, buf>>
        BY <1>4, <2>1, <2>2 DEF MigrateUpgrade
    <2>3. CASE UpgradesMayFail /\ Finish(p) /\ UNCHANGED ups
        BY <1>4, <2>3, FinishTyped DEF MigrateUpgrade
    <2>4. QED
        BY <1>4, <2>2, <2>3 DEF MigrateUpgrade
<1>5. ASSUME NEW p \in Procs, RollbackStart(p) PROVE TypeOK'
    <2>1. CASE history = <<>>
        BY <1>5, <2>1 DEF RollbackStart, procVars
    <2>2. CASE history # <<>>
        <3>1. Len(history) \in 1..Len(history)
            BY <2>2, EmptySeq, LenProperties
        <3>2. history[Len(history)] \in Record
            BY <3>1, LenProperties
        <3>3. history[Len(history)].file \in Mig
            BY <3>2 DEF Record
        <3>4. /\ cur' = [cur EXCEPT ![p] = history[Len(history)].file]
              /\ pc' = [pc EXCEPT ![p] = "rb_revert"]
              /\ UNCHANGED <<files, history, ups, todo, buf>>
              /\ commands' = commands + 1 /\ commands < MaxCommands
            BY <1>5, <2>2 DEF RollbackStart
        <3>5. QED
            BY <3>3, <3>4
    <2>3. QED
        BY <2>1, <2>2
<1>6. ASSUME NEW p \in Procs, RollbackRevert(p) PROVE TypeOK'
    BY <1>6, FinishTyped DEF RollbackRevert
<1>7. ASSUME NEW p \in Procs, RecordRead(p) PROVE TypeOK'
    BY <1>7 DEF RecordRead, PC
<1>8. ASSUME NEW p \in Procs, RecordTruncate(p) PROVE TypeOK'
    BY <1>8 DEF RecordTruncate, PC
<1>9. ASSUME NEW p \in Procs, RecordDump(p) PROVE TypeOK'
    <2>1. [file |-> cur[p], action |-> "applied"] \in Record
        BY <1>9 DEF RecordDump, Record, Actions
    <2>2. history' \in Seq(Record)
        BY <1>9, <2>1, AppendProperties DEF RecordDump
    <2>3. QED
        BY <1>9, <2>2 DEF RecordDump
<1>10. ASSUME NEW p \in Procs, Crash(p) PROVE TypeOK'
    BY <1>10, FinishTyped DEF Crash
<1>11. CASE UNCHANGED vars
    BY <1>11 DEF vars
<1>12. QED
    BY <1>1, <1>2, <1>3, <1>4, <1>5, <1>6, <1>7, <1>8, <1>9, <1>10, <1>11 DEF Next

(* Every state the migration CLI reaches is well typed. *)
THEOREM MigTypeCorrect == Spec => []TypeOK
BY TypeInitial, TypeStep, PTL DEF Spec


-----------------------------------------------------------------------------
(* The history never claims more than was done.  A record is appended by  *)
(* record_migration() after its upgrade() completed, but from a copy of    *)
(* the history read earlier, which another process may have rewritten, or  *)
(* truncated, since.  The invariant counts, for migration i, the processes *)
(* that have run its upgrade() and not yet written its record (Pend), and  *)
(* bounds both the history and every copy a process is about to write back *)
(* by the upgrade() calls that completed.                                   *)

RecPC == {"rec_read", "rec_trunc", "rec_dump"}

PendSet(i) == {p \in Procs : pc[p] \in RecPC /\ cur[p] = i}

Pend(i) == Cardinality(PendSet(i))

Count(h, i) == RecordCount(h, i, "applied")

HistoryPaid == \A i \in Mig : Count(history, i) + Pend(i) <= ups[i]

BufPaid ==
    \A p \in Procs : pc[p] \in {"rec_trunc", "rec_dump"} =>
        \A i \in Mig : Count(buf[p], i) + Pend(i) <= ups[i]

PaidInv == TypeOK /\ HistoryPaid /\ BufPaid

(* The records of a history are finitely many. *)
LEMMA RecordCountType ==
    ASSUME NEW h \in Seq(Record), NEW i, NEW a
    PROVE  /\ IsFiniteSet({k \in DOMAIN h : h[k] = [file |-> i, action |-> a]})
           /\ RecordCount(h, i, a) \in Nat
<1>1. IsFiniteSet(DOMAIN h)
    BY LenProperties, FS_Interval
<1>2. IsFiniteSet({k \in DOMAIN h : h[k] = [file |-> i, action |-> a]})
    BY <1>1, FS_Subset
<1>3. QED
    BY <1>2, FS_CardinalityType DEF RecordCount

(* An empty or truncated history holds no record. *)
LEMMA RecordCountEmpty ==
    ASSUME NEW i, NEW a
    PROVE  RecordCount(<<>>, i, a) = 0
<1>1. {k \in DOMAIN <<>> : <<>>[k] = [file |-> i, action |-> a]} = {}
    OBVIOUS
<1>2. QED
    BY <1>1, FS_EmptySet DEF RecordCount

(* Appending a record adds one to its own count and leaves the others. *)
LEMMA RecordCountAppend ==
    ASSUME NEW h \in Seq(Record), NEW r \in Record, NEW i, NEW a
    PROVE  RecordCount(Append(h, r), i, a) =
             RecordCount(h, i, a) + (IF r = [file |-> i, action |-> a] THEN 1 ELSE 0)
<1> DEFINE e == [file |-> i, action |-> a]
           S == {k \in DOMAIN h : h[k] = e}
           T == {k \in DOMAIN Append(h, r) : Append(h, r)[k] = e}
<1>1. /\ Len(h) \in Nat
      /\ DOMAIN h = 1..Len(h)
      /\ DOMAIN Append(h, r) = 1..Len(h) + 1
      /\ \A k \in 1..Len(h) : Append(h, r)[k] = h[k]
      /\ Append(h, r)[Len(h) + 1] = r
    BY LenProperties, AppendProperties
<1>2. IsFiniteSet(S) /\ Cardinality(S) \in Nat
    BY RecordCountType DEF RecordCount
<1>3. Len(h) + 1 \notin S
    BY <1>1
<1>4. CASE r = e
    <2>1. T = S \cup {Len(h) + 1}
        BY <1>1, <1>4
    <2>2. Cardinality(T) = Cardinality(S) + 1
        BY <1>2, <1>3, <2>1, FS_AddElement
    <2>3. QED
        BY <1>4, <2>2 DEF RecordCount
<1>5. CASE r # e
    <2>1. T = S
        BY <1>1, <1>5
    <2>2. (IF r = [file |-> i, action |-> a] THEN 1 ELSE 0) = 0
        BY <1>5
    <2>3. RecordCount(Append(h, r), i, a) = Cardinality(S)
        BY <2>1 DEF RecordCount
    <2>4. RecordCount(h, i, a) = Cardinality(S)
        BY DEF RecordCount
    <2>5. QED
        BY <1>2, <2>2, <2>3, <2>4
<1>6. QED
    BY <1>4, <1>5


(* Count is a natural number, and 0 for an empty history. *)
LEMMA CountFacts ==
    ASSUME NEW i
    PROVE  /\ \A h \in Seq(Record) : Count(h, i) \in Nat
           /\ Count(<<>>, i) = 0
BY RecordCountType, RecordCountEmpty DEF Count

(* The processes between an upgrade and its record are a finite set, in   *)
(* every state and in the next one.                                         *)
LEMMA PendType ==
    ASSUME NEW i
    PROVE  /\ IsFiniteSet(PendSet(i)) /\ Pend(i) \in Nat
           /\ IsFiniteSet(PendSet(i)') /\ Pend(i)' \in Nat
<1>1. PendSet(i) \in SUBSET Procs /\ PendSet(i)' \in SUBSET Procs
    BY DEF PendSet
<1>2. IsFiniteSet(PendSet(i)) /\ IsFiniteSet(PendSet(i)')
    BY <1>1, FS_Subset
<1>3. QED
    BY <1>2, FS_CardinalityType DEF Pend

(* A step in which no process enters record_migration(), and one that     *)
(* stays in it keeps its migration, leaves no more processes with an       *)
(* unrecorded upgrade.                                                      *)
LEMMA PendShrink ==
    ASSUME NEW p \in Procs,
           \A q \in Procs \ {p} : pc'[q] = pc[q] /\ cur'[q] = cur[q],
           pc'[p] \in RecPC => pc[p] \in RecPC /\ cur'[p] = cur[p]
    PROVE  \A i \in Mig : Pend(i)' <= Pend(i)
<1> SUFFICES ASSUME NEW i \in Mig PROVE Pend(i)' <= Pend(i)
    OBVIOUS
<1>1. PendSet(i)' \subseteq PendSet(i)
    BY DEF PendSet
<1>2. QED
    BY <1>1, PendType, FS_Subset DEF Pend

(* The shape shared by every step but a completed upgrade and the final   *)
(* write of record_migration(): the database is untouched, the history is  *)
(* kept or truncated, each copy about to be written back is kept or        *)
(* freshly read, and no upgrade becomes unrecorded.                         *)
LEMMA PaidMonotone ==
    ASSUME PaidInv, TypeOK',
           \A i \in Mig : Pend(i)' <= Pend(i),
           ups' = ups,
           history' = history \/ history' = <<>>,
           \A q \in Procs : pc'[q] \in {"rec_trunc", "rec_dump"} =>
               \/ pc[q] \in {"rec_trunc", "rec_dump"} /\ buf'[q] = buf[q]
               \/ buf'[q] = history
    PROVE  PaidInv'
<1> USE DEF PaidInv
<1>1. \A i \in Mig : ups[i] \in Nat /\ Pend(i) \in Nat /\ Pend(i)' \in Nat
    BY PendType DEF TypeOK
<1>2. \A i \in Mig : Count(history', i) <= Count(history, i)
    <2> SUFFICES ASSUME NEW i \in Mig PROVE Count(history', i) <= Count(history, i)
        OBVIOUS
    <2>1. Count(history, i) \in Nat /\ Count(<<>>, i) = 0
        BY CountFacts DEF TypeOK
    <2>2. QED
        BY <2>1
<1>3. HistoryPaid'
    <2> SUFFICES ASSUME NEW i \in Mig PROVE Count(history', i) + Pend(i)' <= ups'[i]
        BY DEF HistoryPaid
    <2>1. Count(history, i) + Pend(i) <= ups[i]
        BY DEF HistoryPaid
    <2>2. Count(history, i) \in Nat /\ Count(history', i) \in Nat
        BY CountFacts DEF TypeOK
    <2>3. QED
        BY <1>1, <1>2, <2>1, <2>2
<1>4. BufPaid'
    <2> SUFFICES ASSUME NEW q \in Procs, pc'[q] \in {"rec_trunc", "rec_dump"}, NEW i \in Mig
                 PROVE  Count(buf'[q], i) + Pend(i)' <= ups'[i]
        BY DEF BufPaid
    <2>1. Count(buf'[q], i) \in Nat
        BY CountFacts DEF TypeOK
    <2>2. CASE pc[q] \in {"rec_trunc", "rec_dump"} /\ buf'[q] = buf[q]
        <3>1. Count(buf[q], i) + Pend(i) <= ups[i]
            BY <2>2 DEF BufPaid
        <3>2. QED
            BY <1>1, <2>1, <2>2, <3>1
    <2>3. CASE buf'[q] = history
        <3>1. Count(history, i) + Pend(i) <= ups[i]
            BY DEF HistoryPaid
        <3>2. QED
            BY <1>1, <2>1, <2>3, <3>1
    <2>4. QED
        BY <2>2, <2>3
<1>5. QED
    BY <1>3, <1>4


(* How one process's step changes the set of processes with an           *)
(* unrecorded upgrade: it can join the set, leave it, or neither.          *)
LEMMA PendStep ==
    ASSUME NEW p \in Procs,
           \A q \in Procs \ {p} : pc'[q] = pc[q] /\ cur'[q] = cur[q],
           NEW i
    PROVE  /\ Pend(i)' <= Pend(i) + 1
           /\ p \notin PendSet(i)' => Pend(i)' <= Pend(i)
           /\ p \in PendSet(i) /\ p \notin PendSet(i)' => Pend(i)' <= Pend(i) - 1
<1>1. PendSet(i)' \subseteq PendSet(i) \cup {p}
    BY DEF PendSet
<1>2. IsFiniteSet(PendSet(i)) /\ Pend(i) \in Nat /\ Pend(i)' \in Nat
    BY PendType
<1>3. Pend(i)' <= Pend(i) + 1
    <2>1. IsFiniteSet(PendSet(i) \cup {p})
          /\ Cardinality(PendSet(i) \cup {p}) =
               IF p \in PendSet(i) THEN Cardinality(PendSet(i))
                                   ELSE Cardinality(PendSet(i)) + 1
        BY <1>2, FS_AddElement
    <2>2. Cardinality(PendSet(i)') <= Cardinality(PendSet(i) \cup {p})
        BY <1>1, <2>1, FS_Subset
    <2>3. QED
        BY <1>2, <2>1, <2>2 DEF Pend
<1>4. ASSUME p \notin PendSet(i)' PROVE Pend(i)' <= Pend(i)
    BY <1>1, <1>2, <1>4, FS_Subset DEF Pend
<1>5. ASSUME p \in PendSet(i), p \notin PendSet(i)'
      PROVE  Pend(i)' <= Pend(i) - 1
    <2>1. PendSet(i)' \subseteq PendSet(i) \ {p}
        BY <1>1, <1>5
    <2>2. IsFiniteSet(PendSet(i) \ {p})
          /\ Cardinality(PendSet(i) \ {p}) = Pend(i) - 1
        BY <1>2, <1>5, FS_RemoveElement DEF Pend
    <2>3. QED
        BY <2>1, <2>2, FS_Subset DEF Pend
<1>6. QED
    BY <1>3, <1>4, <1>5

(* A completed upgrade() of migration c: the database has one more upgrade *)
(* of c and the process that ran it now owes its record.                    *)
LEMMA UpgradePaid ==
    ASSUME PaidInv, TypeOK', NEW p \in Procs, NEW c \in Mig,
           pc[p] \notin RecPC, pc'[p] = "rec_read", cur'[p] = c,
           \A q \in Procs \ {p} : pc'[q] = pc[q] /\ cur'[q] = cur[q],
           buf' = buf, history' = history,
           \A i \in Mig : ups'[i] = ups[i] + (IF i = c THEN 1 ELSE 0)
    PROVE  PaidInv'
<1> USE DEF PaidInv
<1>1. ASSUME NEW i \in Mig
      PROVE  Pend(i)' <= Pend(i) + (IF i = c THEN 1 ELSE 0)
    <2>0. Pend(i) \in Nat /\ Pend(i)' \in Nat
        BY PendType
    <2>1. CASE i = c
        BY <2>0, <2>1, PendStep
    <2>2. CASE i # c
        <3>1. p \notin PendSet(i)'
            BY <2>2 DEF PendSet
        <3>2. QED
            BY <2>0, <2>2, <3>1, PendStep
    <2>3. QED
        BY <2>1, <2>2
<1>2. \A i \in Mig : ups[i] \in Nat /\ Pend(i) \in Nat /\ Pend(i)' \in Nat
    BY PendType DEF TypeOK
<1>3. HistoryPaid'
    <2> SUFFICES ASSUME NEW i \in Mig PROVE Count(history', i) + Pend(i)' <= ups'[i]
        BY DEF HistoryPaid
    <2>1. Count(history, i) + Pend(i) <= ups[i]
        BY DEF HistoryPaid
    <2>2. Count(history, i) \in Nat
        BY CountFacts DEF TypeOK
    <2>3. QED
        BY <1>1, <1>2, <2>1, <2>2
<1>4. BufPaid'
    <2> SUFFICES ASSUME NEW q \in Procs, pc'[q] \in {"rec_trunc", "rec_dump"}, NEW i \in Mig
                 PROVE  Count(buf'[q], i) + Pend(i)' <= ups'[i]
        BY DEF BufPaid
    <2>1. q # p /\ pc[q] \in {"rec_trunc", "rec_dump"}
        OBVIOUS
    <2>2. Count(buf[q], i) + Pend(i) <= ups[i]
        BY <2>1 DEF BufPaid
    <2>3. Count(buf[q], i) \in Nat
        BY CountFacts DEF TypeOK
    <2>4. QED
        BY <1>1, <1>2, <2>2, <2>3
<1>5. QED
    BY <1>3, <1>4


(* A command that ends or raises leaves its record unwritten for good; the *)
(* bound only gets easier.                                                  *)
LEMMA FinishPaid ==
    ASSUME PaidInv, TypeOK', NEW p \in Procs, Finish(p), UNCHANGED <<history, ups>>
    PROVE  PaidInv'
<1>1. \A q \in Procs \ {p} : pc'[q] = pc[q] /\ cur'[q] = cur[q] /\ buf'[q] = buf[q]
    BY DEF Finish, PaidInv, TypeOK
<1>2. pc'[p] = "idle"
    BY DEF Finish, PaidInv, TypeOK
<1>3. \A i \in Mig : Pend(i)' <= Pend(i)
    BY <1>1, <1>2, PendShrink DEF RecPC
<1>4. QED
    BY <1>1, <1>2, <1>3, PaidMonotone

(* record_migration()'s json.dump(): the copy read at line 132 is written *)
(* back with the new record, which pays for the process's own upgrade.     *)
LEMMA DumpPaid ==
    ASSUME PaidInv, TypeOK', NEW p \in Procs, RecordDump(p)
    PROVE  PaidInv'
<1> USE DEF PaidInv
<1>0. PICK c \in Mig : c = cur[p]
    BY DEF RecordDump, TypeOK
<1> DEFINE r == [file |-> c, action |-> "applied"]
<1>1. r \in Record /\ buf[p] \in Seq(Record)
      /\ pc[p] = "rec_dump" /\ history' = Append(buf[p], r) /\ ups' = ups
    BY <1>0 DEF RecordDump, TypeOK, Record, Actions
<1>2. \A q \in Procs \ {p} : pc'[q] = pc[q] /\ cur'[q] = cur[q] /\ buf'[q] = buf[q]
    BY DEF RecordDump, TypeOK
<1>3. pc'[p] \notin RecPC
    BY DEF RecordDump, TypeOK, RecPC
<1>4. \A i \in Mig : Pend(i)' <= Pend(i)
    BY <1>2, <1>3, PendShrink
<1>5. p \in PendSet(c) /\ p \notin PendSet(c)'
    BY <1>0, <1>1, <1>3 DEF PendSet, RecPC
<1>6. Pend(c)' <= Pend(c) - 1
    BY <1>2, <1>5, PendStep
<1>7. \A i \in Mig :
          /\ ups[i] \in Nat /\ Pend(i) \in Nat /\ Pend(i)' \in Nat
          /\ Count(buf[p], i) + Pend(i) <= ups[i]
    BY <1>1, PendType DEF TypeOK, BufPaid
<1>8. HistoryPaid'
    <2> SUFFICES ASSUME NEW i \in Mig PROVE Count(history', i) + Pend(i)' <= ups'[i]
        BY DEF HistoryPaid
    <2>1. Count(buf[p], i) \in Nat
        BY <1>1, CountFacts
    <2>2. Count(history', i) =
            Count(buf[p], i) + (IF r = [file |-> i, action |-> "applied"] THEN 1 ELSE 0)
        BY <1>1, RecordCountAppend DEF Count
    <2>3. CASE i = c
        BY <1>1, <1>6, <1>7, <2>1, <2>2, <2>3
    <2>4. CASE i # c
        <3>1. r # [file |-> i, action |-> "applied"]
            BY <2>4
        <3>2. QED
            BY <1>1, <1>4, <1>7, <2>1, <2>2, <3>1
    <2>5. QED
        BY <2>3, <2>4
<1>9. BufPaid'
    <2> SUFFICES ASSUME NEW q \in Procs, pc'[q] \in {"rec_trunc", "rec_dump"}, NEW i \in Mig
                 PROVE  Count(buf'[q], i) + Pend(i)' <= ups'[i]
        BY DEF BufPaid
    <2>1. q # p
        BY <1>3 DEF RecPC
    <2>2. Count(buf[q], i) + Pend(i) <= ups[i]
        BY <1>2, <2>1 DEF BufPaid
    <2>3. Count(buf[q], i) \in Nat
        BY CountFacts DEF TypeOK
    <2>4. QED
        BY <1>1, <1>2, <1>4, <1>7, <2>1, <2>2, <2>3
<1>10. QED
    BY <1>8, <1>9


(* The invariant holds initially: no history, no upgrade done. *)
LEMMA PaidInitial == Init => PaidInv
<1> SUFFICES ASSUME Init PROVE PaidInv
    OBVIOUS
<1>1. TypeOK
    BY TypeInitial
<1>2. \A i \in Mig : PendSet(i) = {} /\ ups[i] = 0
    BY DEF Init, PendSet, RecPC
<1>3. \A i \in Mig : Pend(i) = 0
    BY <1>2, FS_EmptySet DEF Pend
<1>4. HistoryPaid
    BY <1>2, <1>3, CountFacts DEF Init, HistoryPaid
<1>5. BufPaid
    BY DEF Init, BufPaid
<1>6. QED
    BY <1>1, <1>4, <1>5 DEF PaidInv

(* Every step of every process keeps the invariant. *)
LEMMA PaidStep == PaidInv /\ [Next]_vars => PaidInv'
<1> SUFFICES ASSUME PaidInv, [Next]_vars PROVE PaidInv'
    OBVIOUS
<1> USE DEF PaidInv
<1>0. TypeOK'
    BY TypeStep
<1>1. ASSUME NEW p \in Procs, CreateMigration(p) PROVE PaidInv'
    <2>1. \A q \in Procs \ {p} : pc'[q] = pc[q] /\ cur'[q] = cur[q]
        BY <1>1 DEF CreateMigration, TypeOK, procVars
    <2>2. pc'[p] \in RecPC => pc[p] \in RecPC /\ cur'[p] = cur[p]
        BY <1>1 DEF CreateMigration, TypeOK, RecPC, procVars
    <2>3. \A i \in Mig : Pend(i)' <= Pend(i)
        BY <2>1, <2>2, PendShrink
    <2>4. \A q \in Procs : pc'[q] \in {"rec_trunc", "rec_dump"} =>
              \/ pc[q] \in {"rec_trunc", "rec_dump"} /\ buf'[q] = buf[q]
              \/ buf'[q] = history
        BY <1>1 DEF CreateMigration, TypeOK, procVars
    <2>5. QED
        BY <1>0, <1>1, <2>3, <2>4, PaidMonotone DEF CreateMigration
<1>2. ASSUME NEW p \in Procs, MigrateStart(p) PROVE PaidInv'
    <2>1. \A q \in Procs \ {p} : pc'[q] = pc[q] /\ cur'[q] = cur[q]
        BY <1>2 DEF MigrateStart, TypeOK
    <2>2. pc'[p] \in RecPC => pc[p] \in RecPC /\ cur'[p] = cur[p]
        BY <1>2 DEF MigrateStart, TypeOK, RecPC
    <2>3. \A i \in Mig : Pend(i)' <= Pend(i)
        BY <2>1, <2>2, PendShrink
    <2>4. \A q \in Procs : pc'[q] \in {"rec_trunc", "rec_dump"} =>
              \/ pc[q] \in {"rec_trunc", "rec_dump"} /\ buf'[q] = buf[q]
              \/ buf'[q] = history
        BY <1>2 DEF MigrateStart, TypeOK
    <2>5. QED
        BY <1>0, <1>2, <2>3, <2>4, PaidMonotone DEF MigrateStart
<1>3. ASSUME NEW p \in Procs, MigrateNext(p) PROVE PaidInv'
    <2>1. CASE Finish(p)
        BY <1>0, <1>3, <2>1, FinishPaid DEF MigrateNext
    <2>2. CASE ~Finish(p)
        <3>1. \A q \in Procs \ {p} : pc'[q] = pc[q] /\ cur'[q] = cur[q]
            BY <1>3, <2>2 DEF MigrateNext, TypeOK
        <3>2. pc'[p] = "mig_upgrade" /\ buf' = buf
            BY <1>3, <2>2 DEF MigrateNext, TypeOK
        <3>3. \A i \in Mig : Pend(i)' <= Pend(i)
            BY <3>1, <3>2, PendShrink DEF RecPC
        <3>4. QED
            BY <1>0, <1>3, <3>1, <3>2, <3>3, PaidMonotone DEF MigrateNext
    <2>3. QED
        BY <2>1, <2>2
<1>4. ASSUME NEW p \in Procs, MigrateUpgrade(p) PROVE PaidInv'
    <2>1. CASE Finish(p) /\ UNCHANGED ups
        BY <1>0, <1>4, <2>1, FinishPaid DEF MigrateUpgrade
    <2>2. CASE ups' = [ups EXCEPT ![cur[p]] = @ + 1]
        <3>1. PICK c \in Mig : c = cur[p]
            BY <1>4 DEF MigrateUpgrade, TypeOK
        <3>2. /\ pc[p] \notin RecPC /\ pc'[p] = "rec_read" /\ cur'[p] = c
              /\ buf' = buf /\ history' = history
              /\ \A q \in Procs \ {p} : pc'[q] = pc[q] /\ cur'[q] = cur[q]
            BY <1>4, <2>2, <3>1 DEF MigrateUpgrade, TypeOK, RecPC
        <3>3. \A i \in Mig : ups'[i] = ups[i] + (IF i = c THEN 1 ELSE 0)
            BY <2>2, <3>1 DEF TypeOK
        <3>4. QED
            BY <1>0, <3>2, <3>3, UpgradePaid
    <2>3. QED
        BY <1>4, <2>1, <2>2 DEF MigrateUpgrade
<1>5. ASSUME NEW p \in Procs, RollbackStart(p) PROVE PaidInv'
    <2>1. \A q \in Procs \ {p} : pc'[q] = pc[q] /\ cur'[q] = cur[q]
        BY <1>5 DEF RollbackStart, TypeOK, procVars
    <2>2. pc'[p] \in RecPC => pc[p] \in RecPC /\ cur'[p] = cur[p]
        BY <1>5 DEF RollbackStart, TypeOK, RecPC, procVars
    <2>3. \A i \in Mig : Pend(i)' <= Pend(i)
        BY <2>1, <2>2, PendShrink
    <2>4. \A q \in Procs : pc'[q] \in {"rec_trunc", "rec_dump"} =>
              \/ pc[q] \in {"rec_trunc", "rec_dump"} /\ buf'[q] = buf[q]
              \/ buf'[q] = history
        BY <1>5 DEF RollbackStart, TypeOK, procVars
    <2>5. QED
        BY <1>0, <1>5, <2>3, <2>4, PaidMonotone DEF RollbackStart
<1>6. ASSUME NEW p \in Procs, RollbackRevert(p) PROVE PaidInv'
    BY <1>0, <1>6, FinishPaid DEF RollbackRevert
<1>7. ASSUME NEW p \in Procs, RecordRead(p) PROVE PaidInv'
    <2>1. \A q \in Procs \ {p} : pc'[q] = pc[q] /\ cur'[q] = cur[q]
        BY <1>7 DEF RecordRead, TypeOK
    <2>2. pc'[p] \in RecPC => pc[p] \in RecPC /\ cur'[p] = cur[p]
        BY <1>7 DEF RecordRead, TypeOK, RecPC
    <2>3. \A i \in Mig : Pend(i)' <= Pend(i)
        BY <2>1, <2>2, PendShrink
    <2>4. \A q \in Procs : pc'[q] \in {"rec_trunc", "rec_dump"} =>
              \/ pc[q] \in {"rec_trunc", "rec_dump"} /\ buf'[q] = buf[q]
              \/ buf'[q] = history
        BY <1>7 DEF RecordRead, TypeOK
    <2>5. QED
        BY <1>0, <1>7, <2>3, <2>4, PaidMonotone DEF RecordRead
<1>8. ASSUME NEW p \in Procs, RecordTruncate(p) PROVE PaidInv'
    <2>1. \A q \in Procs \ {p} : pc'[q] = pc[q] /\ cur'[q] = cur[q]
        BY <1>8 DEF RecordTruncate, TypeOK
    <2>2. pc'[p] \in RecPC => pc[p] \in RecPC /\ cur'[p] = cur[p]
        BY <1>8 DEF RecordTruncate, TypeOK, RecPC
    <2>3. \A i \in Mig : Pend(i)' <= Pend(i)
        BY <2>1, <2>2, PendShrink
    <2>4. \A q \in Procs : pc'[q] \in {"rec_trunc", "rec_dump"} =>
              \/ pc[q] \in {"rec_trunc", "rec_dump"} /\ buf'[q] = buf[q]
              \/ buf'[q] = history
        BY <1>8 DEF RecordTruncate, TypeOK
    <2>5. QED
        BY <1>0, <1>8, <2>3, <2>4, PaidMonotone DEF RecordTruncate
<1>9. ASSUME NEW p \in Procs, RecordDump(p) PROVE PaidInv'
    BY <1>0, <1>9, DumpPaid
<1>10. ASSUME NEW p \in Procs, Crash(p) PROVE PaidInv'
    BY <1>0, <1>10, FinishPaid DEF Crash
<1>11. CASE UNCHANGED vars
    <2>1. \A i \in Mig : Pend(i)' = Pend(i)
        BY <1>11 DEF vars, Pend, PendSet
    <2>2. \A i \in Mig : Pend(i)' <= Pend(i)
        BY <2>1, PendType
    <2>3. \A q \in Procs : pc'[q] \in {"rec_trunc", "rec_dump"} =>
              pc[q] \in {"rec_trunc", "rec_dump"} /\ buf'[q] = buf[q]
        BY <1>11 DEF vars
    <2>4. QED
        BY <1>0, <1>11, <2>2, <2>3, PaidMonotone DEF vars
<1>12. QED
    BY <1>1, <1>2, <1>3, <1>4, <1>5, <1>6, <1>7, <1>8, <1>9, <1>10, <1>11 DEF Next

(* record_migration() never writes a record for an upgrade the database   *)
(* did not undergo, however the processes interleave, roll back and crash: *)
(* for every migration, the "applied" records are at most the upgrade()    *)
(* calls that completed, for any number of concurrent CLI processes.        *)
THEOREM RecordsFollowTheorem == Spec => []RecordsFollowUpgrades
<1>1. PaidInv => RecordsFollowUpgrades
    <2> SUFFICES ASSUME PaidInv, NEW i \in Mig
                 PROVE  RecordCount(history, i, "applied") <= ups[i]
        BY DEF RecordsFollowUpgrades
    <2>1. Count(history, i) \in Nat /\ Pend(i) \in Nat /\ ups[i] \in Nat
        BY PendType, CountFacts DEF PaidInv, TypeOK
    <2>2. Count(history, i) + Pend(i) <= ups[i]
        BY DEF PaidInv, HistoryPaid
    <2>3. QED
        BY <2>1, <2>2 DEF Count
<1>2. QED
    BY <1>1, PaidInitial, PaidStep, PTL DEF Spec


-----------------------------------------------------------------------------
(* The status command agrees with the database when one developer runs the *)
(* CLI: one process and no crash (upgrades may raise, rollback is used).   *)
(* Both are needed: a crash after upgrade() and before the record, or a    *)
(* second process whose record overwrites the first's, makes the status    *)
(* list disagree with the database.  rollback changes nothing but the      *)
(* command count, since it raises before it downgrades.                     *)

Sequential ==
    /\ \E p0 : Procs = {p0}
    /\ ~Crashes

(* The history the process leaves once the write it is doing ends: while  *)
(* json.dump() has not written the file, it is the copy read at line 132. *)
Hist(p) == IF pc[p] = "rec_dump" THEN buf[p] ELSE history

(* The files whose upgrade() completed: those the history will list as    *)
(* applied, and the one whose record is being written.                     *)
Upgraded(p) ==
    AppliedFilenames(Hist(p)) \cup (IF pc[p] \in RecPC THEN {cur[p]} ELSE {})

ProcInv(p) ==
    /\ pc[p] = "rec_trunc" => buf[p] = history
    /\ \A i \in Mig : ups[i] = IF i \in Upgraded(p) THEN 1 ELSE 0
    /\ pc[p] \in {"mig_upgrade"} \cup RecPC =>
           cur[p] \notin AppliedFilenames(Hist(p)) \cup todo[p]
    /\ todo[p] \cap AppliedFilenames(Hist(p)) = {}

SeqInv ==
    /\ TypeOK
    /\ \A p \in Procs : ProcInv(p)

LEMMA AppliedEmpty == AppliedFilenames(<<>>) = {}
BY DEF AppliedFilenames

(* Appending an "applied" record adds its file to the applied ones. *)
LEMMA AppliedAppend ==
    ASSUME NEW h \in Seq(Record), NEW i \in Mig
    PROVE  AppliedFilenames(Append(h, [file |-> i, action |-> "applied"]))
             = AppliedFilenames(h) \cup {i}
<1> DEFINE r == [file |-> i, action |-> "applied"]
           g == Append(h, r)
<1>1. /\ Len(g) = Len(h) + 1 /\ Len(h) \in Nat
      /\ DOMAIN g = 1..Len(h) + 1 /\ DOMAIN h = 1..Len(h)
      /\ \A x \in 1..Len(h) : g[x] = h[x]
      /\ g[Len(h) + 1] = r
    BY r \in Record, AppendProperties, LenProperties DEF Record, Actions
<1>2. {x \in DOMAIN g : g[x].action = "applied"}
        = {x \in DOMAIN h : h[x].action = "applied"} \cup {Len(h) + 1}
    BY <1>1
<1>3. QED
    BY <1>1, <1>2 DEF AppliedFilenames


LEMMA SeqInitial == Init => SeqInv
<1> SUFFICES ASSUME Init PROVE SeqInv
    OBVIOUS
<1>1. TypeOK
    BY TypeInitial
<1>2. \A p \in Procs : Hist(p) = <<>> /\ Upgraded(p) = {}
    BY AppliedEmpty DEF Init, Hist, Upgraded, RecPC
<1>3. QED
    BY <1>1, <1>2, AppliedEmpty DEF Init, SeqInv, ProcInv

(* A step of process p keeps ProcInv(p) when it changes none of the state *)
(* ProcInv reads.                                                           *)
LEMMA ProcInvKept ==
    ASSUME NEW p \in Procs, ProcInv(p),
           UNCHANGED <<history, ups, pc[p], todo[p], cur[p], buf[p]>>
    PROVE  ProcInv(p)'
BY DEF ProcInv, Upgraded, Hist

LEMMA SeqStep == ASSUME Sequential PROVE SeqInv /\ [Next]_vars => SeqInv'
<1> SUFFICES ASSUME SeqInv, [Next]_vars PROVE SeqInv'
    OBVIOUS
<1>0. TypeOK'
    BY TypeStep DEF SeqInv
<1>1. PICK p0 : Procs = {p0}
    BY DEF Sequential
<1>2. ProcInv(p0) /\ TypeOK
    BY <1>1 DEF SeqInv
<1> SUFFICES ProcInv(p0)'
    BY <1>0, <1>1 DEF SeqInv
<1> USE <1>2
<1> DEFINE p == p0
<1>3. p \in Procs /\ pc[p] \in PC /\ cur[p] \in Mig \cup {0} /\ todo[p] \subseteq Mig
      /\ history \in Seq(Record) /\ buf[p] \in Seq(Record) /\ ups \in [Mig -> Nat]
      /\ pc \in [Procs -> PC] /\ todo \in [Procs -> SUBSET Mig]
      /\ cur \in [Procs -> Mig \cup {0}] /\ buf \in [Procs -> Seq(Record)]
    BY <1>1 DEF TypeOK
<1>4. ASSUME CreateMigration(p) PROVE ProcInv(p)'
    BY <1>4, <1>3, ProcInvKept DEF CreateMigration, procVars
<1>5. ASSUME MigrateStart(p) PROVE ProcInv(p)'
    <2>1. pc[p] = "idle" /\ pc'[p] = "mig_next"
          /\ todo'[p] = files \ AppliedFilenames(history)
          /\ UNCHANGED <<history, ups, cur, buf>>
        BY <1>5, <1>3 DEF MigrateStart
    <2>2. Hist(p)' = history /\ Hist(p) = history
        BY <2>1 DEF Hist
    <2>3. Upgraded(p)' = Upgraded(p)
        BY <2>1, <2>2 DEF Upgraded, RecPC
    <2>4. QED
        BY <2>1, <2>2, <2>3 DEF ProcInv, Hist, Upgraded, RecPC
<1>6. ASSUME MigrateNext(p) PROVE ProcInv(p)'
    <2>0. pc[p] = "mig_next" /\ UNCHANGED <<history, ups>>
        BY <1>6 DEF MigrateNext
    <2>1. Hist(p) = history /\ Upgraded(p) = AppliedFilenames(history)
        BY <2>0 DEF Hist, Upgraded, RecPC
    <2>2. CASE todo[p] = {}
        <3>1. pc'[p] = "idle" /\ todo'[p] = {}
            BY <1>6, <1>3, <2>2 DEF MigrateNext, Finish
        <3>2. Hist(p)' = history /\ Upgraded(p)' = AppliedFilenames(history)
            BY <2>0, <3>1 DEF Hist, Upgraded, RecPC
        <3>3. QED
            BY <2>0, <2>1, <3>1, <3>2 DEF ProcInv, Hist, Upgraded, RecPC
    <2>3. CASE todo[p] # {}
        <3> DEFINE c == Earliest(todo[p])
        <3>0. todo[p] \in SUBSET Nat
            BY <1>3 DEF Mig
        <3>1. c \in todo[p]
            BY <2>3, <3>0, EarliestProps
        <3>2. /\ pc'[p] = "mig_upgrade" /\ cur'[p] = c /\ todo'[p] = todo[p] \ {c}
              /\ UNCHANGED buf
            BY <1>6, <1>3, <2>3 DEF MigrateNext
        <3>3. Hist(p)' = history /\ Upgraded(p)' = AppliedFilenames(history)
            BY <2>0, <3>2 DEF Hist, Upgraded, RecPC
        <3>4. c \notin AppliedFilenames(history)
            BY <3>1, <2>1 DEF ProcInv
        <3>5. QED
            BY <2>0, <2>1, <3>2, <3>3, <3>4 DEF ProcInv, RecPC, Hist, Upgraded
    <2>4. QED
        BY <2>2, <2>3
<1>7. ASSUME MigrateUpgrade(p) PROVE ProcInv(p)'
    <2>0. /\ pc[p] = "mig_upgrade" /\ cur[p] \in Mig /\ UNCHANGED history
          /\ Hist(p) = history /\ Upgraded(p) = AppliedFilenames(history)
          /\ cur[p] \notin AppliedFilenames(history) \cup todo[p]
        BY <1>7, <1>3 DEF MigrateUpgrade, TypeOK, Hist, Upgraded, RecPC, ProcInv
    <2>1. CASE /\ ups' = [ups EXCEPT ![cur[p]] = @ + 1]
               /\ pc' = [pc EXCEPT ![p] = "rec_read"]
               /\ UNCHANGED <<todo, cur, buf>>
        <3>1. pc'[p] = "rec_read"
            BY <2>1, <1>3 DEF TypeOK
        <3>2. Hist(p)' = history
              /\ Upgraded(p)' = AppliedFilenames(history) \cup {cur[p]}
            BY <2>0, <2>1, <3>1 DEF Hist, Upgraded, RecPC
        <3>3. ups[cur[p]] = 0
            BY <2>0 DEF ProcInv
        <3>4. \A i \in Mig : ups'[i] = IF i \in Upgraded(p)' THEN 1 ELSE 0
            BY <2>0, <2>1, <3>2, <3>3, <1>3 DEF ProcInv
        <3>5. QED
            BY <2>0, <2>1, <3>1, <3>2, <3>4 DEF ProcInv, RecPC, Hist, Upgraded
    <2>2. CASE UpgradesMayFail /\ Finish(p) /\ UNCHANGED ups
        <3>1. pc'[p] = "idle" /\ todo'[p] = {}
            BY <2>2, <1>3 DEF Finish
        <3>2. Hist(p)' = history /\ Upgraded(p)' = AppliedFilenames(history)
            BY <2>0, <3>1 DEF Hist, Upgraded, RecPC
        <3>3. QED
            BY <2>0, <2>2, <3>1, <3>2 DEF ProcInv, Hist, Upgraded, RecPC
    <2>3. QED
        BY <1>7, <2>1, <2>2 DEF MigrateUpgrade
<1>8. ASSUME RollbackStart(p) PROVE ProcInv(p)'
    <2>1. pc[p] = "idle" /\ UNCHANGED <<history, ups, todo>>
          /\ pc'[p] \in {"idle", "rb_revert"}
        BY <1>8, <1>3 DEF RollbackStart, procVars
    <2>2. Hist(p)' = history /\ Hist(p) = history
          /\ Upgraded(p)' = AppliedFilenames(history)
          /\ Upgraded(p) = AppliedFilenames(history)
        BY <2>1 DEF Hist, Upgraded, RecPC
    <2>3. QED
        BY <2>1, <2>2 DEF ProcInv, RecPC
<1>14. ASSUME RollbackRevert(p) PROVE ProcInv(p)'
    <2>1. pc[p] = "rb_revert" /\ pc'[p] = "idle" /\ todo'[p] = {}
          /\ UNCHANGED <<history, ups>>
        BY <1>14, <1>3 DEF RollbackRevert, Finish
    <2>2. Hist(p)' = history /\ Hist(p) = history
          /\ Upgraded(p)' = AppliedFilenames(history)
          /\ Upgraded(p) = AppliedFilenames(history)
        BY <2>1 DEF Hist, Upgraded, RecPC
    <2>3. QED
        BY <2>1, <2>2 DEF ProcInv, RecPC
<1>15. ~Crash(p)
    BY DEF Crash, Sequential
<1>9. ASSUME RecordRead(p) PROVE ProcInv(p)'
    <2>1. pc[p] = "rec_read" /\ pc'[p] = "rec_trunc" /\ buf'[p] = history
          /\ UNCHANGED <<history, ups, todo, cur>>
        BY <1>9, <1>3 DEF RecordRead
    <2>2. Hist(p)' = Hist(p) /\ Upgraded(p)' = Upgraded(p)
        BY <2>1 DEF Hist, Upgraded, RecPC
    <2>3. QED
        BY <2>1, <2>2 DEF ProcInv, RecPC
<1>10. ASSUME RecordTruncate(p) PROVE ProcInv(p)'
    <2>1. pc[p] = "rec_trunc" /\ pc'[p] = "rec_dump" /\ buf[p] = history
          /\ UNCHANGED <<ups, todo, cur, buf>>
        BY <1>10, <1>3 DEF RecordTruncate, ProcInv
    <2>2. Hist(p)' = Hist(p) /\ Upgraded(p)' = Upgraded(p)
        BY <2>1 DEF Hist, Upgraded, RecPC
    <2>3. QED
        BY <2>1, <2>2 DEF ProcInv, RecPC
<1>11. ASSUME RecordDump(p) PROVE ProcInv(p)'
    <2>0. /\ pc[p] = "rec_dump" /\ cur[p] \in Mig
          /\ history' = Append(buf[p], [file |-> cur[p], action |-> "applied"])
          /\ UNCHANGED ups
        BY <1>11, <1>3 DEF RecordDump, ProcInv, TypeOK
    <2>1. pc'[p] = "mig_next" /\ UNCHANGED <<todo, cur>>
        BY <1>11, <1>3, <2>0 DEF RecordDump
    <2>2. AppliedFilenames(history') = AppliedFilenames(buf[p]) \cup {cur[p]}
        BY <2>0, <1>3, AppliedAppend
    <2>3. Hist(p) = buf[p] /\ Hist(p)' = history'
        BY <2>0, <2>1 DEF Hist
    <2>4. Upgraded(p)' = Upgraded(p)
        BY <2>0, <2>1, <2>2, <2>3 DEF Upgraded, RecPC
    <2>5. todo[p] \cap AppliedFilenames(history') = {}
        BY <2>0, <2>2, <2>3 DEF ProcInv, RecPC
    <2>6. QED
        BY <2>0, <2>1, <2>3, <2>4, <2>5 DEF ProcInv, Hist, Upgraded, RecPC
<1>12. CASE UNCHANGED vars
    <2>1. UNCHANGED <<history, ups, pc[p], todo[p], cur[p], buf[p]>>
        BY <1>12 DEF vars
    <2>2. ProcInv(p)'
        BY <2>1, <1>3, ProcInvKept
    <2>3. QED
        BY <2>2
<1>13. QED
    BY <1>1, <1>4, <1>5, <1>6, <1>7, <1>8, <1>9, <1>10, <1>11, <1>12, <1>14, <1>15 DEF Next

(* With one CLI process and no crash, whenever no command is running the  *)
(* status command lists as APPLIED exactly the files whose upgrade() is in *)
(* effect on the database, however many migrate and rollback commands ran, *)
(* files were created between them (sorting before older ones) and        *)
(* upgrades raised.                                                         *)
THEOREM StatusTheorem == ASSUME Sequential PROVE Spec => []StatusReflectsDb
<1>1. SeqInv => StatusReflectsDb
    <2> SUFFICES ASSUME SeqInv, \A p \in Procs : pc[p] = "idle", NEW i \in files
                 PROVE  (i \in AppliedFilenames(history)) <=> InEffect(i) = 1
        BY DEF StatusReflectsDb
    <2>1. PICK p0 : Procs = {p0}
        BY DEF Sequential
    <2>2. i \in Mig /\ ups[i] \in Nat
        BY DEF SeqInv, TypeOK
    <2>3. Upgraded(p0) = AppliedFilenames(history)
        BY <2>1 DEF Upgraded, Hist, RecPC
    <2>4. ups[i] = IF i \in AppliedFilenames(history) THEN 1 ELSE 0
        BY <2>1, <2>2, <2>3 DEF SeqInv, ProcInv
    <2>5. QED
        BY <2>2, <2>4 DEF InEffect
<1>2. QED
    BY <1>1, SeqInitial, SeqStep, PTL DEF Spec

=============================================================================
