------------------------- MODULE DjangoCursorProofs -------------------------
(***************************************************************************)
(* Proofs about PhantomDBCursor (DjangoCursor), for every number of rows,  *)
(* execute() calls and batch sizes.                                         *)
(***************************************************************************)
EXTENDS DjangoCursor, SequenceTheorems, TLAPS

USE CursorConstantsAssumption

-----------------------------------------------------------------------------
(* Python slicing and the fetch position.                                   *)

(* s[a:b] with a <= b <= len(s) is the subsequence from a + 1 to b.        *)
LEMMA PySliceIsSubSeq ==
    ASSUME NEW S, NEW s \in Seq(S), NEW a \in 0..Len(s), NEW b \in a..Len(s)
    PROVE  PySlice(s, a, b) = SubSeq(s, a + 1, b)
<1>1. CASE b <= a
    <2>1. SubSeq(s, a + 1, b) = <<>>
        BY <1>1, SubSeqEmpty
    <2>2. QED
        BY <1>1, <2>1 DEF PySlice
<1>2. CASE ~(b <= a)
    BY <1>2 DEF PySlice
<1>3. QED
    BY <1>1, <1>2

(* A slice of a sequence is a sequence of its elements, whatever the      *)
(* bounds: Python clamps them and so does PySlice.                          *)
LEMMA PySliceType ==
    ASSUME NEW S, NEW s \in Seq(S), NEW a \in Nat, NEW b \in Int
    PROVE  PySlice(s, a, b) \in Seq(S)
<1>1. CASE b <= a
    BY <1>1, EmptySeq DEF PySlice
<1>2. CASE ~(b <= a)
    <2> DEFINE e == IF b < Len(s) THEN b ELSE Len(s)
    <2>1. \A i \in (a + 1)..e : s[i] \in S
        BY <1>2, ElementOfSeq
    <2>2. QED
        BY <1>2, <2>1, SubSeqProperties DEF PySlice
<1>3. QED
    BY <1>1, <1>2

(* Taking the first e - r rows of what is left after r, and what is left  *)
(* after those, splits s[r:] at e.                                          *)
LEMMA SplitRemaining ==
    ASSUME NEW S, NEW s \in Seq(S), NEW r \in 0..Len(s), NEW e \in r..Len(s)
    PROVE  LET rows == SubSeq(s, r + 1, Len(s)) IN
           /\ Len(rows) = Len(s) - r
           /\ SubSeq(rows, 1, e - r) = SubSeq(s, r + 1, e)
           /\ SubSeq(rows, e - r + 1, Len(rows)) = SubSeq(s, e + 1, Len(s))
<1> DEFINE rows == SubSeq(s, r + 1, Len(s))
<1>1. \A i \in (r + 1)..Len(s) : s[i] \in S
    BY ElementOfSeq
<1>2. rows \in Seq(S) /\ Len(rows) = Len(s) - r
      /\ \A i \in 1..(Len(s) - r) : rows[i] = s[r + i]
    BY <1>1, SubSeqProperties
<1>3. SubSeq(rows, 1, e - r) = SubSeq(s, r + 1, e)
    <2>1. \A i \in 1..(e - r) : rows[i] \in S
        BY <1>2, ElementOfSeq
    <2>2. \A i \in (r + 1)..e : s[i] \in S
        BY ElementOfSeq
    <2>3. QED
        BY <1>2, <2>1, <2>2, SubSeqProperties, SeqEqual
<1>4. SubSeq(rows, e - r + 1, Len(rows)) = SubSeq(s, e + 1, Len(s))
    <2>1. \A i \in (e - r + 1)..Len(rows) : rows[i] \in S
        BY <1>2, ElementOfSeq
    <2>2. \A i \in (e + 1)..Len(s) : s[i] \in S
        BY ElementOfSeq
    <2>3. QED
        BY <1>2, <2>1, <2>2, SubSeqProperties, SeqEqual
<1>5. QED
    BY <1>2, <1>3, <1>4
-----------------------------------------------------------------------------
(* Type correctness.                                                        *)

(* Every result set execute() may store is a sequence of rows of at most   *)
(* MaxRows rows.                                                            *)
LEMMA ResultSetsType ==
    ASSUME NEW kind \in Kinds, NEW e \in 1..MaxExecs, NEW res \in ResultSets(kind, e)
    PROVE  res \in Seq(RowIds) /\ Len(res) \in 0..MaxRows
<1>1. <<e, 1>> \in RowIds
    BY DEF RowIds
<1>2. << <<e, 1>> >> \in Seq(RowIds) /\ Len(<< <<e, 1>> >>) = 1
    BY <1>1
<1>3. CASE kind = "select"
    <2>1. PICK n \in 0..MaxRows : res = [j \in 1..n |-> <<e, j>>]
        BY <1>3 DEF ResultSets
    <2>2. \A j \in 1..n : <<e, j>> \in RowIds
        BY DEF RowIds
    <2>3. [j \in 1..n |-> <<e, j>>] \in Seq(RowIds)
        BY <2>2, IsASeq
    <2>4. QED
        BY <2>1, <2>3
<1>4. CASE kind = "other"
    <2>1. res \in {<<>>, << <<e, 1>> >>}
        BY <1>4 DEF ResultSets
    <2>2. <<>> \in Seq(RowIds) /\ Len(<<>>) = 0
        BY EmptySeq
    <2>3. CASE res = <<>>
        BY <2>2, <2>3
    <2>4. CASE res = << <<e, 1>> >>
        BY <1>2, <2>4
    <2>5. QED
        BY <2>1, <2>3, <2>4
<1>5. CASE kind \notin {"select", "other"}
    <2>1. res = << <<e, 1>> >>
        BY <1>5 DEF ResultSets
    <2>2. QED
        BY <1>2, <2>1
<1>6. QED
    BY <1>3, <1>4, <1>5

(* TypeOK, with the bound on the length of the stored result set that     *)
(* keeps rownumber and rowcount within 0..MaxRows.                          *)
CursorInv == TypeOK /\ Len(results) <= MaxRows

(* CursorInv but for the flag, which the provers handle apart. *)
Counts ==
    /\ results \in Seq(RowIds)
    /\ rowcount \in -1..MaxRows
    /\ rownumber \in 0..MaxRows
    /\ execs \in 0..MaxExecs
    /\ fetched \in Seq(RowIds)
    /\ Len(results) <= MaxRows

LEMMA CursorInvSplit == CursorInv <=> closed \in BOOLEAN /\ Counts
    BY DEF CursorInv, TypeOK, Counts

(* The empty result set. *)
LEMMA NoRows == <<>> \in Seq(RowIds) /\ Len(<<>>) = 0
    BY EmptySeq

LEMMA CursorInvInit == Init => CursorInv
<1> SUFFICES ASSUME Init PROVE CursorInv
    OBVIOUS
<1>1. results \in Seq(RowIds) /\ fetched \in Seq(RowIds) /\ Len(results) <= MaxRows
    BY NoRows DEF Init
<1>2. closed \in BOOLEAN
    BY DEF Init
<1>4. /\ rowcount \in -1..MaxRows
      /\ rownumber \in 0..MaxRows
      /\ execs \in 0..MaxExecs
    BY DEF Init
<1>3. QED
    BY <1>1, <1>2, <1>4, CursorInvSplit DEF Counts

LEMMA CursorInvStep == CursorInv /\ [Next]_vars => CursorInv'
<1> SUFFICES ASSUME CursorInv, [Next]_vars PROVE CursorInv'
    OBVIOUS
<1>0. closed' \in BOOLEAN
    BY DEF CursorInv, TypeOK, Next, vars, CreateCursor, Execute, FetchOne,
           FetchMany, FetchAll, Close
<1> SUFFICES Counts'
    BY <1>0, Zenon DEF CursorInv, TypeOK, Counts
<1> USE DEF CursorInv, TypeOK, Counts
<1>1. CASE CreateCursor
    BY <1>1, NoRows DEF CreateCursor
<1>2. CASE Execute
    <2>1. PICK kind \in Kinds : \E res \in ResultSets(kind, execs + 1) :
             /\ results' = res
             /\ rownumber' = IF kind = "select" THEN 0 ELSE rownumber
             /\ \/ kind = "select" /\ rowcount' = Len(res)
                \/ kind = "insert" /\ rowcount' = 1
                \/ kind \in {"update", "delete"} /\ rowcount' \in 0..MaxRows
                \/ kind = "other" /\ rowcount' = Len(res)
        BY <1>2 DEF Execute
    <2>2. execs + 1 \in 1..MaxExecs
        BY <1>2 DEF Execute
    <2>3. PICK res \in ResultSets(kind, execs + 1) :
             /\ results' = res
             /\ rownumber' = IF kind = "select" THEN 0 ELSE rownumber
             /\ \/ kind = "select" /\ rowcount' = Len(res)
                \/ kind = "insert" /\ rowcount' = 1
                \/ kind \in {"update", "delete"} /\ rowcount' \in 0..MaxRows
                \/ kind = "other" /\ rowcount' = Len(res)
        BY <2>1
    <2>4. res \in Seq(RowIds) /\ Len(res) \in 0..MaxRows
        BY <2>2, ResultSetsType
    <2>5. QED
        BY <1>2, <2>3, <2>4, NoRows DEF Execute
<1>3. CASE FetchOne
    <2>1. CASE rownumber >= Len(results)
        BY <1>3, <2>1, NoRows DEF FetchOne
    <2>2. CASE rownumber < Len(results)
        <3>1. results[rownumber + 1] \in RowIds
            BY <2>2, ElementOfSeq
        <3>2. fetched' \in Seq(RowIds)
            BY <1>3, <2>2, <3>1 DEF FetchOne
        <3>3. rownumber' \in 0..MaxRows
            BY <1>3, <2>2 DEF FetchOne
        <3>4. UNCHANGED <<results, rowcount, execs>>
            BY <1>3 DEF FetchOne
        <3>5. QED
            BY <3>2, <3>3, <3>4
    <2>3. QED
        BY <2>1, <2>2
<1>4. CASE FetchMany
    <2>1. PICK size \in Sizes \cup {NoSize} :
             LET n   == IF size = NoSize THEN Len(results) - rownumber ELSE size
                 end == IF rownumber + n < Len(results) THEN rownumber + n ELSE Len(results)
             IN  /\ fetched' = PySlice(results, rownumber, end)
                 /\ rownumber' = end
                 /\ UNCHANGED <<closed, results, rowcount, execs>>
        BY <1>4 DEF FetchMany
    <2> DEFINE n   == IF size = NoSize THEN Len(results) - rownumber ELSE size
               end == IF rownumber + n < Len(results) THEN rownumber + n ELSE Len(results)
    <2>2. end \in 0..MaxRows
        BY DEF NoSize
    <2>3. \A a \in Nat, b \in Int : PySlice(results, a, b) \in Seq(RowIds)
        BY PySliceType
    <2>6. rownumber \in Nat /\ end \in Int
        BY <2>2
    <2>4. PySlice(results, rownumber, end) \in Seq(RowIds)
        BY <2>6, <2>3, Zenon
    <2>5. QED
        BY <2>1, <2>2, <2>4
<1>5. CASE FetchAll
    BY <1>5, PySliceType DEF FetchAll
<1>6. CASE Close
    BY <1>6, NoRows DEF Close
<1>7. CASE UNCHANGED vars
    BY <1>7 DEF vars
<1>8. QED
    BY <1>1, <1>2, <1>3, <1>4, <1>5, <1>6, <1>7 DEF Next

(* TypeOK: whatever statements the caller runs and however it fetches,    *)
(* rownumber and rowcount stay within the result set's bounds and every    *)
(* fetch returns a sequence of rows.                                        *)
THEOREM CursorTypeCorrect == Spec => []TypeOK
<1>1. CursorInv => TypeOK
    BY DEF CursorInv
<1>2. QED
    BY <1>1, CursorInvInit, CursorInvStep, PTL DEF Spec
-----------------------------------------------------------------------------
(* The cursor implements the result iterator.                               *)

(* The caller runs only SELECT statements.  With any other statement kind  *)
(* the refinement fails: execute() leaves the fetch position of the last   *)
(* SELECT in place (run cursor_stale_position).                            *)
SelectOnly == Kinds \subseteq {"select"}

(* The fetch position never passes the end of the current result set.      *)
PositionInv == CursorInv /\ rownumber <= Len(results)

(* One element of a sequence, as a subsequence. *)
LEMMA SubSeqSingle ==
    ASSUME NEW S, NEW s \in Seq(S), NEW i \in 1..Len(s)
    PROVE  SubSeq(s, i, i) = << s[i] >>
<1>1. s[i] \in S
    BY ElementOfSeq
<1>2. SubSeq(s, i, i) \in Seq(S) /\ Len(SubSeq(s, i, i)) = 1 /\ SubSeq(s, i, i)[1] = s[i]
    BY <1>1, SubSeqProperties
<1>3. << s[i] >> \in Seq(S) /\ Len(<< s[i] >>) = 1 /\ << s[i] >>[1] = s[i]
    BY <1>1
<1>4. \A j \in 1..Len(SubSeq(s, i, i)) : SubSeq(s, i, i)[j] = << s[i] >>[j]
    BY <1>2, <1>3
<1>5. QED
    BY <1>2, <1>3, <1>4, SeqEqual

(* Under PositionInv what is left to fetch is s[rownumber + 1 ..]. *)
LEMMA RemainingIsSubSeq ==
    ASSUME PositionInv
    PROVE  Remaining = SubSeq(results, rownumber + 1, Len(results))
BY PySliceIsSubSeq DEF PositionInv, CursorInv, TypeOK, Remaining

LEMMA PositionInvInit == Init => PositionInv
    BY CursorInvInit, NoRows DEF Init, PositionInv

LEMMA PositionInvStep == ASSUME SelectOnly PROVE PositionInv /\ [Next]_vars => PositionInv'
<1> SUFFICES ASSUME PositionInv, [Next]_vars PROVE PositionInv'
    OBVIOUS
<1>1. CursorInv'
    BY CursorInvStep DEF PositionInv
<1>2. rownumber' <= Len(results')
    <2> USE DEF PositionInv, CursorInv, TypeOK
    <2>1. CASE CreateCursor \/ Close
        BY <2>1, NoRows DEF CreateCursor, Close
    <2>2. CASE Execute
        BY <2>2 DEF Execute, SelectOnly
    <2>3. CASE FetchOne
        BY <2>3 DEF FetchOne
    <2>4. CASE FetchMany
        BY <2>4 DEF FetchMany, NoSize
    <2>5. CASE FetchAll \/ UNCHANGED vars
        BY <2>5 DEF FetchAll, vars
    <2>6. QED
        BY <2>1, <2>2, <2>3, <2>4, <2>5 DEF Next
<1>3. QED
    BY <1>1, <1>2 DEF PositionInv

LEMMA PositionInvHolds == ASSUME SelectOnly PROVE Spec => []PositionInv
    BY PositionInvInit, PositionInvStep, PTL DEF Spec

(* A fetch that moves the position from r to some e in r..len(results) and *)
(* returns results[r:e] is a Fetch of the iterator that takes e - r rows.   *)
LEMMA FetchRefines ==
    ASSUME PositionInv,
           UNCHANGED <<closed, results>>,
           rownumber' \in rownumber..Len(results),
           fetched' = SubSeq(results, rownumber + 1, rownumber')
    PROVE  Iter!Fetch
<1> DEFINE r == rownumber
           L == Len(results)
           rows == SubSeq(results, r + 1, L)
<1>1. results \in Seq(RowIds) /\ r \in 0..L
    BY DEF PositionInv, CursorInv, TypeOK
<1>2. PICK e \in r..L : e = rownumber'
    OBVIOUS
<1>3. /\ Len(rows) = L - r
      /\ SubSeq(rows, 1, e - r) = SubSeq(results, r + 1, e)
      /\ SubSeq(rows, e - r + 1, Len(rows)) = SubSeq(results, e + 1, L)
    BY <1>1, SplitRemaining
<1>4. Remaining = rows
    BY RemainingIsSubSeq
<1>9. e \in 0..Len(results) /\ Len(results) \in e..Len(results)
    BY <1>1
<1>8. PySlice(results, e, L) = SubSeq(results, e + 1, L)
    BY <1>1, <1>9, PySliceIsSubSeq, Zenon
<1>5. Remaining' = SubSeq(results, e + 1, L)
    BY <1>2, <1>8 DEF Remaining
<1>6. e - r \in 0..Len(rows)
    BY <1>1, <1>3
<1>7. QED
    BY <1>2, <1>3, <1>4, <1>5, <1>6 DEF Iter!Fetch

(* Every step of the cursor is a step of the iterator or leaves the        *)
(* iterator's state as it was.                                              *)
LEMMA StepRefines ==
    ASSUME SelectOnly PROVE PositionInv /\ [Next]_vars => [Iter!Next]_Iter!vars
<1> SUFFICES ASSUME PositionInv, [Next]_vars PROVE [Iter!Next]_Iter!vars
    OBVIOUS
<1>0. results \in Seq(RowIds) /\ rownumber \in 0..Len(results)
      /\ Len(results) <= MaxRows
    BY DEF PositionInv, CursorInv, TypeOK
<1>1. CASE CreateCursor
    <2>1. Remaining' = <<>>
        BY <1>1 DEF CreateCursor, Remaining, PySlice
    <2>2. Iter!Reopen
        BY <1>1, <2>1 DEF CreateCursor, Iter!Reopen
    <2>3. QED
        BY <2>2 DEF Iter!Next
<1>2. CASE Execute
    <2>1. PICK res \in ResultSets("select", execs + 1) :
             /\ results' = res
             /\ rownumber' = 0
        BY <1>2 DEF Execute, SelectOnly
    <2>2. execs + 1 \in 1..MaxExecs
        BY <1>2, <1>0 DEF Execute, PositionInv, CursorInv, TypeOK
    <2>3. "select" \in Kinds
        BY <1>2 DEF Execute, SelectOnly
    <2>4. res \in Seq(RowIds)
        BY <2>2, <2>3, ResultSetsType
    <2>9. PySlice(res, 0, Len(res)) = SubSeq(res, 1, Len(res))
        BY <2>4, PySliceIsSubSeq
    <2>5. Remaining' = SubSeq(res, 1, Len(res))
        BY <2>1, <2>9 DEF Remaining
    <2>6. Remaining' = res
        BY <2>4, <2>5, SubSeqFull
    <2>7. Iter!Execute
        BY <1>2, <2>1, <2>4, <2>6 DEF Execute, Iter!Execute
    <2>8. QED
        BY <2>7 DEF Iter!Next
<1>3. CASE FetchOne
    <2>1. CASE rownumber >= Len(results)
        <3>1. rownumber' = rownumber /\ fetched' = <<>>
            BY <1>3, <2>1 DEF FetchOne
        <3>2. SubSeq(results, rownumber + 1, rownumber) = <<>>
            BY <1>0, SubSeqEmpty
        <3>3. Iter!Fetch
            BY <1>0, <1>3, <3>1, <3>2, FetchRefines DEF FetchOne
        <3>4. QED
            BY <3>3 DEF Iter!Next
    <2>2. CASE rownumber < Len(results)
        <3>1. rownumber' = rownumber + 1 /\ fetched' = << results[rownumber + 1] >>
            BY <1>0, <1>3, <2>2 DEF FetchOne
        <3>2. SubSeq(results, rownumber + 1, rownumber + 1) = << results[rownumber + 1] >>
            BY <1>0, <2>2, SubSeqSingle
        <3>3. Iter!Fetch
            BY <1>0, <1>3, <2>2, <3>1, <3>2, FetchRefines DEF FetchOne
        <3>4. QED
            BY <3>3 DEF Iter!Next
    <2>3. QED
        BY <1>0, <2>1, <2>2
<1>4. CASE FetchMany
    <2>1. PICK size \in Sizes \cup {NoSize} :
             LET n   == IF size = NoSize THEN Len(results) - rownumber ELSE size
                 end == IF rownumber + n < Len(results) THEN rownumber + n ELSE Len(results)
             IN  /\ fetched' = PySlice(results, rownumber, end)
                 /\ rownumber' = end
                 /\ UNCHANGED <<closed, results, rowcount, execs>>
        BY <1>4 DEF FetchMany
    <2> DEFINE n   == IF size = NoSize THEN Len(results) - rownumber ELSE size
               end == IF rownumber + n < Len(results) THEN rownumber + n ELSE Len(results)
    <2>2. end \in rownumber..Len(results)
        BY <1>0 DEF NoSize
    <2>3. PySlice(results, rownumber, end) = SubSeq(results, rownumber + 1, end)
        BY <1>0, <2>2, PySliceIsSubSeq
    <2>4. Iter!Fetch
        BY <2>1, <2>2, <2>3, FetchRefines
    <2>5. QED
        BY <2>4 DEF Iter!Next
<1>5. CASE FetchAll
    <2>1. PySlice(results, rownumber, Len(results))
            = SubSeq(results, rownumber + 1, Len(results))
        BY <1>0, PySliceIsSubSeq
    <2>2. Iter!Fetch
        BY <1>0, <1>5, <2>1, FetchRefines DEF FetchAll
    <2>3. QED
        BY <2>2 DEF Iter!Next
<1>6. CASE Close
    <2>1. Remaining' = <<>>
        BY <1>6 DEF Close, Remaining, PySlice
    <2>2. Iter!Close
        BY <1>6, <2>1 DEF Close, Iter!Close
    <2>3. QED
        BY <2>2 DEF Iter!Next
<1>7. CASE UNCHANGED vars
    BY <1>7 DEF vars, Iter!vars, Remaining
<1>8. QED
    BY <1>1, <1>2, <1>3, <1>4, <1>5, <1>6, <1>7 DEF Next

(* IteratorRefinement, for a caller that runs only SELECT statements, with *)
(* any number of rows, any batch sizes and any mix of fetch calls: the     *)
(* cursor hands out each row of each result set once, in order.            *)
THEOREM CursorRefinement == ASSUME SelectOnly PROVE Spec => IteratorRefinement
<1>1. Init => Iter!Init
    BY DEF Init, Iter!Init, Remaining, PySlice
<1>2. QED
    BY <1>1, StepRefines, PositionInvHolds, PTL
       DEF Spec, IteratorRefinement, Iter!Spec
=============================================================================
