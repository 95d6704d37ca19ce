---------------------------- MODULE DjangoCursor ----------------------------
(***************************************************************************)
(* PhantomDBCursor, the cursor of the Django backend                        *)
(* (src/src/orm/django/base.py), and DatabaseWrapper.create_cursor().      *)
(*                                                                         *)
(* The caller runs statements and fetches their rows in any order with any *)
(* batch size.  A row is named by the execute() call that produced it and *)
(* its position in that call's result set, so that a row handed out twice, *)
(* or one from an older result set, can be told apart.  The SQL text, its *)
(* parameter substitution and the query log are left out: only the kind  *)
(* of statement (the prefix execute() tests) decides what happens.        *)
(***************************************************************************)
EXTENDS Naturals, Integers, Sequences

CONSTANTS
    Kinds,      \* statement kinds the caller issues
    MaxRows,    \* most rows a SELECT returns
    MaxExecs,   \* bound on execute() calls over the cursor's life
    Sizes       \* batch sizes the caller passes to fetchmany()

(* A non-SELECT statement's answer is stored as a one-row result, so a    *)
(* result set can always hold one row.                                      *)
ASSUME CursorConstantsAssumption ==
    /\ Kinds \subseteq {"select", "insert", "update", "delete", "other"}
    /\ MaxRows \in Nat \ {0}
    /\ MaxExecs \in Nat
    /\ Sizes \subseteq Nat

(* Row j of the result set of the e-th execute() call. *)
RowIds == (1..MaxExecs) \X (1..MaxRows)

(* fetchmany() with no size argument. *)
NoSize == -1

VARIABLES
    closed,     \* self.closed
    results,    \* self.results
    rowcount,   \* self.rowcount
    rownumber,  \* self.rownumber
    execs,      \* execute() calls that returned, over all cursors
    fetched     \* the rows the last fetch call returned (None is <<>>)

vars == <<closed, results, rowcount, rownumber, execs, fetched>>

(* Python's s[a:b] for 0 <= a and 0 <= b. *)
PySlice(s, a, b) ==
    IF b <= a THEN <<>>
    ELSE SubSeq(s, a + 1, IF b < Len(s) THEN b ELSE Len(s))

(* The rows a statement of the given kind may return, as execute() stores *)
(* them in self.results: a SELECT's records, or the response dict of any   *)
(* other statement as a one-row list (none for an empty response to an    *)
(* "other" statement).                                                       *)
ResultSets(kind, e) ==
    CASE kind = "select" -> {[j \in 1..n |-> <<e, j>>] : n \in 0..MaxRows}
      [] kind = "other"  -> {<<>>, << <<e, 1>> >>}
      [] OTHER           -> {<< <<e, 1>> >>}

(* __init__ (lines 197-211), reached through create_cursor() (151-161). *)
Init ==
    /\ closed = FALSE
    /\ results = <<>>
    /\ rowcount = -1
    /\ rownumber = 0
    /\ execs = 0
    /\ fetched = <<>>

(* create_cursor(): the caller drops a closed cursor and takes a new one.  *)
CreateCursor ==
    /\ closed
    /\ closed' = FALSE
    /\ results' = <<>>
    /\ rowcount' = -1
    /\ rownumber' = 0
    /\ fetched' = <<>>
    /\ UNCHANGED execs

(* execute(), lines 213-287, when the connection answers.  A closed cursor *)
(* raises at line 225, and a failing request raises at line 287, both      *)
(* before any assignment: those calls change nothing and are stutters.     *)
(* Only the SELECT branch (245-250) resets rownumber (line 250); INSERT,   *)
(* UPDATE, DELETE and other statements (252-274) leave it where it was.    *)
Execute ==
    /\ ~closed
    /\ execs < MaxExecs
    /\ \E kind \in Kinds : \E res \in ResultSets(kind, execs + 1) :
          /\ results' = res
          /\ rownumber' = IF kind = "select" THEN 0 ELSE rownumber
          /\ \/ kind = "select" /\ rowcount' = Len(res)
             \/ kind = "insert" /\ rowcount' = 1
             \/ kind \in {"update", "delete"} /\ rowcount' \in 0..MaxRows
             \/ kind = "other" /\ rowcount' = Len(res)
    /\ execs' = execs + 1
    /\ fetched' = <<>>
    /\ UNCHANGED closed

(* fetchone(), lines 304-316. *)
FetchOne ==
    /\ IF rownumber >= Len(results)
          THEN /\ fetched' = <<>>
               /\ UNCHANGED rownumber
          ELSE /\ fetched' = << results[rownumber + 1] >>
               /\ rownumber' = rownumber + 1
    /\ UNCHANGED <<closed, results, rowcount, execs>>

(* Mutant: the end of the batch is computed from the rows already taken. *)
FetchManyOverlap ==
    \E size \in Sizes \cup {NoSize} :
        LET n   == IF size = NoSize THEN Len(results) - rownumber ELSE size
            end == IF rownumber + n < Len(results) THEN rownumber + n ELSE Len(results)
        IN  /\ fetched' = PySlice(results, rownumber, end)
            /\ rownumber' = IF end > 0 THEN end - 1 ELSE end
            /\ UNCHANGED <<closed, results, rowcount, execs>>

(* Mutant: the new position is not clamped to the end of the result set. *)
FetchManyNoClamp ==
    \E size \in Sizes \cup {NoSize} :
        LET n   == IF size = NoSize THEN Len(results) - rownumber ELSE size
            end == IF rownumber + n < Len(results) THEN rownumber + n ELSE Len(results)
        IN  /\ fetched' = PySlice(results, rownumber, end)
            /\ rownumber' = rownumber + n
            /\ UNCHANGED <<closed, results, rowcount, execs>>

(* fetchmany(size), lines 318-334. *)
FetchMany ==
    \E size \in Sizes \cup {NoSize} :
        LET n   == IF size = NoSize THEN Len(results) - rownumber ELSE size
            end == IF rownumber + n < Len(results) THEN rownumber + n ELSE Len(results)
        IN  /\ fetched' = PySlice(results, rownumber, end)
            /\ rownumber' = end
            /\ UNCHANGED <<closed, results, rowcount, execs>>

(* fetchall(), lines 336-345. *)
FetchAll ==
    /\ fetched' = PySlice(results, rownumber, Len(results))
    /\ rownumber' = Len(results)
    /\ UNCHANGED <<closed, results, rowcount, execs>>

(* close(), lines 347-355, also called by __exit__ (376-377). *)
Close ==
    /\ closed' = TRUE
    /\ results' = <<>>
    /\ rowcount' = -1
    /\ rownumber' = 0
    /\ fetched' = <<>>
    /\ UNCHANGED execs

(* The caller's calls in any order; executemany() (lines 289-302) is a run *)
(* of Execute steps, and the context manager's __exit__ (376-377) a Close.  *)
Next ==
    \/ CreateCursor
    \/ Execute
    \/ FetchOne
    \/ FetchMany
    \/ FetchAll
    \/ Close

Spec == Init /\ [][Next]_vars

-----------------------------------------------------------------------------
(* Properties *)

TypeOK ==
    /\ closed \in BOOLEAN
    /\ results \in Seq(RowIds)
    /\ rowcount \in -1..MaxRows
    /\ rownumber \in 0..MaxRows
    /\ execs \in 0..MaxExecs
    /\ fetched \in Seq(RowIds)

(* What is left to fetch, as the caller of a DB-API cursor understands it: *)
(* the rows of the current result set after the fetch position.            *)
Remaining == PySlice(results, rownumber, Len(results))

Iter == INSTANCE ResultIterator WITH result <- results, rows <- Remaining, out <- fetched, isOpen <- ~closed

(* The cursor implements the result iterator: after every execute() the   *)
(* fetch methods, in any mix and with any batch sizes, hand out exactly the *)
(* new result set's rows, in order, each once.  Breaking it takes a fetch  *)
(* position left over from one statement and used on the next one's rows. *)
IteratorRefinement == Iter!Spec
=============================================================================
