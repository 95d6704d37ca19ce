--------------------------- MODULE ResultIterator ---------------------------
(***************************************************************************)
(* What a DB-API cursor promises its caller, as an atomic specification:  *)
(* execute() replaces the result set, and every fetch hands out the next   *)
(* rows of it in order, each once, until none is left; close() discards    *)
(* it.  `result` is the result set of the last statement, `rows` what is  *)
(* left of it to fetch and `out` what the last fetch returned.  PhantomDBCursor (orm/django/base.py) is checked against it   *)
(* in DjangoCursor through a refinement mapping.                            *)
(***************************************************************************)
EXTENDS Naturals, Sequences

CONSTANT RowIds      \* the rows a result set can hold

VARIABLES result, rows, out, isOpen

vars == <<result, rows, out, isOpen>>

Init ==
    /\ result = <<>>
    /\ rows = <<>>
    /\ out = <<>>
    /\ isOpen = TRUE

(* A statement runs on an open cursor; all of its result set, whatever it  *)
(* is, is left to fetch.                                                    *)
Execute ==
    /\ isOpen
    /\ result' \in Seq(RowIds)
    /\ rows' = result'
    /\ out' = <<>>
    /\ UNCHANGED isOpen

(* A fetch returns the first k rows left, for some k, and removes them.    *)
Fetch ==
    /\ \E k \in 0..Len(rows) :
          /\ out' = SubSeq(rows, 1, k)
          /\ rows' = SubSeq(rows, k + 1, Len(rows))
    /\ UNCHANGED <<result, isOpen>>

Close ==
    /\ isOpen' = FALSE
    /\ result' = <<>>
    /\ rows' = <<>>
    /\ out' = <<>>

(* A new cursor on the same connection. *)
Reopen ==
    /\ ~isOpen
    /\ isOpen' = TRUE
    /\ result' = <<>>
    /\ rows' = <<>>
    /\ out' = <<>>

Next == Execute \/ Fetch \/ Close \/ Reopen

Spec == Init /\ [][Next]_vars
=============================================================================
