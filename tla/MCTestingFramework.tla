------------------------- MODULE MCTestingFramework -------------------------
(* Instances of TestingFramework for TLC. *)
EXTENDS TestingFramework, TLC

CONSTANTS p1, p2, tA, tB

MCTesters1 == {p1}

MCTesters2 == {p1, p2}

(* One table per test keeps the cleanup list short; two show its order. *)
MCTables1 == {tA}

MCTables2 == {tA, tB}

MCCaseAndDecorator == {"case", "decorator"}

MCDecorator == {"decorator"}

MCCase == {"case"}

(* test_db_0 .. test_db_MaxTime. *)
MCNames2 == 0..2

MCNames1 == 0..1

MCSymmetry == Permutations(MCTesters2)
=============================================================================
