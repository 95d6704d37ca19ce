\* One test process whose test method fails under run_test_case.
CONSTANTS
    p1 = p1
    p2 = p2
    tA = tA
    tB = tB
    Testers <- MCTesters1
    Forms <- MCCase
    TableNames <- MCTables1
    DbNames <- MCNames1
    MaxTests = 2
    MaxTime = 1
    BodiesFail = TRUE
    RequestsFail = FALSE
SPECIFICATION Spec
INVARIANT NoLeak
CHECK_DEADLOCK FALSE
