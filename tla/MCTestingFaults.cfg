\* One test process running both harnesses with failing test methods over a
\* network that loses requests and replies.
CONSTANTS
    p1 = p1
    p2 = p2
    tA = tA
    tB = tB
    Testers <- MCTesters1
    Forms <- MCCaseAndDecorator
    TableNames <- MCTables2
    DbNames <- MCNames1
    MaxTests = 2
    MaxTime = 1
    BodiesFail = TRUE
    RequestsFail = TRUE
SPECIFICATION Spec
INVARIANT TypeOK
\* The test session ends once every process has run MaxTests tests.
CHECK_DEADLOCK FALSE
