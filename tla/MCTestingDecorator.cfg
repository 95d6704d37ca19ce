\* Two test processes running decorated tests that may fail, over a network
\* that loses requests and replies.
CONSTANTS
    p1 = p1
    p2 = p2
    tA = tA
    tB = tB
    Testers <- MCTesters2
    Forms <- MCDecorator
    TableNames <- MCTables1
    DbNames <- MCNames2
    MaxTests = 2
    MaxTime = 2
    BodiesFail = TRUE
    RequestsFail = TRUE
SYMMETRY MCSymmetry
SPECIFICATION Spec
INVARIANT Isolated
PROPERTY DropsOnlyOwn
\* The test session ends once every process has run MaxTests tests.
CHECK_DEADLOCK FALSE
