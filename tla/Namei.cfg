SPECIFICATION Spec
CONSTANTS
    Proc = {p1, p2}
    Name = {a, b}
    Path <- MCPath
    NewPath <- MCNewPath
    NInodes = 4
    NEntries = 3
    MaxCalls = 3
SYMMETRY Symmetry
INVARIANTS  NoDangling 
CHECK_DEADLOCK FALSE
