SPECIFICATION Spec
CONSTANTS
    Proc = {p1, p2, p3}
    Name = {x, y}
    NrInode = 3
    NInodes = 2
    MaxCalls = 7
SYMMETRY Symmetry
INVARIANTS OneInode CountExact LinksExact
CHECK_DEADLOCK FALSE
