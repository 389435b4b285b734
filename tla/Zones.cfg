SPECIFICATION Spec
CONSTANTS
    Proc = {p1, p2}
    File = {f1, f2}
    NDirect = 1
    Fanout = 1
    NZones = 4
    MapBits = 5
    FileBlock = {0, 1, 2}
    MaxCount = 2
    MaxCalls = 3
    MaxFaults = 1
SYMMETRY Symmetry
INVARIANTS NoSharedBlock BitsExact
PROPERTY ReadsCurrent
CHECK_DEADLOCK FALSE
