SPECIFICATION Spec
CONSTANTS
    Lines = 2
    Columns = 2
    Tab = 2
    ScreenEnd = 6
    NPar = 2
    Digits = {1, 2}
    MaxPar = 11
    SaveColumn = 0
    RestoreColumn = 1
INVARIANTS CursorExact StoresInside
PROPERTY ImplementsTerminal
