\* Two request slots for three writers, so that the list fills up, and errors
\* enough for a retry and for giving up.
CONSTANTS
    Task = {1, 2, 3}
    Block = {1, 2, 3}
    NrRequest = 2
    MaxErrors = 1
    MaxFaults = 2
    MaxCalls = 3
    Command = {"read", "write"}
    NULL = NULL
SPECIFICATION FairSpec
INVARIANTS HandlerReady
PROPERTIES DataPlaced RequestAnswered
CHECK_DEADLOCK FALSE
