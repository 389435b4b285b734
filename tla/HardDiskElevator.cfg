\* Room for four requests, so that the sorted insertion has choices.
CONSTANTS
    Task = {1, 2, 3, 4}
    Block = {1, 2, 3, 4}
    NrRequest = 4
    MaxErrors = 1
    MaxFaults = 1
    MaxCalls = 4
    Command = {"read"}
    NULL = NULL
SPECIFICATION Spec
INVARIANTS NoLostRequest TwoSweeps
CHECK_DEADLOCK FALSE
