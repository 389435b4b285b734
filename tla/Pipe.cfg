\* A ring that three bytes fill, so that calls of up to three bytes fill, split
\* and wrap it.
CONSTANTS
    Proc = {p1, p2}
    Byte = {0, 1}
    Size = 4
    MaxCount = 3
SPECIFICATION FairSpec
INVARIANTS NoMissedWake EndsHonest
PROPERTIES BlockedReturns ImplementsFifo
CHECK_DEADLOCK FALSE
