\* Two user tasks with slices of one tick, one interrupt frame on a stack.
CONSTANTS
    N = 2
    Buffer = {b1}
    Priority = 1
    MaxPriority = 1
    MaxAlarm = 1
    MaxNest = 1
    NULL = NULL
SPECIFICATION FairSpec
INVARIANTS SleeperLinked
PROPERTIES RunnableRuns SignalEndsPause InterruptsServed
