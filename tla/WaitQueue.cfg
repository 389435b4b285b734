\* Three sleepers, so that a chain has a middle, on two queues.
CONSTANTS
    Task = {t1, t2, t3}
    Queue = {q1, q2}
    NULL = NULL
SPECIFICATION FairSpec
INVARIANTS NoLostSleeper NoStalePointer
PROPERTIES ImplementsWaitSet
