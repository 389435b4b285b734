\* Two buffers besides the pinned one, for three processes and three blocks:
\* dirty buffers are evicted, two getblk meet at one block, and a third process
\* finds no free buffer.
CONSTANTS
    Proc = {p1, p2, p3}
    NrBuffers = 3
    Pinned = {2}
    Block = {k1, k2, k3}
    MaxVersion = 1
    MaxFaults = 1
    MaxCalls = 4
    NULL = NULL
SPECIFICATION Spec
SYMMETRY CacheSymmetry
INVARIANTS OneBuffer CountExact FreeListWhole Coherent
PROPERTIES LockHonoured
CHECK_DEADLOCK FALSE
