SPECIFICATION Spec
CONSTANTS
    Task = {t1, t2}
    Handler = {h1, h2}
    Settings <- Modes
    BufSize = 3
    Slack = 0
    Roomy = 2
    Startup = 0
    MaxCount = 2
    Workload <- Loads
SYMMETRY Symmetry
INVARIANTS LinesCounted  SleepersLinked
CHECK_DEADLOCK FALSE
