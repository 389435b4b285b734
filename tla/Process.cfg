\* Two processes besides task 0 and three pids, so that last_pid wraps at once.
SPECIFICATION FairSpec
CONSTANTS
    NrTasks = 3
    Pages = 2
    MaxPid = 3
    MaxCuts = 1
    Asked = {1}
    Sent = {"another signal"}
INVARIANTS PidsUnique TableExact
PROPERTIES StatusTrue DeathHeard
