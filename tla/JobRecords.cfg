SPECIFICATION FairSpec
CONSTANTS
    j1 = j1
    j2 = j2
    p1 = p1
    p2 = p2
    n1 = n1
    n2 = n2
    Jobs = {j1, j2}
    Procs = {p1, p2}
    Pids = {n1, n2}
    Lease = 2
    Hosts <- PassHosts
INVARIANTS
    LiveNeverReconciled
    FirstPollSeesNoLostJob
PROPERTIES
    TerminalIsFinal
    LostJobSettles
CHECK_DEADLOCK FALSE
