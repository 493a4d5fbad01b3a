SPECIFICATION FairSpec
CONSTANTS
    f1 = f1
    f2 = f2
    a1 = a1
    FileJobs = {f1, f2}
    AttachJobs = {a1}
    Capacity = 2
    MaxWorkers = 2
    Threshold = 1
INVARIANTS
    SlotConservation
    DepthNeverOverReports
    QueueIsExact
    
PROPERTIES
    RefinesBacklog
    DispatchedJobEnds
CHECK_DEADLOCK FALSE
