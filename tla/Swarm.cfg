SPECIFICATION FairSpec
CONSTANTS
    r1 = r1
    r2 = r2
    Roles = {r1, r2}
    Browsers = 2
    MaxAttempts = 2
INVARIANTS
    RunMatchesLegs
    
PROPERTIES
    CancelledStays
    OutcomeKept
    RunSettles
    
CHECK_DEADLOCK FALSE
