SPECIFICATION FairSpec
CONSTANTS
    r1 = r1
    r2 = r2
    c1 = c1
    slot1 = slot1
    slot2 = slot2
    NoRun = NoRun
    Runs = {r1, r2}
    Tokens = {slot1, slot2}
    Cancellers = {c1}
    Plans <- PassPlans
INVARIANTS
    GateOrder
    VerdictHonest
    
    CancelReachesItsRun
PROPERTIES
    EveryRunEnds
CHECK_DEADLOCK FALSE
