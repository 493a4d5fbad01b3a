SPECIFICATION FairSpec
CONSTANTS
    w1 = w1
    w2 = w2
    w3 = w3
    Writers = {w1, w2, w3}
    Uses <- AllUses
INVARIANTS
    NeverTorn
PROPERTIES
    ReturnPublishes
    EveryCallEnds
CHECK_DEADLOCK FALSE
