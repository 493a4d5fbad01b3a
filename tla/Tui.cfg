\* Every screen of the interface.
SPECIFICATION FairTuiSpec
CONSTANTS
    s1 = s1
    s2 = s2
    Slots = {s1, s2}
    MaxRuns = 2
    Screens = {"start", "slots", "swarm", "sessions", "settings"}
    MaxStarts = 2
    MaxEdits = 2
    MaxDialogs = 1
    MaxWorkers = 2
PROPERTIES
    ConfirmedAsAsked
    EverythingComesBack
    
CHECK_DEADLOCK FALSE
