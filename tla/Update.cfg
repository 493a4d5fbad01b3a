\* Three releases and three commands: an update whose snapshot fails after one
\* whose snapshot was written, deaths between steps, and releases published
\* while an update runs.
SPECIFICATION UpdateSpec
CONSTANTS
    MaxVersion = 3
    MaxCommands = 3
    SystemChrome = FALSE
CHECK_DEADLOCK FALSE
INVARIANT HealthyUpdate
PROPERTY RollbackRestores
