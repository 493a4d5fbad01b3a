\* Answers of three pieces, three unchanged polls, three attempts and three
\* uploads: pauses shorter and longer than the checks, a late card beside a
\* repeated upload, a turn lost, and a retry while the first answer still grows.
SPECIFICATION Spec
CONSTANTS
    Whole = 3
    StabilityChecks = 3
    MaxAttempts = 3
    MaxUploads = 3
    MaxGoto = 4
    MaxVerify = 5
    MaxLost = 2
CHECK_DEADLOCK FALSE
INVARIANT CompleteMeansWhole
INVARIANT AckIsReal
INVARIANT SentWithDocument
