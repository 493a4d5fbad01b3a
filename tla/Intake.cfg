\* Two requests that meet in one of the agendas of MCIntake, or one alone.
SPECIFICATION IntakeSpec
CONSTANTS
    r1 = r1
    r2 = r2
    Requests = {r1, r2}
    Agendas <- MCAgendas
    Huge <- MCHuge
    Words <- MCWords
    Root <- W
    EnvRoot <- MCNone
    CodeExts <- MCCodeExts
    ImportableExts <- MCImportable
    ExcludedDirs <- MCExcluded
    Secret <- MCSecret
    Binary <- Nothing
    Specs <- MCSpecs
    TsConfigs <- MCTsConfigs
    LinkTo <- MCLinkTo
    Sorted <- MCSorted
    HashOrder <- MCHashOrder
    MaxFolderDepth = 3
    MaxImportDepth = 2
    DefaultRequestTimeout = 600
    DefaultClickTimeout = 300
    DefaultMaxWorkers = 4
    MemoryPerWorker = 1
SYMMETRY Symmetry
CHECK_DEADLOCK FALSE
INVARIANT BundleIsClosure
PROPERTIES
    ReplyIsHonest
    NothingLost
