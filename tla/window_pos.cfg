SPECIFICATION FairSpec
CONSTANTS
    Size = 2
    MaxMoves = 2
    Managers <- MCManagers
    NWindows = 2
    MaxSessions = 2
INVARIANTS
    PairedRight
PROPERTIES
    DefinedUntilFull
    TriesEnd
CHECK_DEADLOCK FALSE
