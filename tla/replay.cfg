SPECIFICATION Spec
CONSTANTS
    Data <- MCData
    XIBase = 0
    MaxThr = 2
    MinThr <- MCMinThr
    TotThr = 2
    HardPeriod = 2
    MaxCount = 2
    Files <- MCFiles
    Options <- MCOptions
    XInput = TRUE
    MaxSkipped = 1
    MaxSessions = 2
    MaxStops = 1
INVARIANTS
    FaultEarned
    SkipsBounded
    StopPrompt
PROPERTIES
    KeepsPromise
    SessionsEnd
CHECK_DEADLOCK FALSE
