SPECIFICATION FairSpec
CONSTANTS
    FrontEnds = {"cnee", "gnee"}
    stop = stop
    pause = pause
    Keys <- MCKeys
    Stop <- stop
    MaxSessions = 3
    MaxSignals = 2
    MaxErrors = 1
INVARIANTS
    RepeatKnown
    GoodEndReleases
PROPERTIES
    ClosedRestores
    SignalEnds
CHECK_DEADLOCK FALSE
