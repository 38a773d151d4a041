SPECIFICATION Spec
CONSTANTS
    Limits <- MCLimits
    OnData = TRUE
    MaxSessions = 2
    MaxData = 4
    MaxBatch = 2
    MaxTicks = 2
    MaxStops = 1
INVARIANTS
    LimitsKept
    RefusalFinal
PROPERTIES
    DroppedByEventOnly
    LimitEnds
CHECK_DEADLOCK FALSE
