SPECIFICATION Spec
CONSTANTS
    Files <- MCFiles
    MaxTime = 200
    MaxSpeed = 200
    Word = 1048576
    Speeds = {50, 100, 200}
    Delays = {0, 3, 25}
    Oversleeps = {0, 1}
    MaxSessions = 2
INVARIANTS
    WaitsKept
PROPERTIES
    DriftExplained
CHECK_DEADLOCK FALSE
