SPECIFICATION FairSpec
CONSTANTS
    MaxDelay = 1
    MaxWorkers = 2
    MaxStops = 2
    MaxResets = 2
INVARIANTS
    OneUnlessStopped
    ResetEarned
PROPERTIES
    ReplayFrees
CHECK_DEADLOCK FALSE
