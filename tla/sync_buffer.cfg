SPECIFICATION Spec
CONSTANTS
    Data <- MCData
    XIBase = 0
    MaxThr = 1
    MinThr <- MCMinThr
    TotThr = 2
    HardPeriod = 2
    MaxCount = 2
INVARIANTS
    CacheAttained
    AlarmEarned
    MissedBounded
    TotalsExact
