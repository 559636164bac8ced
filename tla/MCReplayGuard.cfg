CONSTANTS
    Capacity = 2
    MessageIds <- MCMessageIds
    TicksPerSecond = 4
    PastLimit = 1
    FutureLimit = 1
    MaxSkew = 1
    MaxTime = 3
    MaxSent = 3
    MaxDeliveries = 4
    MaxRestarts = 1
SPECIFICATION GuardSpec
INVARIANTS
    ReplayOnlyAcrossRestart
PROPERTIES
    NoHonestLoss
    ExpiredStaysOut
CHECK_DEADLOCK FALSE
