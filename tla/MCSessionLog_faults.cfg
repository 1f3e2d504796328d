SPECIFICATION FairSpec
CONSTANTS
    c1 = c1
    c2 = c2
    Calls <- OneCall
    QueueLen = 2
    Faults <- AllFaults
    PowerLoss = FALSE
    MaxPasses = 2
    MaxTurns = 2
    MaxCrashes = 1
    MaxFaults = 2
CHECK_DEADLOCK FALSE
INVARIANTS
    LossIsTold
PROPERTIES
    WaitsEnd
