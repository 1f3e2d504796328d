SPECIFICATION Spec
CONSTANTS
    c1 = c1
    c2 = c2
    Calls <- OneCall
    QueueLen = 2
    Faults <- NoFaults
    PowerLoss = FALSE
    MaxPasses = 1
    MaxTurns = 1
    MaxCrashes = 1
    MaxFaults = 0
CHECK_DEADLOCK FALSE
INVARIANTS
    KilledSessionContinues
