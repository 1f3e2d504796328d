SPECIFICATION Spec
CONSTANTS
    c1 = c1
    c2 = c2
    Calls <- TwoCalls
    QueueLen = 2
    Faults <- FragmentOnly
    PowerLoss = TRUE
    MaxPasses = 2
    MaxTurns = 1
    MaxCrashes = 1
    MaxFaults = 1
SYMMETRY Interchangeable
CHECK_DEADLOCK FALSE
INVARIANTS
    NoOrphanedResult
    AcceptedResultIsReplayed
    NeverAHole
    KillKeepsTheAcknowledged
    RecordedEffectIsTold
    ReplayAgrees
PROPERTY
    AnswersStay
