SPECIFICATION Spec
CONSTANTS
    N = 3
    Plans <- MCPlans
    Ceiling = 3
    ToolRuns = 2
    Written = 1
    Long = 2
    Sizes = {1, 3}
    Rooms = {5, 7}
    MaxPieces = 1
INVARIANTS
    EveryCallSaysWhatItDid
    PrintedBeforeAnswered
    ParkedIsToldOfRoom
CHECK_DEADLOCK FALSE
