SPECIFICATION Spec
CONSTANTS
    Limit = 1
    MaxStarts = 2
    MaxTurns = 2
    MaxQuestions = 2
CHECK_DEADLOCK FALSE
INVARIANTS
    OneProcess
    FreePlaceIsQuiet
    DecisionsInTheirTurn
    AcceptedIsOnItsWay
    StopStaysInItsTurn
PROPERTIES
    TurnsDoNotOverlap
    StopEndsTheTurn
