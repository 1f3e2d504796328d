SPECIFICATION Spec
CONSTANTS
    s = s
    g = g
    c = c
    a = a
    b = b
    Tokens = {s, g, c}
    Session = s
    Own = g
    Racers = {a, b}
    Stuck = {b}
    Lineage <- MCLineage
    Due <- MCDue
    TokenOf <- MCTokenOf
    MaxNow = 1
    Limit = 1
    MaxTurns = 2
    MaxPresses = 2
CHECK_DEADLOCK FALSE
INVARIANTS
    EveryTaskIsAccountedFor
PROPERTIES
    RacesStop
    PressStopsTheTurn
    GroupEnds
