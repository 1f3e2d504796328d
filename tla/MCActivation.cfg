CONSTANTS
    a = a
    b = b
    None = None
    First = First
    Pids <- Names
    Versions <- Numbers
    Builds = {1, 2}
    Losses = 2
SYMMETRY AnyOrder
SPECIFICATION Spec
CHECK_DEADLOCK FALSE
INVARIANTS
    OneWholeRelease
PROPERTIES
    NeverOlder
    AnswersAreTrue
