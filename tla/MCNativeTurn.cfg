SPECIFICATION NativeSpec
CONSTANTS
    t1 = t1
    s1 = s1
    n1 = n1
    n2 = n2
    c1 = c1
    c2 = c2
    Tables <- OneTable
    Sessions <- OneSession
    Turns = {1, 2}
    Names <- TwoNames
    Limit = 2
    MaxNumber = 2
    MaxRequest = 3
    MaxPeriods = 4
    Mine = t1
    Session = s1
    Clients <- TwoClients
SYMMETRY Interchangeable
CHECK_DEADLOCK FALSE
INVARIANTS
    AnswerableWhileWaited
    DecisionsReachTheirCall
