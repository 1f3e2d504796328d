SPECIFICATION Spec
CONSTANTS
    t1 = t1
    t2 = t2
    s1 = s1
    n1 = n1
    n2 = n2
    Tables <- TwoTables
    Sessions <- OneSession
    Turns = {1}
    Names <- TwoNames
    Limit = 2
    MaxNumber = 5
    MaxRequest = 2
    MaxPeriods = 2
SYMMETRY Interchangeable
CHECK_DEADLOCK FALSE
INVARIANTS
    ReferencesAreUnique
    SettledOnceInItsPeriod
    TablesAgree
