SPECIFICATION Spec
CONSTANTS
    p = p
    q = q
    x = x
    y = y
    z = z
    u = u
    v = v
    w = w
    None = None
    Login = Login
    Procs <- TwoProcesses
    Names <- ThreeNames
    ProviderOf <- TwoOfOne
    Waiters <- Credentials
    Home <- TwoAndOne
    Accounts <- Both
    First = 1
    MaxTokens = 3
SYMMETRY SameAccount
CHECK_DEADLOCK FALSE
INVARIANTS
    NobodyIsForgotten
PROPERTIES
    PresentedOnce
    ChangesItsOwn
