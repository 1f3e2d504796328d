SPECIFICATION ClaimsSpec
CONSTANTS
    Runs = {r1, r2}
    None = None
    Ids <- ThreeIds
    ENTRIES = 2
    NAMES = 1
    MaxDisk = 3
SYMMETRY Alike
INVARIANTS
    OpenLogIsItsOwn
    StartsAlone
    VouchedIsComplete
