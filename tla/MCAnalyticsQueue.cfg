SPECIFICATION Spec
CONSTANTS
    Pages = {p1, p2}
    Keys = {k1, k2}
    Clicks = {c1}
    Refused = {}
    None = None
    BatchSize = 2
    StorageMayFill = TRUE
    PagesMayCrash = FALSE
    MaxMoves = 2
    MaxClosings = 0
SYMMETRY Interchangeable
INVARIANTS NothingLost NewestMoveKept
