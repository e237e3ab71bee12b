SPECIFICATION Spec
CONSTANTS
    Pages = {p1}
    Keys = {k1, k2}
    Clicks = {c1, c2}
    Refused = {}
    None = None
    BatchSize = 2
    StorageMayFill = FALSE
    PagesMayCrash = FALSE
    MaxMoves = 0
    MaxClosings = 1
SYMMETRY Interchangeable
INVARIANT NeverDropped
