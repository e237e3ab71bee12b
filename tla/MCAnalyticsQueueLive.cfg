SPECIFICATION LiveSpec
CONSTANTS
    Pages = {p1, p2}
    Keys = {k1, k2}
    Clicks = {c1, c2}
    Refused = {c2}
    None = None
    BatchSize = 2
    StorageMayFill = FALSE
    PagesMayCrash = TRUE
    MaxMoves = 0
    MaxClosings = 1
INVARIANT SentOnce
PROPERTY EverythingArrives
