CONSTANTS
    c1 = c1
    c2 = c2
    u1 = u1
    u2 = u2
    a1 = a1
    a2 = a2
    None = None
    Companies = {c1, c2}
    Users = {u1, u2}
    Areas = {a1, a2}
    Ranges <- MCRanges
    EngagedFloor = 1
    StaleAfter <- MCStaleAfter
    Lookback = 2
    UserEngagedFloor = 1
    UserVisitsFloor = 2
    FirstDay = 8
    LastDay = 9
    Facts <- MCFacts
    Changing <- MCChanging
    MaxFacts = 4
SPECIFICATION Spec
INVARIANTS
    WindowsExact
    TrendAgrees
    TrendsEndAtFigures
