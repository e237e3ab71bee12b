CONSTANTS
    u1 = u1
    u2 = u2
    root = root
    s1 = s1
    r1 = r1
    r2 = r2
    a1 = a1
    o1 = o1
    o2 = o2
    None = None
    NoWorkspace = NoWorkspace
    Users = {u1, u2, root}
    Superusers = {root}
    Workspaces = {w1}
    Requests = {r1, r2}
    Starts <- MCStarts
    Asked <- MCAsked
    MaxRequests = 3
    Projects = {p1}
    Product = p1
    Attributes <- MCAttributes
    Segments = {s1}
SPECIFICATION Spec
INVARIANTS
    OwnerRemains
    FlagTruthful
    WholeAnswers
    RedirectsSettle
PROPERTIES
    OwnersAnswerToOwners
    PurgesOnlyExpired
SYMMETRY Symmetry
CHECK_DEADLOCK FALSE
