CONSTANTS
    s1 = s1  s2 = s2  s3 = s3  v1 = v1  v2 = v2
    u1 = u1  c1 = c1  c2 = c2  x = x  y = y  z = z  r1 = r1  r2 = r2  a1 = a1  a2 = a2  home = home
    None = None
    Everyone = Everyone
    Sessions = {s1, s2, s3}
    Visitor <- MCVisitor
    Identity <- MCIdentity
    Pages <- MCPages
    PageName <- MCPageName
    Grains = {"area", "page", "display"}
    Companies = {c1, c2}
    Types = {"click", "move"}
    Deliberate = {"click"}
    Times = {3, 4, 5, 7, 8}
    Moments = {7, 12}
    Windows <- MCWindows
    DayLength = 4
    Timeout = 2
    EngagedCap = 1
    MaxDuration = 4
    MaxSpan = 2
    MinOffset = 1
    Arrivals <- MCArrivals
    MaxEvents = 3
SPECIFICATION Spec
INVARIANT ReportsAgree
INVARIANT WindowsAgree
INVARIANT TablesAgree
INVARIANT TransitionsSound
