SPECIFICATION Spec
CONSTANTS
    Times = {0, 1, 2, 3}
    Timeout = 2
    MaxDuration = 3
    LateWindow = 8
    Open = Open
    Absent = Absent
    Events = {e1, e2}
    FragmentIds = {f1, f2, f3}
    Identities = {anonymous, known}
    None = None
    MaxStored = 1
SYMMETRY Interchangeable
INVARIANTS
    FragmentsDisjoint
    EventsFitFragments
    ClosedVisitClosesFragments
    ActivityInsideVisit
