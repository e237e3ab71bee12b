SPECIFICATION RetentionSpec
CONSTANTS
    VisitIds = {v1, v2, v3}
    Times <- MCTimes
    Timeout = 3
    MaxDuration = 5
    LateWindow = 10
    PruneBatchSize = 1
    Cutoffs <- MCCutoffs
    Open = Open
    Absent = Absent
SYMMETRY VisitSymmetry
INVARIANTS
    VisitsDisjoint
    AtMostOneOpenVisit
    LastActivityInsideVisit
    WindowComplete
    VisitorSpansVisits
PROPERTIES SpanOnlyGrows DeletesOnlyExpired
