CONSTANTS
    Workers = {w1, w2}
    Requests = {q1}
    Urls = {u1}
    Broken = Broken
    None = None
    Short = 2
    Long = 2
    Comparison = 1
    Rewrite = 2
    Input = 2
    Soft = 1
    Hard = 2
    MinUrls = 1
    StableAt = 100
    UnstableAt = 50
    Target = 2
    MaxTime = 2
    MaxEvents = 1
    MaxRuleSets = 2
    MaxResets = 1
    MaxSaves = 1
    MaxPatterns = 1
SPECIFICATION Spec
INVARIANTS
    NamesCurrent
    BootstrapRestarts
PROPERTY ResetHolds
SYMMETRY Symmetry
CHECK_DEADLOCK FALSE
