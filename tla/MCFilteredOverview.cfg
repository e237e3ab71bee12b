SPECIFICATION LiveSpec
CONSTANTS
    Requests = {r1}
    Tasks = {k1}
    Renames = {n1}
    MaxRetries = 1
    MaxSaves = 1
    MaxRebuilds = 1
    LastDay = 1
    MaxFailures = 1
    NoRow = NoRow
    Free = Free
    NotAsked = NotAsked
    NotLoaded = NotLoaded
INVARIANTS
    RowTruthful
PROPERTIES
    PublishesCurrent
    AnswersAreCurrent
    Converges
