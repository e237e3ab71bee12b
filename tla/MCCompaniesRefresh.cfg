SPECIFICATION LiveSpec
CONSTANTS
    Requests = {r1}
    Tasks = {k1}
    Renames = {}
    MaxRetries = 1
    MaxSaves = 0
    MaxRebuilds = 1
    LastDay = 0
    MaxFailures = 0
    NoRow = NoRow
    Free = Free
    NotAsked = NotAsked
    NotLoaded = NotLoaded
PROPERTIES
    RefreshedBehind
