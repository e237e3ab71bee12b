SPECIFICATION FairSpec
CONSTANTS
    Recordings <- MCRecordings
    None = None
    BootstrapWindow = 1
    BootstrapLimit = 3
    ChunkWindow = 2
    ChunkLimit = 3
    MaxBytes = 4
    SwitchBytes = 1
    Prefetch = 1
    MaxLate = 1
    BatchSize = 2
    Targets = {1, 3}
    MaxSeeks = 2
INVARIANTS HoldsTheRecording TabFollows PauseHolds
PROPERTIES SeekEndsComplete NeverStuck
