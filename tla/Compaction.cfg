CONSTANTS
    Vertices = {1, 2, 3}
    FlushSets = {{1}, {3}, {1, 2}, {2, 3}}
    LastLevel = 2
    Limit <- Limits
    MaxFile = 2
    BodyBuffer = 4
    Segments = 16
    SstableSize = 1
    Workers = 3
    MaxFlushes = 5
SPECIFICATION Spec
INVARIANTS LevelsSorted RecordsKept ScannedOnce NewerAbove WorkersShareNothing
CHECK_DEADLOCK FALSE
