CONSTANTS
    Modes = {TRUE, FALSE}
    MaxVertices = 1
    Capacity <- OneEdge
    L0Limit = 1
    MergeThreads = 1
    None = None
    MaxPuts = 1
    MaxOpens = 2
    MaxRare = 1
SPECIFICATION Spec
PROPERTY OldFilesAreRebuilt
CHECK_DEADLOCK FALSE
