CONSTANTS
    Modes = {FALSE}
    MaxVertices = 1
    Capacity <- OneEdge
    L0Limit = 2
    MergeThreads = 1
    None = None
    MaxPuts = 2
    MaxOpens = 1
    MaxRare = 1
SPECIFICATION Spec
INVARIANT EveryUpdateInEffect
CHECK_DEADLOCK FALSE
