CONSTANTS
    Modes = {TRUE, FALSE}
    MaxVertices = 2
    Capacity <- TwoEdges
    L0Limit = 1
    MergeThreads = 2
    None = None
    MaxPuts = 2
    MaxOpens = 1
    MaxRare = 2
SPECIFICATION Spec
INVARIANT SleepsOnlyWhileBehind
CHECK_DEADLOCK FALSE
