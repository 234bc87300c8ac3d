CONSTANTS
    Modes = {TRUE, FALSE}
    MaxVertices = 2
    Capacity <- OneEdgeOrTwo
    L0Limit = 1
    MergeThreads = 2
    None = None
    MaxPuts = 2
    MaxOpens = 3
    MaxRare = 2
SPECIFICATION Spec
INVARIANTS KeptIsFound IdsFresh UpdatesInEffect UpdatesStayWithTheirEdge SnapshotsKeepTheirFiles
PROPERTY WaitIsABarrier
CHECK_DEADLOCK FALSE
