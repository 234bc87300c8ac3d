SPECIFICATION Spec
CONSTANTS
    Self = 2
    Kinds <- PutKinds
    Reads <- ReadKinds
    Clients = 2
    Leftovers <- ArrayLeftovers
    Older <- OlderFiles
    ReserveNode = 2
    MaxHeight = 2
    BinaryThreshold = 3
    BodyRange = 16
    MaxPuts = 3
INVARIANT ReadsSeeEdges
CHECK_DEADLOCK FALSE
