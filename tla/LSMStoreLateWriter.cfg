CONSTANTS
    t1 = t1
    t2 = t2
    Tables = {t1, t2}
    w1 = w1
    w2 = w2
    Writers = {w1, w2}
    r1 = r1
    Readers = {r1}
    Keys = {1}
    Capacity = 2
    ReserveNode = 1
    L0Limit = 1
    NoTable = NoTable
    MaxPuts = 5
    MaxFailures = 1
SPECIFICATION Spec
INVARIANT EveryPutKept
SYMMETRY Symmetric
