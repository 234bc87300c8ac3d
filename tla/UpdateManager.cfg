\* Two clients race for two buffers of two records; every call returns.
CONSTANTS
    Submitters = {s1, s2}
    Flushers = {f1}
    Destructor = dtor
    k1 = k1
    k2 = k2
    t1 = t1
    t2 = t2
    Keys = {k1, k2}
    Bases = {1}
    Targets = {t1, t2}
    Batches <- SmallBatches
    BatchBytes <- SmallBytes
    BufferCount = 2
    CapacityRecords = 2
    CapacityBytes = 4
    InitialCommit = 0
    MaxCommit = 4
SPECIFICATION FairSpec
INVARIANTS UpdateVisible PendingIsNewest FlushOrder
PROPERTIES ImplementsLatestValue SubmitReturns FlushReturns
