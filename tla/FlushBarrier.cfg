\* Two clients wake on one free buffer: the one that takes the next free buffer displaces the first.
CONSTANTS
    Submitters = {s1, s2}
    Flushers = {f1}
    Destructor = dtor
    k1 = k1
    k2 = k2
    t1 = t1
    t2 = t2
    Keys = {k1, k2}
    Bases = {1}
    Targets = {t1, t2}
    Batches <- MixedBatches
    BatchBytes <- MixedBytes
    BufferCount = 2
    CapacityRecords = 2
    CapacityBytes = 4
    InitialCommit = 0
    MaxCommit = 4
SPECIFICATION Spec
INVARIANT FlushBarrier
