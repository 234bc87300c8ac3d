SPECIFICATION Spec
CONSTANTS
    Batches <- SmallBatches
    LogicalKeys <- SmallKeys
    MaxCommit = 4
    MaxGeneration = 2
    MaxFaults = 2
    None = None
INVARIANTS
    FilesAnswer
    RefusedOnlyWhenAllowed
CHECK_DEADLOCK FALSE
