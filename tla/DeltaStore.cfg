SPECIFICATION FairSpec
CONSTANTS
    Keys = {k1}
    MaxCommit = 2
    MaxCrashes = 1
    MaxFailures = 1
    MaxCompactions = 1
    Targets = {t1}
    Threshold = 1
INVARIANTS
    AckedIsRead
    ManifestFilesExist
    DrainedInputsAreMerged
PROPERTIES
    NeverBackwards
    ThresholdIsMerged
    CompactionEnds
CHECK_DEADLOCK FALSE
