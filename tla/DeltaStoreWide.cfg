SPECIFICATION Spec
CONSTANTS
    Keys = {k1}
    MaxCommit = 4
    MaxCrashes = 1
    MaxFailures = 1
    MaxCompactions = 1
    Targets = {t1}
    Threshold = 2
INVARIANTS
    AckedIsRead
    ManifestFilesExist
    DrainedInputsAreMerged
PROPERTIES
    NeverBackwards
CHECK_DEADLOCK FALSE
