SPECIFICATION Spec
CONSTANTS
    MaxCrashes = 1
    MaxFailures = 0
    MaxCompactions = 0
    Targets = {t1}
    Keys = {k1}
    Threshold = 2
    MaxCommit = 3
INVARIANTS
    NoMergeError
CHECK_DEADLOCK FALSE
