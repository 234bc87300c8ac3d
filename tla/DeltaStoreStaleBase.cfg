SPECIFICATION Spec
CONSTANTS
    MaxCrashes = 0
    MaxFailures = 0
    MaxCompactions = 1
    Targets = {t1}
    Keys = {k1}
    Threshold = 2
    MaxCommit = 3
INVARIANTS
    CompactionSeesNewest
CHECK_DEADLOCK FALSE
