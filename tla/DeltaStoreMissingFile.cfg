SPECIFICATION Spec
CONSTANTS
    Keys = {k1}
    MaxCommit = 1
    MaxCrashes = 1
    MaxFailures = 1
    MaxCompactions = 0
    Targets = {t1}
    Threshold = 2
INVARIANT
    FailedAttachRecovers
CHECK_DEADLOCK FALSE
