SPECIFICATION Spec
CONSTANTS
    Files = {f1, f2}
    MaxRecords = 4
    MaxFailures = 1
    MaxCrashes = 2
SYMMETRY FileSymmetry
INVARIANTS
    RecoversAcknowledged
    RefusedOnlyBehindFailure
CHECK_DEADLOCK FALSE
