SPECIFICATION Spec
CONSTANTS
    MaxId = 6
    Batch = 2
    DeleteFaults = {"probe", "range"}
INVARIANTS TypeOK CheckpointCleared
PROPERTIES LiveTrafficKept
CHECK_DEADLOCK FALSE
