SPECIFICATION Spec
CONSTANTS
    MaxLaunches = 2
    MaxRevision = 1
    StopDisconnects = TRUE
INVARIANTS AtMostOnePipeline
CHECK_DEADLOCK FALSE
