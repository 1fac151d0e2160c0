SPECIFICATION ServerSpec
CONSTANTS
    MaxLaunches = 3
    MaxRevision = 2
    StopDisconnects = FALSE
    MaxSequence = 2
    Buffer = 1
INVARIANTS
    OneTrackedPipeline
    PipelineUsesStoredDefaults
    LastEventIsStatus
    NoChangeIsLost
PROPERTIES
    StopLeavesNothing
    ShutdownReachesPipelines
    
CHECK_DEADLOCK FALSE
