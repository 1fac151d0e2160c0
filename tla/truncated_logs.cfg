SPECIFICATION LogsSpec
CONSTANTS
    Programs = {"program", "other"}
    Program = "program"
    MaxLines = 3
    MaxDepth = 2
INVARIANT TruncatedLogsAreGaps
CHECK_DEADLOCK FALSE
