SPECIFICATION Spec
CONSTANTS
    Programs = {"program", "other"}
    Program = "program"
    MaxLines = 6
    MaxDepth = 3
    Observations <- MCObservations
    Policies <- MCPolicies
    QuoteMints = {"wrapped SOL", "USDC", "another"}
    MaxObservations = 3
    MaxUnits = 15
    BasisPoints = 4
    Closes = 2
    Transactions <- MCTransactions
    QuoteAssets = {"SOL", "USDC"}
    Receipts = {1, 2}
    MaxDeliveries = 3
    MaxRuns = 2
    Blocks <- MCBlocks
    Workers = {w1, w2}
    PageSize = 2
    MaxRecords = 2
    Oldest = 1
    MaxGaps = 1
INVARIANTS
    CoverageMatchesPairing
    SnapshotIgnoresLoadOrder
    VerdictIsExact
    WindowActivityIsStored
    FactsAreCanonical
    RetiredCurvesStayRetired
PROPERTIES
    CheckpointSkipsNothing
CHECK_DEADLOCK FALSE
