SPECIFICATION Spec
CONSTANTS
    Sources = {"pump", "swap"}
    Targets = {"mint"}
    SourceOf <- MCSourceOf
    Duration = 2
    MaximumActive = 1
    Capacity = 1
    MaxLag = 1
    MaxTime = 3
    MaxGeneration = 1
    MaxAdmitted = 1
    MaxGaps = 2
INVARIANTS DoubtIsRecorded
PROPERTIES CompleteClaimIsSound
