SPECIFICATION Spec
CONSTANTS
    Sources = {"pump", "swap"}
    Targets = {"mint", "pool"}
    SourceOf <- MCSourceOf
    Duration = 1
    MaximumActive = 1
    Capacity = 1
    MaxLag = 0
    MaxTime = 2
    MaxGeneration = 2
    MaxAdmitted = 1
    MaxGaps = 0
INVARIANTS IncompletenessHasCause DoubtIsRecorded
