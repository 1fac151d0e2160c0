SPECIFICATION Spec
CONSTANTS
    Sources = {"pump"}
    Targets = {"mint"}
    SourceOf <- MCSourceOf
    Duration = 2
    MaximumActive = 1
    Capacity = 1
    MaxLag = 0
    MaxTime = 3
    MaxGeneration = 1
    MaxAdmitted = 1
    MaxGaps = 0
CONSTRAINT NoPendingCancelled
INVARIANTS ConfirmedIsTracked
