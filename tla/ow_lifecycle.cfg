SPECIFICATION FairSpec
CONSTANTS
    Sources = {"pump"}
    Targets = {"mint"}
    SourceOf <- MCSourceOf
    Duration = 2
    MaximumActive = 1
    Capacity = 1
    MaxLag = 1
    MaxTime = 3
    MaxGeneration = 1
    MaxAdmitted = 3
    MaxGaps = 1
INVARIANTS AdmissionAccounting
PROPERTIES CompleteClaimIsSound NoAdmissionAfterClose EveryTrackedWindowFinalizes
