SPECIFICATION FairSpec
CONSTANTS
    Windows = {1, 2}
    Mints = {"m"}
    MintOf <- MCMintOf
    OpenedAt <- MCOpenedAt
    Facts = {1, 2, 3, 4}
    Fact <- MCFact
    Opening <- MCOpening
    MinimumFacts = 2
    MaxRuns = 2
INVARIANTS CountersAgree CompleteVerdictIsProjected ActiveEvidenceKept
PROPERTIES VerdictMatchesEvidence FinalizedIsFrozen ImplementsVerdicts EveryWindowIsDecided
CHECK_DEADLOCK FALSE
