SPECIFICATION FairSpec
CONSTANTS
    Facts = {1, 2}
    Mints = {"m"}
    Markets = {"curve", "pool"}
    Fact <- MCFact
    Workers = {"w1", "w2"}
    ClaimBatch = 2
    MaxAttempts = 2
    AttemptCeiling = 3
INVARIANTS CountersAgree EachTradeCountedOnce TokenIsNewestFact RetryBudget
PROPERTIES TerminalIsFinal DecisionStaysWithMarket EveryFactSettles
CHECK_DEADLOCK FALSE
