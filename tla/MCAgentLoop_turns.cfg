SPECIFICATION FairSpec
CONSTANTS
    KeepModerate = 4
    KeepAggressive = 2
    MaxHistory = 4
    KeepRecent = 3
    CompactAbove = 5
    KeepCompact = 3
    CanonThreshold = 3
    CanonWindow = 3
    MaxIterations = 3
    MaxContinuations = 2
    MaxBatch = 2
    MaxTurns = 1
    MaxCalls = 1
    SharedIds = TRUE
    Histories <- LiveHistories
INVARIANTS RepairCorrect DistinctIdsWellFormed ToolWorkSurvives
PROPERTIES TurnEnds
CHECK_DEADLOCK FALSE
