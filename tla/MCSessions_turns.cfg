SPECIFICATION Spec
CONSTANTS
    Turns = {t1, t2}
    Compactors = {c1}
    p1 = p1
    Prior <- MCPrior
    CompactAbove = 1
    KeepCompact = 1
    Quota = 1
    TurnCost = 2
    MaxSessions = 2
    Delayed = {}
SYMMETRY MCSymmetry
INVARIANTS  SummarisedStaysOut KillLeavesNothing QuotaOvershootBounded
CHECK_DEADLOCK FALSE
