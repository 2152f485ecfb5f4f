CONSTANTS
    a1 = a1
    a2 = a2
    JobIds = {j1}
    Agents = {a1}
    Callers = {c1}
    Caps = {1}
    MaxCap = 1
    MaxPerAgent = 1
    MaxErrors = 1
    MaxRuns = 1
    MaxDeliveries = 0
    MaxPersists = 3
    JobSpecs <- OneKind
    Ticker = Ticker
    Stopper = Stopper
SPECIFICATION FairSpec
INVARIANTS NoStuckJob
PROPERTIES ArmedJobIsClaimed
CHECK_DEADLOCK FALSE
