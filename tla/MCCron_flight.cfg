CONSTANTS
    a1 = a1
    a2 = a2
    JobIds = {j1}
    Agents = {a1, a2}
    Callers = {c1, c2}
    Caps = {0, 1}
    MaxCap = 1
    MaxPerAgent = 1
    MaxErrors = 2
    MaxRuns = 2
    MaxDeliveries = 1
    MaxPersists = 0
    JobSpecs <- AllKinds
    Ticker = Ticker
    Stopper = Stopper
SPECIFICATION Spec
INVARIANTS ClaimExcludesOverlap SingleRunFiresOnce
PROPERTIES RecurringJobsSurvive
CHECK_DEADLOCK FALSE
