SPECIFICATION FairSpec
CONSTANTS
    a1 = a1
    NoId = NoId
    Tasks = {t1, t2}
    Ids = {i1, i2, i3}
    Agents = {a1}
    AgentOf <- OneAgent
    MaxPending = 1
    Policies <- AllPolicies
INVARIANTS RunIsAuthorised LimitOvershootBounded
PROPERTIES FirstVerdictStands WaitEnds
CHECK_DEADLOCK FALSE
