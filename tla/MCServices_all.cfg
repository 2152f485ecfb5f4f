SPECIFICATION Spec
CONSTANTS
    a1 = a1
    NoAgent = NoAgent
    Tasks = {t1, t2}
    TrigIds = {i1, i2}
    Agents <- OneAgent
    AgentOf <- Owner
    MaxFires <- Limits
    Kinds <- EventKinds
    Watch <- Patterns
    Spawned = "spawned"
    MaxEvents = 2
    MaxRestarts = 1
    Capacity = 4
    MaxRecords = 5
    MaxFaults = 2
    Handlers = {h1, h2}
    Devices = {d1, d2}
    MaxDevices = 1
    MaxPending = 1
    MaxTokens = 2
    MaxBoots = 2
    MaxReboots = 1
    Calls = {c1, p1}
    Results = {r1, r2}
    PollCalls = {p1}
    WarnAt = 3
    BlockAt = 4
    PollFactor = 2
    OutcomeBlockAt = 2
    Breaker = 9
    MinRepeats = 3
    MaxWarnings = 1
    HistorySize = 9
    Nodes = {n1}
    InSlots = {s1, s2}
    OutSlots = {o1}
    Freshness = 1
    NonceTTL = 3
    MaxSkew = 2
    MaxClock = 3
    MaxSent = 2
SYMMETRY Interchangeable
INVARIANTS IndexComplete FiresAndRemovalsLast NothingLostWhileUndamaged PairingSound RepetitionStops HandshakeAcceptedOnce PeerStateSound
PROPERTIES ImplementsPrefixLog
CHECK_DEADLOCK FALSE
