SPECIFICATION Spec
CONSTANTS
    Agents = {a1, a2, a3}
    Permits = 1
    Calls = {c1, c2}
    MaxRetries = 1
    BaseCooldown = 2
    MaxCooldown = 4
    Multiplier = 2
    MaxExponent = 2
    BillingBase = 3
    BillingMax = 5
    BillingMultiplier = 2
    BillingExponent = 2
    ProbeInterval = 1
    FailureWindow = 5
    MaxErrors = 3
    QueueSize = 1
    MaxUpdates = 3
    MaxStarts = 2
    MaxSessions = 2
    MaxEvents = 4
INVARIANTS BackgroundSound BridgeDelivers GatewayResumes
PROPERTIES ProbesAreThrottled LoopsGoOn
CHECK_DEADLOCK FALSE
