SPECIFICATION ApiSpec
CONSTANTS
    k1 = k1
    k2 = k2
    p1 = p1
    w1 = w1
    w2 = w2
    c1 = c1
    c2 = c2
    NoPolicy = NoPolicy
    NoWorker = NoWorker
    NoHint = NoHint
    Policies = {p1}
    Keys = {k1, k2}
    Workers = {w1, w2}
    Callers = {c1}
    MaxJobs = 2
    MaxFaults = 2
    Lease = 2
    PolicyOf <- MCPolicyOf
    PriorityOf <- MCPriority
    RetryLimit <- MCRetryLimit
    BackoffInitial <- MCBackoffInitial
    BackoffCap <- MCBackoffCap2
    Jitter <- MCJitter
    Cooldown <- MCNoCooldown
    Hints <- MCPastHint
INVARIANTS
    IInv
    Fencing
    RetryBudget
PROPERTIES
    FinishedByHolder
    CooldownRespected
CHECK_DEADLOCK FALSE
