SPECIFICATION FairSpec
CONSTANTS
    k1 = k1
    k2 = k2
    p1 = p1
    w1 = w1
    w2 = w2
    c1 = c1
    c2 = c2
    NoPolicy = NoPolicy
    NoWorker = NoWorker
    NoHint = NoHint
    Policies = {p1}
    Keys = {k1, k2}
    Workers = {w1, w2}
    Callers = {c1, c2}
    MaxJobs = 2
    MaxFaults = 1
    Lease = 1
    PolicyOf <- MCPolicyOf
    PriorityOf <- MCPriorityMixed
    RetryLimit <- MCRetryLimit
    BackoffInitial <- MCBackoffInitial
    BackoffCap <- MCBackoffCap
    Jitter <- MCNoJitter
    Cooldown <- MCCooldown
    Hints = {}
INVARIANTS
    UniqueActiveKey
PROPERTIES
    ImplementsQueue
    EveryJobFinishes
CHECK_DEADLOCK FALSE
