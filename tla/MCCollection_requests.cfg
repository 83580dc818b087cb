SPECIFICATION FairSpec
CONSTANTS
    w1 = w1
    w2 = w2
    NoWorker = NoWorker
    Families = {1}
    Workers = {w1, w2}
    MaxExecs = 2
    RetryLimit = 1
    MaxFaults = 2
    MaxChanges = 1
INVARIANTS
    PointerIsActive
    FlowShowsLast
    HandoffAnswered
PROPERTIES
    EndedStays
    BlockedNeverIgnored
    ExecutionSettles
CHECK_DEADLOCK FALSE
