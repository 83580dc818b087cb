SPECIFICATION Spec
CONSTANTS
    w1 = w1
    w2 = w2
    NoWorker = NoWorker
    Families = {1}
    Workers = {w1}
    MaxExecs = 2
    RetryLimit = 1
    MaxFaults = 2
    MaxChanges = 0
INVARIANTS
    ActiveHasJob
CHECK_DEADLOCK FALSE
