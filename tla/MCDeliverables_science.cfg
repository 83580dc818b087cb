SPECIFICATION Spec
CONSTANTS
    Parts = {"science"}
    Workers = {w1, w2}
    NoWorker = nobody
    RetryLimit = 1
    MaxClaims = 2
    MaxFaults = 0
    Items = {i1}
    Cleaners = {c1}
    MaxZips = 1
    Sources = {1}
    Unsupported = {}
    MaxPdfs = 1
    Fixed = TRUE
INVARIANT PermittedXmlArrives
CHECK_DEADLOCK FALSE
SYMMETRY Symmetry
