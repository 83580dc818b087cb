SPECIFICATION Spec
CONSTANTS
    Parts = {"export", "render", "science", "manifest"}
    Workers = {w1, w2}
    NoWorker = nobody
    RetryLimit = 1
    MaxClaims = 3
    MaxFaults = 1
    Items = {i1, i2}
    Cleaners = {c1, c2}
    MaxZips = 2
    Sources = {1, 2}
    Unsupported = {2}
    MaxPdfs = 2
    Fixed = FALSE
INVARIANTS
    DownloadIsComplete
    RenderInv
    XmlNeedsScience
PROPERTIES
    ServedStays
    SettledStays
CHECK_DEADLOCK FALSE
SYMMETRY Symmetry
