SPECIFICATION Spec
CONSTANTS
    Ids <- MCIds
    Hashes <- MCHashes
    Parent <- MCParent
    Invalid = {"f"}
    NoId = "none"
    Families = {"nfe", "adn"}
    MaxPosition = 2
    Answers <- MCAnswers
    Workers = {w1, w2}
    MaxIngests = 3
    MaxReconciles = 1
    MaxFaults = 1
INVARIANTS
    IngestionInv
    NothingSkipped
    ConflictVisible
PROPERTIES
    CheckpointFollowsPages
CHECK_DEADLOCK FALSE
