SPECIFICATION Spec
CONSTANTS
    Ids <- MCIds
    Hashes <- MCHashes
    Parent <- MCParent
    Invalid = {"f"}
    NoId = "none"
    Families = {"nfe", "adn"}
    MaxPosition = 2
    Answers <- MCAnswers
    Workers = {w1}
    MaxIngests = 3
    MaxReconciles = 1
    MaxFaults = 1
INVARIANTS
    AnswerKept
CHECK_DEADLOCK FALSE
