SPECIFICATION FairSpec
CONSTANTS
    Artifacts <- MCArtifacts
    Enclosed <- MCEnclosed
    NoArtifact = 0
    NoExecutor = none
    Executors = {e1}
    MaxOps = 1
    MaxFaults = 2
    MaxResumes = 2
    MaxRestores = 1
PROPERTIES
    StalePreviewNeverCompletes
    RequestIsExecuted
CHECK_DEADLOCK FALSE
