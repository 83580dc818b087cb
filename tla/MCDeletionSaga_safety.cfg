SPECIFICATION Spec
CONSTANTS
    Artifacts <- MCArtifacts
    Enclosed <- MCEnclosed
    NoArtifact = 0
    NoExecutor = none
    Executors = {e1, e2}
    MaxOps = 2
    MaxFaults = 2
    MaxResumes = 1
    MaxRestores = 1
INVARIANTS
    SagaInv
    CompletedMeansGone
    OneActiveDecision
    OnlyPreviewedBytes
CHECK_DEADLOCK FALSE
