SPECIFICATION MCSpec
CONSTANTS
    Keys <- MCKeys
    ContentOf <- MCContentOf
    Reused = {"fiscal"}
    Temporary = {"export"}
    Uploads = {u1, u2}
    MaxArtifacts = 2
    MaxFaults = 1
    MaxBackups = 2
    Keep = 1
    Nothing = none
INVARIANTS
    StorageInv
    NewestRestorable
PROPERTIES
    UploadIsHonest
    WriteOnce
    BackupCoversArchive
CHECK_DEADLOCK FALSE
SYMMETRY Symmetry
