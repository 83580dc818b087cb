------------------------------ MODULE MCBackup ------------------------------
\* TLC instances of Backup: one fiscal key that names its content, and one key of
\* an export whose contents differ from attempt to attempt.
EXTENDS Backup, TLC

MCKeys == {"fiscal", "export"}
MCContentOf == [k \in MCKeys |-> IF k = "fiscal" THEN {"x"} ELSE {"y", "z"}]
Symmetry == Permutations(Uploads)

\* A behaviour has either racing uploads, or one upload at a time and overlapping
\* backups: both at once are out of TLC's reach.
VARIABLE racing

MCInit == Init /\ racing \in BOOLEAN

MCNext ==
    /\ Next
    /\ UNCHANGED racing
    /\ IF racing THEN UNCHANGED backup
       ELSE Cardinality({u \in Uploads : up'[u].pc # "idle"}) <= 1

MCSpec == MCInit /\ [][MCNext]_<<vars, racing>>

============================================================================
