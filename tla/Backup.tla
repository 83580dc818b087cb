------------------------------ MODULE Backup ------------------------------
(***************************************************************************)
(* Backup and isolated restore (nfx.backup.services) of the archive that   *)
(* ArtifactStorage keeps.  A backup dumps the database, then lists the     *)
(* finalized artifacts, then copies their objects, while callers go on     *)
(* uploading and deleting.                                                 *)
(***************************************************************************)
EXTENDS ArtifactStorage, FiniteSets

CONSTANTS
    MaxBackups,     \* bound: rows of nfx_backup_set
    Keep            \* how many complete sets of the kind expire leaves

\* expire calls select_retention with its defaults, 7, 4 and 12.
ASSUME BackupAssumption == MaxBackups \in Nat /\ Keep \in Nat \ {0}

Sets == 1..MaxBackups

VARIABLES
    backup      \* nfx_backup_set with what its archive holds

vars == <<storageVars, backup>>

\* dump and entries are what the archive will hold: artifacts with a finalized row, and
\* the bytes of each copied object.  listed has the digests of the rows create_backup's
\* loop is over, files is what became of the sealed archive on disk.
Blank == [a \in Arts |-> Nothing]
NoBackup == [state |-> "none", pc |-> "none", dump |-> {}, listed |-> Blank, entries |-> Blank,
             files |-> "none"]

\* The artifacts create_backup's loop has still to copy.
Todo(b) == {a \in Arts : backup[b].listed[a] # Nothing /\ backup[b].entries[a] = Nothing}

Init == StorageInit /\ backup = [b \in Sets |-> NoBackup]

\* A row per call, numbered in the order of started_at, and the dump, which is taken
\* before anybody can look at that row.  A call with a key that was used before
\* returns that set and changes nothing.
CreateBackup(b) ==
    /\ backup[b].state = "none"
    /\ \A c \in Sets : c < b => backup[c].state # "none"
    /\ backup' = [backup EXCEPT ![b].state = "running", ![b].pc = "list", ![b].dump = Finalized]
    /\ UNCHANGED storageVars

\* The query over finalized artifacts runs after the dump, and the loop keeps the rows
\* it returned.
ListArtifacts(b) ==
    /\ backup[b].pc = "list"
    /\ backup' = [backup EXCEPT ![b].pc = "capture",
                                ![b].listed = [a \in Arts |-> IF a \in Finalized THEN row[a].digest
                                                              ELSE Nothing]]
    /\ UNCHANGED storageVars

\* _fail_backup, and the removal of the staging directory.
Failed(b) == [NoBackup EXCEPT !.state = "failed"]

\* Mutant: an object that is missing or diverges is left out of the archive.
CaptureObject_Skips(b) ==
    /\ backup[b].pc = "capture"
    /\ \E a \in Todo(b) :
        backup' = IF object[a] = backup[b].listed[a]
                  THEN [backup EXCEPT ![b].entries[a] = object[a]]
                  ELSE [backup EXCEPT ![b].listed[a] = Nothing]
    /\ UNCHANGED storageVars

\* _object_bytes reads the object and compares it with the row that was listed, which
\* may be gone by now; a missing or divergent object fails the set.  The loop is in the
\* order of random ids.
CaptureObject(b) ==
    /\ backup[b].pc = "capture"
    /\ \E a \in Todo(b) :
        backup' = IF object[a] = backup[b].listed[a]
                  THEN [backup EXCEPT ![b].entries[a] = object[a]]
                  ELSE [backup EXCEPT ![b] = Failed(b)]
    /\ UNCHANGED storageVars

\* The manifest is written, the directory renamed, the row completed.  What the
\* archive holds is final, and forgotten here.
SealBackup(b) ==
    /\ backup[b].pc = "capture"
    /\ Todo(b) = {}
    /\ backup' = [backup EXCEPT ![b] = [NoBackup EXCEPT !.state = "complete", !.files = "whole"]]
    /\ UNCHANGED storageVars

\* The dump, the disk, object storage or the master key fails.  A process that dies
\* leaves the row running instead: like a failed one, nothing ever looks at it again.
BackupFails(b) ==
    /\ backup[b].pc # "none"
    /\ SpendFault
    /\ backup' = [backup EXCEPT ![b] = Failed(b)]
    /\ UNCHANGED <<row, object, sha256, up, damaged>>

\* Mutant: the oldest complete set is kept instead of the newest.
Surplus_Oldest ==
    {b \in Sets : /\ backup[b].state = "complete"
                  /\ Cardinality({c \in Sets : c < b /\ backup[c].state = "complete"}) >= Keep}

\* select_retention: complete sets that Keep newer complete sets of their kind exceed.
Surplus ==
    {b \in Sets : /\ backup[b].state = "complete"
                  /\ Cardinality({c \in Sets : c > b /\ backup[c].state = "complete"}) >= Keep}

\* expire removes the files of a surplus set and marks it; a failing removal leaves
\* the set complete without all of its files.
Expire(b) ==
    /\ b \in Surplus
    /\ \/ /\ backup' = [backup EXCEPT ![b] = [NoBackup EXCEPT !.state = "expired"]]
          /\ UNCHANGED faults
       \/ /\ SpendFault
          /\ backup' = [backup EXCEPT ![b].files = "removed"]
    /\ UNCHANGED <<row, object, sha256, up, damaged>>

\* The disk alters a file of an archive.
CorruptArchive(b) ==
    /\ backup[b].files = "whole"
    /\ SpendFault
    /\ backup' = [backup EXCEPT ![b].files = "corrupt"]
    /\ UNCHANGED <<row, object, sha256, up, damaged>>

\* restore checks the state of the set and the digests of manifest, dump, objects
\* and probes before it copies them into an isolated, empty target; it changes
\* neither the set nor the runtime.
RestoreOutcome(b) ==
    IF backup[b].state = "complete" /\ backup[b].files = "whole" THEN "success" ELSE "failed"

BackupNext ==
    \E b \in Sets :
        \/ CreateBackup(b) \/ ListArtifacts(b) \/ CaptureObject(b)
        \/ SealBackup(b) \/ BackupFails(b) \/ Expire(b) \/ CorruptArchive(b)

Next == (StorageNext /\ UNCHANGED backup) \/ BackupNext

Spec == Init /\ [][Next]_vars

----------------------------------------------------------------------------
(* Properties.                                                             *)

\* Every variable keeps its type.
TypeOK ==
    /\ StorageTypeOK
    /\ backup \in [Sets -> [state : {"none", "running", "complete", "failed", "expired"},
                            pc : {"none", "list", "capture"}, dump : SUBSET Arts,
                            listed : [Arts -> Contents \cup {Nothing}],
                            entries : [Arts -> Contents \cup {Nothing}],
                            files : {"none", "whole", "removed", "corrupt"}]]

\* An artifact that was in the archive before the dump and still is when the set is
\* sealed has its row in the dump and the very bytes that row describes in the set; and
\* whatever else the query listed was copied as listed too: an object that was lost,
\* altered or deleted between the query and its copy never leaves a complete set.
BackupCoversArchive ==
    [][\A b \in Sets :
          backup[b].state # "complete" /\ backup'[b].state = "complete" =>
              /\ \A a \in backup[b].dump \cap Finalized : backup[b].entries[a] = row[a].digest
              /\ backup[b].entries = backup[b].listed]_vars

\* The variables keep their types, and the newest complete set restores: no expiry,
\* not even one that fails half-way, touches it; only the disk can spoil it.
NewestRestorable ==
    /\ TypeOK
    /\ \A b \in Sets :
        (/\ backup[b].state = "complete"
         /\ \A c \in Sets : c > b => backup[c].state # "complete")
        => RestoreOutcome(b) = "success" \/ backup[b].files = "corrupt"

============================================================================
