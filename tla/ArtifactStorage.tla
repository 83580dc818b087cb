-------------------------- MODULE ArtifactStorage --------------------------
(***************************************************************************)
(* Artifacts: a database row and an object in object storage, written by   *)
(* separate steps (nfx.artifacts.storage).  Callers upload concurrently    *)
(* and may die at any step; objects may be lost or altered; readers and    *)
(* the reconciliation mark what they find; temporary artifacts and those   *)
(* of a controlled deletion are removed.                                   *)
(***************************************************************************)
EXTENDS Integers

CONSTANTS
    Keys,           \* logical keys
    ContentOf,      \* the contents callers may upload under each key
    Reused,         \* keys whose callers look for a row before they begin one
    Temporary,      \* keys of exports, removed by delete_temporary
    Uploads,        \* callers that upload
    MaxArtifacts,   \* bound: rows ever begun
    MaxFaults,      \* bound: deaths of a caller, failures of storage, objects lost or altered
    Nothing

Arts == 1..MaxArtifacts
Contents == UNION {ContentOf[k] : k \in Keys}
Altered == "altered"        \* other bytes, as many
Truncated == "truncated"    \* other bytes, of another number

\* A reused key names its content (_ensure_artifact puts the digest in it).
ASSUME StorageAssumption ==
    /\ Reused \subseteq Keys /\ Temporary \subseteq Keys
    /\ \A k \in Reused : \A c, d \in ContentOf[k] : c = d
    /\ {Nothing, Altered, Truncated} \cap Contents = {}
    /\ Nothing \notin {Altered, Truncated}
    /\ MaxArtifacts \in Nat /\ MaxFaults \in Nat

VARIABLES
    row,        \* nfx_artifact
    object,     \* the bytes under each row's object key
    sha256,     \* the metadata of that object: the digest its uploader sent with it
    up,         \* what each uploading caller is doing
    faults,
    damaged     \* history: objects that changed where no verification looks

storageVars == <<row, object, sha256, up, faults, damaged>>

RowStates == {"none", "pending", "finalized", "missing", "divergent", "deleted"}
NoRow == [state |-> "none", key |-> Nothing, digest |-> Nothing]
IdleUp == [pc |-> "idle", key |-> Nothing, content |-> Nothing, art |-> 0]

StorageInit ==
    /\ row = [a \in Arts |-> NoRow]
    /\ object = [a \in Arts |-> Nothing]
    /\ sha256 = [a \in Arts |-> Nothing]
    /\ up = [u \in Uploads |-> IdleUp]
    /\ faults = 0
    /\ damaged = {}

----------------------------------------------------------------------------

Existing(k) == {a \in Arts : row[a].key = k /\ row[a].state \notin {"none", "deleted"}}
Finalized == {a \in Arts : row[a].state = "finalized"}
First(S) == CHOOSE a \in S : \A b \in S : a <= b
Unused == {a \in Arts : row[a].state = "none"}

\* head: size and sha256 metadata of the object of a agree with digest c.  The bytes
\* are not read.
HeadMatches(a, c) == object[a] \notin {Nothing, Truncated} /\ sha256[a] = c

SpendFault == faults < MaxFaults /\ faults' = faults + 1

\* A caller that ends, well or badly, keeps nothing.
Goto(u, next) == up' = [up EXCEPT ![u] = IF next = "idle" THEN IdleUp ELSE [@ EXCEPT !.pc = next]]

\* A caller wants content c under key k.  It reuses the first row of the key if it
\* looks for one, and has nothing to do when that row is finalized.
Lookup(u, k, c) ==
    /\ up[u].pc = "idle"
    /\ c \in ContentOf[k]
    /\ up' = [up EXCEPT ![u] =
                IF k \in Reused /\ Existing(k) # {}
                THEN [pc |-> IF row[First(Existing(k))].state = "finalized" THEN "done" ELSE "check",
                      key |-> k, content |-> c, art |-> First(Existing(k))]
                ELSE [pc |-> "begin", key |-> k, content |-> c, art |-> 0]]
    /\ UNCHANGED <<row, object, sha256, faults, damaged>>

\* begin inserts a pending row with an object key of its own.
BeginArtifact(u) ==
    /\ up[u].pc = "begin"
    /\ Unused # {}
    /\ LET a == First(Unused) IN
       /\ row' = [row EXCEPT ![a] = [state |-> "pending", key |-> up[u].key, digest |-> Nothing]]
       /\ up' = [up EXCEPT ![u].pc = "check", ![u].art = a]
    /\ UNCHANGED <<object, sha256, faults, damaged>>

\* transmit refuses a row that is not pending.
CheckPending(u) ==
    /\ up[u].pc = "check"
    /\ Goto(u, IF row[up[u].art].state = "pending" THEN "write" ELSE "idle")
    /\ UNCHANGED <<row, object, sha256, faults, damaged>>

\* write_stream sends the bytes and, as metadata, their digest.  What happened to an
\* earlier object of a pending row does not matter any more.
WriteObject(u) ==
    LET a == up[u].art IN
    /\ up[u].pc = "write"
    /\ object' = [object EXCEPT ![a] = up[u].content]
    /\ sha256' = [sha256 EXCEPT ![a] = up[u].content]
    /\ damaged' = IF row[a].state = "pending" THEN damaged \ {a} ELSE damaged
    /\ Goto(u, "verify")
    /\ UNCHANGED <<row, faults>>

\* Mutant: the object is not verified after it was written.
VerifyObject_Trusting(u) ==
    /\ up[u].pc = "verify"
    /\ Goto(u, "finalize")
    /\ UNCHANGED <<row, object, sha256, faults, damaged>>

\* transmit compares what head says of the object with what it sent.
VerifyObject(u) ==
    /\ up[u].pc = "verify"
    /\ Goto(u, IF HeadMatches(up[u].art, up[u].content) THEN "finalize" ELSE "idle")
    /\ UNCHANGED <<row, object, sha256, faults, damaged>>

\* The rows that the partial unique constraint lets own key k.
Owners(k) == {a \in Finalized : row[a].key = k}

\* Mutant: the last caller owns the key.
FinalizeArtifact_LastWins(u) ==
    /\ up[u].pc = "finalize"
    /\ row[up[u].art].state = "pending"
    /\ row' = [a \in Arts |->
          IF a = up[u].art THEN [row[a] EXCEPT !.state = "finalized", !.digest = up[u].content]
          ELSE IF a \in Owners(row[up[u].art].key) THEN [NoRow EXCEPT !.state = "deleted"]
          ELSE row[a]]
    /\ Goto(u, "done")
    /\ UNCHANGED <<object, sha256, faults, damaged>>

\* Mutant: whoever owns the key is returned, whatever its digest.
FinalizeArtifact_AnyOwner(u) ==
    LET owners == Owners(row[up[u].art].key) IN
    /\ up[u].pc = "finalize"
    /\ \/ /\ owners # {}
          /\ \E b \in owners : up' = [up EXCEPT ![u].pc = "done", ![u].art = b]
          /\ UNCHANGED row
       \/ /\ owners = {}
          /\ row[up[u].art].state = "pending"
          /\ row' = [row EXCEPT ![up[u].art].state = "finalized", ![up[u].art].digest = up[u].content]
          /\ Goto(u, "done")
    /\ UNCHANGED <<object, sha256, faults, damaged>>

\* _finalize: a retry finds its row finalized; a caller whose key is owned by
\* another row takes that one if the content is the same and fails otherwise.
FinalizeArtifact(u) ==
    LET a == up[u].art
        k == row[a].key
        c == up[u].content IN
    /\ up[u].pc = "finalize"
    /\ \/ /\ row[a].state = "finalized"
          /\ Goto(u, IF row[a].digest = c THEN "done" ELSE "idle")
          /\ UNCHANGED row
       \/ /\ row[a].state \notin {"pending", "finalized"}
          /\ Goto(u, "idle")
          /\ UNCHANGED row
       \/ /\ row[a].state = "pending"
          /\ Owners(k) # {}
          /\ \E b \in Owners(k) :
                up' = [up EXCEPT ![u] = IF row[b].digest = c
                                        THEN [@ EXCEPT !.pc = "done", !.art = b] ELSE IdleUp]
          /\ UNCHANGED row
       \/ /\ row[a].state = "pending"
          /\ Owners(k) = {}
          /\ row' = [row EXCEPT ![a].state = "finalized", ![a].digest = c]
          /\ Goto(u, "done")
    /\ UNCHANGED <<object, sha256, faults, damaged>>

\* The caller goes on with the artifact it was given.
Return(u) ==
    /\ up[u].pc = "done"
    /\ up' = [up EXCEPT ![u] = IdleUp]
    /\ UNCHANGED <<row, object, sha256, faults, damaged>>

\* The caller dies, or a storage call fails before it took effect.
UploadFails(u) ==
    /\ up[u].pc \notin {"idle", "done"}
    /\ SpendFault
    /\ up' = [up EXCEPT ![u] = IdleUp]
    /\ UNCHANGED <<row, object, sha256, damaged>>

\* _mark_problem, of a row that is still finalized.
MarkProblem(a) ==
    /\ row[a].state = "finalized"
    /\ row' = [row EXCEPT ![a].state = IF object[a] = Nothing THEN "missing" ELSE "divergent"]
    /\ UNCHANGED <<object, sha256, up, faults, damaged>>

\* open_verified reads the bytes and compares them with the row.
OpenVerified(a) == object[a] # row[a].digest /\ MarkProblem(a)

\* reconcile asks for the head only.
Reconcile(a) == ~HeadMatches(a, row[a].digest) /\ MarkProblem(a)

\* delete_temporary removes the object, then the row; a failure in between rolls
\* back the row only.
DeleteTemporary(a) ==
    /\ row[a].key \in Temporary
    /\ row[a].state \notin {"none", "deleted"}
    /\ object' = [object EXCEPT ![a] = Nothing]
    /\ \/ /\ row' = [row EXCEPT ![a] = [NoRow EXCEPT !.state = "deleted"]]
          /\ UNCHANGED <<faults, damaged>>
       \/ /\ SpendFault
          /\ damaged' = damaged \cup {a}
          /\ UNCHANGED row
    /\ UNCHANGED <<sha256, up>>

\* delete_for_deletion removes an object whose head agrees with the row; its saga
\* removes the row later.
DeleteForDeletion(a) ==
    /\ row[a].key \notin Temporary
    /\ row[a].state = "finalized"
    /\ HeadMatches(a, row[a].digest)
    /\ object' = [object EXCEPT ![a] = Nothing]
    /\ damaged' = damaged \cup {a}
    /\ UNCHANGED <<row, sha256, up, faults>>

\* The reconciliation may have marked it in between.
RemoveRow(a) ==
    /\ row[a].key \notin Temporary
    /\ row[a].state \in {"finalized", "missing"}
    /\ object[a] = Nothing
    /\ row' = [row EXCEPT ![a] = [NoRow EXCEPT !.state = "deleted"]]
    /\ UNCHANGED <<object, sha256, up, faults, damaged>>

\* Object storage loses, truncates or alters an object behind its metadata.  The first
\* two are noticed by a verification that is still to come, the last one by no head.
Damage(a) ==
    /\ object[a] # Nothing
    /\ SpendFault
    /\ \E bytes \in {Nothing, Truncated, Altered} :
        /\ object' = [object EXCEPT ![a] = bytes]
        /\ damaged' = IF \/ bytes = Altered
                         \/ row[a].state = "finalized"
                         \/ \E u \in Uploads : up[u].pc = "finalize" /\ up[u].art = a
                      THEN damaged \cup {a} ELSE damaged
    /\ UNCHANGED <<row, sha256, up>>

StorageNext ==
    \/ \E u \in Uploads, k \in Keys : \E c \in ContentOf[k] : Lookup(u, k, c)
    \/ \E u \in Uploads :
        \/ BeginArtifact(u) \/ CheckPending(u) \/ WriteObject(u) \/ VerifyObject(u)
        \/ FinalizeArtifact(u) \/ Return(u) \/ UploadFails(u)
    \/ \E a \in Arts :
        \/ OpenVerified(a) \/ Reconcile(a) \/ DeleteTemporary(a) \/ DeleteForDeletion(a)
        \/ RemoveRow(a) \/ Damage(a)

----------------------------------------------------------------------------
(* Properties.                                                             *)

\* Every variable keeps its type.
StorageTypeOK ==
    /\ row \in [Arts -> [state : RowStates, key : Keys \cup {Nothing},
                         digest : Contents \cup {Nothing}]]
    /\ object \in [Arts -> Contents \cup {Nothing, Altered, Truncated}]
    /\ sha256 \in [Arts -> Contents \cup {Nothing}]
    /\ up \in [Uploads -> [pc : {"idle", "begin", "check", "write", "verify", "finalize", "done"},
                           key : Keys \cup {Nothing}, content : Contents \cup {Nothing},
                           art : 0..MaxArtifacts]]
    /\ damaged \subseteq Arts

\* The variables keep their types; a finalized row never describes other bytes than its
\* object holds, however many callers write the same row, die and retry and whatever is
\* lost or truncated before it is verified, unless the object was damaged later or
\* altered to bytes of the same number, which head cannot tell from its metadata; and
\* readers and the reconciliation blame only damaged objects.
StorageInv ==
    /\ StorageTypeOK
    /\ \A a \in Finalized \ damaged : object[a] = row[a].digest
    /\ \A a \in Arts : row[a].state \in {"missing", "divergent"} => a \in damaged

\* The row caller u was given has its content, is finalized, and alone under its key.
Given(u) == row[up[u].art].digest = up[u].content /\ Owners(up[u].key) = {up[u].art}

\* Whoever is told that its upload succeeded was given its own content, finalized and
\* the only finalized one of the key, whichever caller wrote or finalized it.
UploadIsHonest ==
    [][\A u \in Uploads : up[u].pc # "done" /\ up'[u].pc = "done" => Given(u)']_storageVars

\* What the database says each key holds.
Held == [k \in Keys |-> IF Owners(k) = {} THEN Nothing
                        ELSE row[CHOOSE a \in Owners(k) : TRUE].digest]

Store == INSTANCE WriteOnceStore WITH stored <- Held

\* Under a key there is at most one finalized content, and it is never replaced in
\* place: the partial unique constraint decides every race.
WriteOnce == Store!StoreSpec

============================================================================
