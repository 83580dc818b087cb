----------------------------- MODULE Documents -----------------------------
(***************************************************************************)
(* Fiscal documents, their events and their evidence                       *)
(* (nfx.documents.services).  A document or event is keyed by its fiscal   *)
(* identity; the first content received for an identity is its original,   *)
(* a different one is kept as conflicting evidence.                        *)
(***************************************************************************)
EXTENDS Integers, FiniteSets

CONSTANTS
    Ids,        \* fiscal identities the source may send
    Hashes,     \* digests of their contents
    Parent,     \* the document an event or substitution refers to
    Invalid,    \* identities that DocumentInput or its normalization rejects
    NoId

Events == {i \in Ids : Parent[i] # NoId}

ASSUME IdAssumption ==
    /\ NoId \notin Ids /\ Hashes # {}
    /\ Parent \in [Ids -> Ids \cup {NoId}]
    /\ Invalid \subseteq Ids

VARIABLES
    docs,       \* the rows of nfx_document and nfx_document_event
    artifact    \* finalized artifacts, by identity and content

NoDoc == [state |-> "none", evidence |-> {}]

DocsInit == docs = [i \in Ids |-> NoDoc]

Exists(i) == docs[i].state # "none"

\* What a document row answers to content h.  The unique identity key makes a
\* concurrent insert a second attempt, which finds the row.
ContentStatus(i, h) ==
    IF ~Exists(i) THEN "persisted" ELSE IF h \in docs[i].evidence THEN "replay" ELSE "conflict"

\* An event waits for its parent.
EventStatus(i, h) == IF Exists(Parent[i]) THEN ContentStatus(i, h) ELSE "parent_missing"

\* What persist_document answers for content h of identity i.
PersistStatus(i, h) ==
    IF i \in Invalid THEN "invalid" ELSE IF i \in Events THEN EventStatus(i, h) ELSE ContentStatus(i, h)

\* Mutant: a second content replaces the evidence of the first.
PersistDocument_Replace(i, h) ==
    docs' = [docs EXCEPT ![i] =
                CASE PersistStatus(i, h) = "persisted" -> [state |-> "persisted", evidence |-> {h}]
                  [] PersistStatus(i, h) = "conflict"  -> [state |-> "persisted", evidence |-> {h}]
                  [] OTHER -> @]

\* The transaction of _persist_document and _persist_event.
PersistDocument(i, h) ==
    docs' = [docs EXCEPT ![i] =
                CASE PersistStatus(i, h) = "persisted" -> [state |-> "persisted", evidence |-> {h}]
                  [] PersistStatus(i, h) = "conflict"  -> [state |-> "conflict",
                                                           evidence |-> @.evidence \cup {h}]
                  [] OTHER -> @]

DocsTypeOK ==
    docs \in [Ids -> [state : {"none", "persisted", "conflict"}, evidence : SUBSET Hashes]]

============================================================================
