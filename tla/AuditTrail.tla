----------------------------- MODULE AuditTrail -----------------------------
(***************************************************************************)
(* The audit trail (nfx.audit): one hash chain.  An append locks the chain *)
(* row and belongs to the transaction of the operation it reports, so the  *)
(* row stays locked, and the event invisible, until that commits.          *)
(***************************************************************************)
EXTENDS Naturals, Sequences

CONSTANTS
    Requests,   \* requests being handled
    NoRequest,
    MaxEvents   \* bound: events ever appended

ASSUME AuditAssumption == NoRequest \notin Requests /\ MaxEvents \in Nat

VARIABLES
    log,        \* nfx_audit_event, in the order of its commits
    chain,      \* nfx_audit_chain: last_sequence and last_hash
    chainLock   \* the request whose transaction holds the chain row

auditVars == <<log, chain, chainLock>>

\* SHA-256 as what makes it useful: equal only for equal payloads and equal
\* predecessors.
Genesis == <<>>
EventHash(previous, sequence, payload) == Append(previous, <<sequence, payload>>)

AuditInit ==
    /\ log = <<>>
    /\ chain = [sequence |-> 0, hash |-> Genesis]
    /\ chainLock = NoRequest

\* AuditService.append up to the insert: get_or_create and SELECT ... FOR UPDATE.
LockChain(r) ==
    /\ chainLock = NoRequest
    /\ Len(log) < MaxEvents
    /\ chainLock' = r
    /\ UNCHANGED <<log, chain>>

EventRow(payload) ==
    [sequence |-> chain.sequence + 1, payload |-> payload, previous |-> chain.hash,
     hash |-> EventHash(chain.hash, chain.sequence + 1, payload)]

\* The commit makes the event and the advanced chain row visible; a rollback
\* (ReleaseChain) makes both disappear.
CommitEvent(r, payload) ==
    /\ chainLock = r
    /\ \A i \in DOMAIN log : log[i].sequence # chain.sequence + 1
    /\ log' = Append(log, EventRow(payload))
    /\ chain' = [sequence |-> chain.sequence + 1, hash |-> EventRow(payload).hash]
    /\ chainLock' = NoRequest

ReleaseChain(r) ==
    /\ chainLock' = IF chainLock = r THEN NoRequest ELSE chainLock
    /\ UNCHANGED <<log, chain>>

\* AuditVerifier.verify over the committed events.
Verify ==
    \A i \in DOMAIN log :
        LET previous == IF i = 1 THEN Genesis ELSE log[i - 1].hash
        IN  /\ log[i].sequence = i
            /\ log[i].previous = previous
            /\ log[i].hash = EventHash(previous, i, log[i].payload)

\* Every variable keeps its type.
AuditTypeOK ==
    /\ chain.sequence \in 0..MaxEvents
    /\ Len(log) \in 0..MaxEvents
    /\ chainLock \in Requests \cup {NoRequest}

============================================================================
