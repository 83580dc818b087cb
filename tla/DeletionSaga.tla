--------------------------- MODULE DeletionSaga ---------------------------
(***************************************************************************)
(* Controlled deletion of one fiscal document (nfx.retention.deletion).    *)
(* An administrator requests an operation; a job executes it as a saga:    *)
(* it removes the object of every enumerated artifact from object storage, *)
(* one checkpoint per item, then removes the rows in one transaction.      *)
(*                                                                         *)
(* Every database transaction and every storage call is one step.  A job   *)
(* is delivered at least once, and twice at a time when a lease runs out   *)
(* under a slow handler, so several executors may run one operation.       *)
(* Meanwhile ingestion may attach evidence to the document.                *)
(***************************************************************************)
EXTENDS Integers, FiniteSets

CONSTANTS
    Artifacts,      \* artifact rows, named by their position in item order
    Enclosed,       \* the artifacts the document starts with
    MaxOps,         \* bound: rows of nfx_deletion_operation
    Executors,      \* workers running deletion_handler
    MaxFaults,      \* bound: crashes, overruns, storage, audit and database failures
    MaxResumes,     \* bound: calls of resume_deletion
    MaxRestores,    \* bound: objects an operator puts back from a backup
    NoArtifact, NoExecutor

OpIds == 1..MaxOps
NoOp == 0

ASSUME ArtifactAssumption ==
    /\ Artifacts \subseteq Nat
    /\ IsFiniteSet(Artifacts)
    /\ Enclosed \subseteq Artifacts
    /\ NoArtifact \notin Artifacts
    /\ NoExecutor \notin Executors

ASSUME DeletionBounds ==
    /\ MaxOps \in Nat
    /\ MaxFaults \in Nat
    /\ MaxResumes \in Nat
    /\ MaxRestores \in Nat

VARIABLES
    doc,        \* the Document row: its state, or "deleted"
    evidence,   \* artifacts its evidence rows refer to
    artifact,   \* artifact rows that exist (all of them finalized)
    object,     \* artifacts whose bytes are in object storage
    op,         \* the table nfx_deletion_operation with its artifact items
    job,        \* the job of each operation and the worker that leases it
    run,        \* what each executor is doing
    faults, resumes, restores,
    remover,    \* history: the operation that last removed each object
    restored    \* history: objects the operator put back

vars == <<doc, evidence, artifact, object, op, job, run, faults, resumes,
          restores, remover, restored>>
tables == <<doc, evidence, artifact, object, op>>
budgets == <<resumes, restores, restored>>

OpStates == {"none", "pending", "executing", "recovery", "failed", "completed"}
ItemStates == {"none", "pending", "running", "recovery", "failed", "completed"}
ActiveStates == {"pending", "executing", "recovery"}

Scopes == [doc : {"persisted", "conflict", "deleted"}, evidence : SUBSET Artifacts]

NewOp == [state |-> "none",
          scope |-> [doc |-> "deleted", evidence |-> {}],
          item  |-> [a \in Artifacts |-> "none"]]

\* pc is the transaction the executor is about to run;
\* todo and cur are execute_deletion's loop; want, item and inTry are the
\* _mark_outcome call it is about to make.
IdleRun == [pc |-> "idle", op |-> NoOp, todo |-> {}, cur |-> NoArtifact,
            want |-> "none", item |-> NoArtifact, inTry |-> FALSE]

Init ==
    /\ doc = "persisted"
    /\ evidence = Enclosed
    /\ artifact = Artifacts
    /\ object = Artifacts
    /\ op = [o \in OpIds |-> NewOp]
    /\ job = [o \in OpIds |-> [active |-> FALSE, owner |-> NoExecutor]]
    /\ run = [e \in Executors |-> IdleRun]
    /\ faults = 0 /\ resumes = 0 /\ restores = 0
    /\ remover = [a \in Artifacts |-> NoOp]
    /\ restored = {}

----------------------------------------------------------------------------
(* What the transactions read.                                             *)

\* scope_hash: injective in what it covers.
Scope == [doc |-> doc, evidence |-> evidence]

\* Mutant: a document in conflict is eligible.
Eligible_Conflict == doc # "deleted" /\ evidence # {}

\* decision_for_document for a document past its retention date.
Eligible == doc = "persisted" /\ evidence # {}

\* Mutant: the partial unique constraint is missing.
OtherActive_NoConstraint(o) == FALSE

\* Whether the partial unique constraint rejects making o active.
OtherActive(o) == \E p \in OpIds \ {o} : op[p].state \in ActiveStates

Items(o) == {a \in Artifacts : op[o].item[a] # "none"}

First(S) == CHOOSE a \in S : \A b \in S : a <= b

SpendFault == faults < MaxFaults /\ faults' = faults + 1

----------------------------------------------------------------------------
(* The document and its archive.                                           *)

\* attach_document_evidence, and _persist_document on different content.
Attach(a, conflicting) ==
    /\ doc # "deleted"
    /\ a \in artifact \ evidence
    /\ evidence' = evidence \cup {a}
    /\ doc' = IF conflicting THEN "conflict" ELSE doc
    /\ UNCHANGED <<artifact, object, op, job, run, faults, budgets, remover>>

----------------------------------------------------------------------------
(* The administrator.                                                      *)

\* request_deletion with the hash of a current preview.  With an operation
\* active it returns that one or raises, and changes nothing.
RequestDeletion(o) ==
    /\ op[o].state = "none"
    /\ doc # "deleted"
    /\ ~OtherActive(o)
    /\ Eligible
    /\ op' = [op EXCEPT ![o] = [state |-> "pending", scope |-> Scope,
                                item |-> [a \in Artifacts |->
                                    IF a \in evidence THEN "pending" ELSE "none"]]]
    /\ job' = [job EXCEPT ![o] = [active |-> TRUE, owner |-> NoExecutor]]
    /\ UNCHANGED <<doc, evidence, artifact, object, run, faults, budgets, remover>>

\* resume_deletion: any operation but a completed one becomes pending.  _enqueue
\* keeps an active job and otherwise inserts a new one.
ResumeDeletion(o) ==
    /\ op[o].state \notin {"none", "completed"}
    /\ ~OtherActive(o)
    /\ resumes < MaxResumes
    /\ resumes' = resumes + 1
    /\ op' = [op EXCEPT ![o].state = "pending"]
    /\ job' = IF job[o].active THEN job
              ELSE [job EXCEPT ![o] = [active |-> TRUE, owner |-> NoExecutor]]
    /\ UNCHANGED <<doc, evidence, artifact, object, run, faults, restores, remover, restored>>

\* An operator puts back the bytes an operation in recovery reports missing.
\* The operator acts while no executor runs.
RestoreObject(o, a) ==
    /\ op[o].state = "recovery"
    /\ op[o].item[a] = "recovery"
    /\ a \in artifact \ object
    /\ \A e \in Executors : run[e].pc = "idle"
    /\ restores < MaxRestores
    /\ restores' = restores + 1
    /\ object' = object \cup {a}
    /\ restored' = restored \cup {a}
    /\ UNCHANGED <<doc, evidence, artifact, op, job, run, faults, resumes, remover>>

----------------------------------------------------------------------------
(* An executor: deletion_handler and execute_deletion.                     *)

Continue(e, next) == run' = [run EXCEPT ![e].pc = next]

\* The executor goes on to _mark_outcome.  A call made inside execute_deletion's
\* try block is itself covered by the final except clause.
MarkNext(e, state, a, inTry) ==
    run' = [run EXCEPT ![e] = [@ EXCEPT !.pc = "mark", !.want = state,
                                        !.item = a, !.inTry = inTry]]

\* Mutant: the job is acknowledged before it is executed.
Start_AckFirst(e, o) ==
    /\ run[e].pc = "idle"
    /\ job[o].active
    /\ run' = [run EXCEPT ![e] = [IdleRun EXCEPT !.pc = "begin", !.op = o]]
    /\ job' = [job EXCEPT ![o] = [active |-> FALSE, owner |-> e]]
    /\ UNCHANGED <<tables, faults, budgets, remover>>

\* The job engine hands the job of o to a worker.  While another one still
\* runs it, this takes a lease that ran out.
Start(e, o) ==
    /\ run[e].pc = "idle"
    /\ job[o].active
    /\ run' = [run EXCEPT ![e] = [IdleRun EXCEPT !.pc = "begin", !.op = o]]
    /\ job' = [job EXCEPT ![o].owner = e]
    /\ IF \E x \in Executors : run[x].pc # "idle" /\ run[x].op = o
       THEN SpendFault ELSE UNCHANGED faults
    /\ UNCHANGED <<tables, budgets, remover>>

\* First transaction of execute_deletion.  A violation of the constraint
\* leaves the handler as an exception.
Begin(e) ==
    LET o == run[e].op IN
    /\ run[e].pc = "begin"
    /\ IF op[o].state = "completed" \/ OtherActive(o)
       THEN Continue(e, "report") /\ UNCHANGED op
       ELSE /\ Continue(e, "revalidate")
            /\ op' = [op EXCEPT ![o].state = "executing"]
    /\ UNCHANGED <<doc, evidence, artifact, object, job, faults, budgets, remover>>

\* Mutant: the scope is not compared with the preview's.
Revalidate_NoScope(e) ==
    LET o == run[e].op IN
    /\ run[e].pc = "revalidate"
    /\ IF doc = "deleted" THEN MarkNext(e, "recovery", NoArtifact, FALSE)
       ELSE run' = [run EXCEPT ![e].pc = "items", ![e].todo = Items(o)]
    /\ UNCHANGED <<tables, job, faults, budgets, remover>>

\* The document is loaded again, its scope and its eligibility compared.
Revalidate(e) ==
    LET o == run[e].op IN
    /\ run[e].pc = "revalidate"
    /\ IF doc = "deleted" THEN MarkNext(e, "recovery", NoArtifact, FALSE)
       ELSE IF Scope # op[o].scope \/ ~Eligible THEN MarkNext(e, "failed", NoArtifact, TRUE)
       ELSE run' = [run EXCEPT ![e].pc = "items", ![e].todo = Items(o)]
    /\ UNCHANGED <<tables, job, faults, budgets, remover>>

\* _claim_item: an item whose checkpoint is set is skipped.
ClaimItem(e) ==
    LET o == run[e].op
        a == First(run[e].todo) IN
    /\ run[e].pc = "items"
    /\ run[e].todo # {}
    /\ IF op[o].item[a] = "completed"
       THEN /\ run' = [run EXCEPT ![e].todo = @ \ {a}]
            /\ UNCHANGED op
       ELSE /\ run' = [run EXCEPT ![e].pc = "deleting", ![e].cur = a,
                                   ![e].todo = @ \ {a}]
            /\ op' = [op EXCEPT ![o].item[a] = "running"]
    /\ UNCHANGED <<doc, evidence, artifact, object, job, faults, budgets, remover>>

\* delete_for_deletion: the row, then the object, must still be there.
DeleteObject(e) ==
    LET a == run[e].cur IN
    /\ run[e].pc = "deleting"
    /\ IF a \in artifact \cap object
       THEN /\ Continue(e, "checkpoint")
            /\ object' = object \ {a}
            /\ remover' = [remover EXCEPT ![a] = run[e].op]
       ELSE /\ MarkNext(e, "recovery", a, TRUE)
            /\ UNCHANGED <<object, remover>>
    /\ UNCHANGED <<doc, evidence, artifact, op, job, faults, budgets>>

\* Mutant: a storage failure is ignored.
DeleteObjectFails_Ignored(e) ==
    /\ run[e].pc = "deleting"
    /\ SpendFault
    /\ Continue(e, "checkpoint")
    /\ UNCHANGED <<tables, job, budgets, remover>>

\* Object storage fails or its object diverges; a failed delete may have removed it.
DeleteObjectFails(e) ==
    LET a == run[e].cur IN
    /\ run[e].pc = "deleting"
    /\ SpendFault
    /\ MarkNext(e, "recovery", a, TRUE)
    /\ \/ UNCHANGED <<object, remover>>
       \/ /\ a \in artifact \cap object
          /\ object' = object \ {a}
          /\ remover' = [remover EXCEPT ![a] = run[e].op]
    /\ UNCHANGED <<doc, evidence, artifact, op, job, budgets>>

\* Last transaction of _process_artifact.
Checkpoint(e) ==
    /\ run[e].pc = "checkpoint"
    /\ Continue(e, "items")
    /\ op' = [op EXCEPT ![run[e].op].item[run[e].cur] = "completed"]
    /\ UNCHANGED <<doc, evidence, artifact, object, job, faults, budgets, remover>>

\* Mutant: the rows are removed before the objects.
FinalizeRelational_RowsFirst(e) ==
    /\ run[e].pc = "items"
    /\ doc # "deleted"
    /\ doc' = "deleted"
    /\ evidence' = {}
    /\ artifact' = artifact \ Items(run[e].op)
    /\ op' = [op EXCEPT ![run[e].op].state = "completed"]
    /\ Continue(e, "report")
    /\ UNCHANGED <<object, job, faults, budgets, remover>>

\* _finalize_relational: incomplete checkpoints or a document that is gone are
\* DeletionErrors; otherwise rows, items and operation change together.
FinalizeRelational(e) ==
    LET o == run[e].op IN
    /\ run[e].pc = "items"
    /\ run[e].todo = {}
    /\ IF doc = "deleted" \/ \E a \in Items(o) : op[o].item[a] # "completed"
       THEN /\ MarkNext(e, "recovery", NoArtifact, FALSE)
            /\ UNCHANGED <<doc, evidence, artifact, op>>
       ELSE /\ doc' = "deleted"
            /\ evidence' = {}
            /\ artifact' = artifact \ Items(o)
            /\ op' = [op EXCEPT ![o].state = "completed"]
            /\ Continue(e, "report")
    /\ UNCHANGED <<object, job, faults, budgets, remover>>

\* The final transaction rolls back: a protected reference, or no audit trail.
FinalizeBlocked(e) ==
    /\ run[e].pc = "items"
    /\ run[e].todo = {}
    /\ SpendFault
    /\ MarkNext(e, "recovery", NoArtifact, FALSE)
    /\ UNCHANGED <<tables, job, budgets, remover>>

\* Any other exception inside the try block: the database or the environment.
Fails(e) ==
    /\ run[e].pc \in {"revalidate", "items", "deleting", "checkpoint"}
    /\ SpendFault
    /\ MarkNext(e, "failed", NoArtifact, FALSE)
    /\ UNCHANGED <<tables, job, budgets, remover>>

\* _mark_outcome overwrites whatever state the operation is in.  The constraint
\* may reject a recovery: inside the try block the operation then fails,
\* elsewhere the exception leaves the handler.
MarkOutcome(e) ==
    LET o == run[e].op
        rejected == run[e].want = "recovery" /\ OtherActive(o) IN
    /\ run[e].pc = "mark"
    /\ IF rejected
       THEN /\ IF run[e].inTry THEN MarkNext(e, "failed", NoArtifact, FALSE)
                               ELSE Continue(e, "report")
            /\ UNCHANGED op
       ELSE /\ op' = [op EXCEPT
                    ![o].state = run[e].want,
                    ![o].item = [a \in Artifacts |->
                                    IF a = run[e].item THEN run[e].want ELSE @[a]]]
            /\ Continue(e, "report")
    /\ UNCHANGED <<doc, evidence, artifact, object, job, faults, budgets, remover>>

\* The worker finalizes the job.  A recovery is a partial outcome, and an exception
\* that left the handler a temporary one: both are retried until the policy's
\* limit.  Completed and failed end the job.  A lease that ran out,
\* taken by another worker or not, leaves the job as it is.
Report(e) ==
    LET o == run[e].op
        mine == job[o].owner = e
        retried == run[e].want = "recovery" \/ (run[e].want = "none" /\ op[o].state # "completed") IN
    /\ run[e].pc = "report"
    /\ run' = [run EXCEPT ![e] = IdleRun]
    /\ \/ mine /\ job' = [job EXCEPT ![o].active = FALSE] /\ UNCHANGED faults
       \/ mine /\ retried /\ UNCHANGED <<job, faults>>
       \/ mine /\ SpendFault /\ UNCHANGED job
       \/ ~mine /\ UNCHANGED <<job, faults>>
    /\ UNCHANGED <<tables, budgets, remover>>

\* The worker process dies; its job is recovered when the lease expires.
Crash(e) ==
    /\ run[e].pc # "idle"
    /\ SpendFault
    /\ run' = [run EXCEPT ![e] = IdleRun]
    /\ UNCHANGED <<tables, job, budgets, remover>>

----------------------------------------------------------------------------

ExecutorStep(e) ==
    \/ Begin(e) \/ Revalidate(e) \/ ClaimItem(e) \/ DeleteObject(e)
    \/ Checkpoint(e) \/ FinalizeRelational(e) \/ MarkOutcome(e) \/ Report(e)

Fault(e) == DeleteObjectFails(e) \/ FinalizeBlocked(e) \/ Fails(e) \/ Crash(e)

Next ==
    \/ \E a \in Artifacts, c \in BOOLEAN : Attach(a, c)
    \/ \E o \in OpIds : RequestDeletion(o) \/ ResumeDeletion(o)
    \/ \E o \in OpIds, a \in Artifacts : RestoreObject(o, a)
    \/ \E e \in Executors, o \in OpIds : Start(e, o)
    \/ \E e \in Executors : ExecutorStep(e) \/ Fault(e)

Spec == Init /\ [][Next]_vars

\* Workers keep running, and claim takes the job that is due first, so a job that
\* is retried again and again does not starve another.  The administrator,
\* ingestion and faults owe nothing.
Fairness ==
    /\ \A e \in Executors : WF_vars(ExecutorStep(e))
    /\ \A o \in OpIds : SF_vars(\E e \in Executors : Start(e, o))

FairSpec == Spec /\ Fairness

----------------------------------------------------------------------------
(* Properties.                                                             *)

\* Every variable keeps its type.
TypeOK ==
    /\ doc \in {"persisted", "conflict", "deleted"}
    /\ evidence \subseteq Artifacts
    /\ artifact \subseteq Artifacts
    /\ object \subseteq Artifacts
    /\ op \in [OpIds -> [state : OpStates, scope : Scopes,
                         item : [Artifacts -> ItemStates]]]
    /\ job \in [OpIds -> [active : BOOLEAN, owner : Executors \cup {NoExecutor}]]
    /\ run \in [Executors ->
            [pc : {"idle", "begin", "revalidate", "items", "deleting",
                   "checkpoint", "mark", "report"},
             op : OpIds \cup {NoOp}, todo : SUBSET Artifacts,
             cur : Artifacts \cup {NoArtifact},
             want : {"none", "recovery", "failed"},
             item : Artifacts \cup {NoArtifact}, inTry : BOOLEAN]]
    /\ faults \in Nat /\ resumes \in Nat /\ restores \in Nat
    /\ remover \in [Artifacts -> OpIds \cup {NoOp}]
    /\ restored \subseteq Artifacts

\* The variables keep their types, and a checkpoint never lies: an item is completed
\* only when the bytes of its artifact are out of object storage (_process_artifact
\* updates the item after delete_for_deletion returned, never before), or were put
\* back by the operator.
SagaInv ==
    /\ TypeOK
    /\ \A o \in OpIds, a \in Artifacts : op[o].item[a] = "completed" => a \notin object \ restored

\* Success is never claimed early: the document of a completed operation, the
\* artifact rows of its items and their bytes are all gone, but for bytes an operator
\* put back before (_finalize_relational runs after the last checkpoint, in one
\* transaction, and does not look at object storage).
CompletedMeansGone ==
    \A o \in OpIds : op[o].state = "completed" =>
        /\ doc = "deleted"
        /\ Items(o) \cap (artifact \cup (object \ restored)) = {}

\* At most one operation is the active decision on the document, whatever two
\* administrators, resumes and late executors of failed operations do.
OneActiveDecision ==
    \A o, p \in OpIds : op[o].state \in ActiveStates /\ op[p].state \in ActiveStates => o = p

\* Only bytes an administrator was shown in the preview of an eligible document
\* are destroyed: an operation removes nothing but items of its own scope, and a
\* document in conflict is never the subject of one.
OnlyPreviewedBytes ==
    \A a \in Artifacts \ object :
        /\ remover[a] # NoOp
        /\ a \in op[remover[a]].scope.evidence
        /\ op[remover[a]].scope.doc = "persisted"

\* If any link of the document changed after the preview, and no execution was
\* under way then, the operation never completes: a new preview is needed.
StalePreviewNeverCompletes ==
    \A o \in OpIds :
        []((/\ op[o].state \notin {"none", "completed"}
            /\ Scope # op[o].scope
            /\ \A e \in Executors : run[e].pc = "idle" \/ run[e].op # o)
           => [](op[o].state # "completed"))

\* A requested operation is executed: until an administrator resumes one, it ends
\* completed, failed or in recovery in spite of crashes of the worker.
RequestIsExecuted ==
    \A o \in OpIds : op[o].state \in {"pending", "executing"}
                        ~> (op[o].state \notin {"pending", "executing"} \/ resumes > 0)

============================================================================
