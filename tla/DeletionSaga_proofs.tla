------------------------- MODULE DeletionSaga_proofs -------------------------
(***************************************************************************)
(* Theorems about DeletionSaga: for every set of artifacts, any number of  *)
(* operations, executors, faults, resumes and restores.                    *)
(***************************************************************************)
EXTENDS DeletionSaga, WellFoundedInduction, TLAPS

----------------------------------------------------------------------------
(* The inductive invariant.                                                *)

\* An item is completed only when its bytes are gone, or were put back.
CheckpointTruth ==
    \A o \in OpIds, a \in Artifacts : op[o].item[a] = "completed" => a \notin object \ restored

\* Bytes are removed by operations that were requested.
RemoverRequested ==
    \A a \in Artifacts \ object : remover[a] \in OpIds /\ op[remover[a]].state # "none"

\* The items of an operation are the evidence of its preview, and evidence is
\* never detached while the document exists.
ScopeFixed ==
    \A o \in OpIds : op[o].state # "none" =>
        /\ op[o].scope.doc = "persisted"
        /\ Items(o) = op[o].scope.evidence
        /\ doc # "deleted" => op[o].scope.evidence \subseteq evidence

\* Jobs exist for requested operations only.
JobRequested == \A o \in OpIds : job[o].active => op[o].state # "none"

\* A busy executor runs a requested operation, touches nothing but its items,
\* and is about to set a checkpoint only after the bytes are gone.
WorkOK(e) ==
    run[e].pc # "idle" =>
        /\ run[e].op \in OpIds
        /\ op[run[e].op].state # "none"
        /\ run[e].todo \subseteq Items(run[e].op)
        /\ run[e].pc \in {"deleting", "checkpoint"} => run[e].cur \in Items(run[e].op)
        /\ run[e].pc = "checkpoint" => run[e].cur \notin object
        /\ run[e].pc = "mark" => /\ run[e].want # "none"
                                 /\ run[e].item \in Items(run[e].op) \cup {NoArtifact}

WorkRequested == \A e \in Executors : WorkOK(e)

IInv ==
    /\ TypeOK
    /\ CheckpointTruth
    /\ OneActiveDecision
    /\ CompletedMeansGone
    /\ OnlyPreviewedBytes
    /\ RemoverRequested
    /\ ScopeFixed
    /\ JobRequested
    /\ WorkRequested

\* The part of the invariant that is about the tables alone.
TablesInv ==
    /\ CheckpointTruth
    /\ OneActiveDecision
    /\ CompletedMeansGone
    /\ OnlyPreviewedBytes
    /\ RemoverRequested
    /\ ScopeFixed

----------------------------------------------------------------------------
(* Facts about the operators.                                              *)

\* The loop of execute_deletion always has a first item to take.
LEMMA FirstIsMember ==
    ASSUME NEW S \in SUBSET Artifacts, S # {}
    PROVE  First(S) \in S
<1> DEFINE R == {ss \in Nat \X Nat : ss[1] < ss[2]}
<1>1. S \subseteq Nat
  BY ArtifactAssumption
<1>2. IsWellFoundedOn(R, Nat)
  BY NatLessThanWellFounded DEF OpToRel
<1>3. PICK x \in S : \A y \in S : ~(<<y, x>> \in R)
  <2> HIDE DEF R
  <2> QED
    BY <1>1, <1>2, WFMin
<1>4. \A y \in S : x <= y
  <2> SUFFICES ASSUME NEW y \in S, ~(x <= y) PROVE FALSE
    OBVIOUS
  <2>1. <<y, x>> \in Nat \X Nat /\ y < x
    BY <1>1
  <2>2. <<y, x>> \in R
    BY <2>1
  <2>3. QED
    BY <2>2, <1>3
<1>5. QED
  BY <1>4 DEF First

\* Operations that exist keep their preview and their items.
Onward ==
    \A o \in OpIds : op[o].state # "none" =>
        /\ op'[o].state # "none"
        /\ op'[o].scope = op[o].scope
        /\ Items(o)' = Items(o)

\* What an executor relies on survives every step of the others that puts
\* no object back.
LEMMA OthersKeep ==
    ASSUME IInv, Onward, object' \subseteq object,
           NEW x \in Executors, run'[x] = run[x]
    PROVE  WorkOK(x)'
<1>1. WorkOK(x)
  BY DEF IInv, WorkRequested
<1>2. CASE run[x].pc = "idle"
  BY <1>2 DEF WorkOK
<1>3. CASE run[x].pc # "idle"
  <2> DEFINE o == run[x].op
  <2>1. o \in OpIds /\ op[o].state # "none"
    BY <1>1, <1>3 DEF WorkOK
  <2>2. op'[o].state # "none" /\ Items(o)' = Items(o) /\ run'[x].op = o
    BY <2>1 DEF Onward
  <2>3. Items(run[x].op)' = Items(o)
    BY <2>2 DEF Items
  <2>4. QED
    BY <1>1, <1>3, <2>1, <2>2, <2>3 DEF WorkOK
<1>4. QED
  BY <1>2, <1>3

\* Steps that leave the tables alone leave what is said of them true.
LEMMA TablesKeep ==
    ASSUME IInv, UNCHANGED <<doc, evidence, artifact, object, op, remover, restored>>
    PROVE  TablesInv' /\ Onward
BY DEF IInv, TablesInv, CheckpointTruth, OneActiveDecision, CompletedMeansGone,
       OnlyPreviewedBytes, RemoverRequested, ScopeFixed, Onward, Items

\* The parts make up the whole.
LEMMA Assemble ==
    ASSUME TypeOK', TablesInv', JobRequested', WorkRequested'
    PROVE  IInv'
BY DEF IInv, TablesInv

----------------------------------------------------------------------------
(* Each step keeps the invariant.                                          *)

\* Ingestion only adds evidence.
LEMMA AttachKeeps ==
    ASSUME IInv, NEW a \in Artifacts, NEW c \in BOOLEAN, Attach(a, c)
    PROVE  IInv'
<1> USE DEF Attach, budgets
<1>1. TypeOK'
  BY DEF IInv, TypeOK
<1>2. TablesInv' /\ Onward
  BY DEF IInv, TypeOK, TablesInv, CheckpointTruth, OneActiveDecision, CompletedMeansGone,
         OnlyPreviewedBytes, RemoverRequested, ScopeFixed, Onward, Items
<1>3. JobRequested'
  BY DEF IInv, JobRequested
<1>4. WorkRequested'
  BY <1>2, OthersKeep DEF WorkRequested
<1>5. QED
  BY <1>1, <1>2, <1>3, <1>4, Assemble

\* A request writes one row that was free, for a document in good order.
LEMMA RequestDeletionKeeps ==
    ASSUME IInv, NEW o \in OpIds, RequestDeletion(o)
    PROVE  IInv'
<1> USE DEF RequestDeletion, budgets, Scope, Eligible
<1>1. /\ op'[o].state = "pending"
      /\ op'[o].scope = [doc |-> "persisted", evidence |-> evidence]
      /\ \A a \in Artifacts : op'[o].item[a] = IF a \in evidence THEN "pending" ELSE "none"
      /\ \A p \in OpIds \ {o} : op'[p] = op[p]
      /\ job'[o].active
      /\ \A p \in OpIds \ {o} : job'[p] = job[p]
  BY DEF IInv, TypeOK
<1>2. TypeOK'
  <2>1. op'[o] \in [state : OpStates, scope : Scopes, item : [Artifacts -> ItemStates]]
    BY DEF IInv, TypeOK, OpStates, Scopes, ItemStates
  <2>2. op' \in [OpIds -> [state : OpStates, scope : Scopes, item : [Artifacts -> ItemStates]]]
    BY <2>1 DEF IInv, TypeOK
  <2>3. job' \in [OpIds -> [active : BOOLEAN, owner : Executors \cup {NoExecutor}]]
    BY DEF IInv, TypeOK
  <2>4. QED
    BY <2>2, <2>3 DEF IInv, TypeOK
<1>3. /\ Items(o)' = evidence
      /\ \A p \in OpIds \ {o} : Items(p)' = Items(p)
  BY <1>1 DEF Items, IInv, TypeOK
<1>4. Onward
  BY <1>1, <1>3 DEF Onward
<1>5. CheckpointTruth'
  BY <1>1 DEF IInv, CheckpointTruth
<1>6. OneActiveDecision'
  BY <1>1 DEF IInv, OneActiveDecision, OtherActive
<1>7. CompletedMeansGone'
  BY <1>1, <1>3 DEF IInv, CompletedMeansGone
<1>8. OnlyPreviewedBytes' /\ RemoverRequested'
  BY <1>1 DEF IInv, OnlyPreviewedBytes, RemoverRequested
<1>9. ScopeFixed'
  BY <1>1, <1>3 DEF IInv, ScopeFixed
<1>10. JobRequested'
  BY <1>1 DEF IInv, JobRequested
<1>11. WorkRequested'
  BY <1>4, OthersKeep DEF WorkRequested
<1>12. QED
  BY <1>2, <1>5, <1>6, <1>7, <1>8, <1>9, <1>10, <1>11, Assemble DEF TablesInv

\* A resume makes an operation that is not completed pending again.
LEMMA ResumeDeletionKeeps ==
    ASSUME IInv, NEW o \in OpIds, ResumeDeletion(o)
    PROVE  IInv'
<1> USE DEF ResumeDeletion, budgets
<1>1. /\ op'[o] = [op[o] EXCEPT !.state = "pending"]
      /\ \A p \in OpIds \ {o} : op'[p] = op[p]
      /\ \A p \in OpIds \ {o} : job'[p] = job[p]
      /\ op[o].state \notin {"none", "completed"}
  BY DEF IInv, TypeOK
<1>2. TypeOK'
  <2>1. op' \in [OpIds -> [state : OpStates, scope : Scopes, item : [Artifacts -> ItemStates]]]
    BY DEF IInv, TypeOK, OpStates
  <2>2. job' \in [OpIds -> [active : BOOLEAN, owner : Executors \cup {NoExecutor}]]
    BY DEF IInv, TypeOK
  <2>3. QED
    BY <2>1, <2>2 DEF IInv, TypeOK
<1>3. /\ op'[o].state = "pending"
      /\ \A p \in OpIds : op'[p].scope = op[p].scope /\ op'[p].item = op[p].item
      /\ \A p \in OpIds : Items(p)' = Items(p)
  BY <1>1 DEF Items, IInv, TypeOK
<1>4. Onward
  BY <1>1, <1>3 DEF Onward
<1>5. CheckpointTruth'
  BY <1>3 DEF IInv, CheckpointTruth
<1>6. OneActiveDecision'
  BY <1>1, <1>3 DEF IInv, OneActiveDecision, OtherActive
<1>7. CompletedMeansGone'
  BY <1>1, <1>3 DEF IInv, CompletedMeansGone
<1>8. OnlyPreviewedBytes' /\ RemoverRequested'
  BY <1>1, <1>3 DEF IInv, OnlyPreviewedBytes, RemoverRequested
<1>9. ScopeFixed'
  BY <1>1, <1>3 DEF IInv, ScopeFixed
<1>10. JobRequested'
  BY <1>1, <1>3 DEF IInv, JobRequested
<1>11. WorkRequested'
  BY <1>4, OthersKeep DEF WorkRequested
<1>12. QED
  BY <1>2, <1>5, <1>6, <1>7, <1>8, <1>9, <1>10, <1>11, Assemble DEF TablesInv

\* An operator puts bytes back while nobody works; `restored` remembers it.
LEMMA RestoreObjectKeeps ==
    ASSUME IInv, NEW o \in OpIds, NEW a \in Artifacts, RestoreObject(o, a)
    PROVE  IInv'
<1> USE DEF RestoreObject
<1>1. TypeOK'
  BY DEF IInv, TypeOK
<1>2. CheckpointTruth' /\ OneActiveDecision'
  BY DEF IInv, CheckpointTruth, OneActiveDecision
<1>3. CompletedMeansGone'
  BY DEF IInv, CompletedMeansGone, Items
<1>4. OnlyPreviewedBytes' /\ RemoverRequested' /\ ScopeFixed'
  BY DEF IInv, OnlyPreviewedBytes, RemoverRequested, ScopeFixed, Items
<1>5. JobRequested' /\ WorkRequested'
  BY DEF IInv, JobRequested, WorkRequested, WorkOK
<1>6. QED
  BY <1>1, <1>2, <1>3, <1>4, <1>5, Assemble DEF TablesInv

\* The record of an executor stays well typed when a typed one replaces it.
RunType ==
    [pc : {"idle", "begin", "revalidate", "items", "deleting",
           "checkpoint", "mark", "report"},
     op : OpIds \cup {NoOp}, todo : SUBSET Artifacts,
     cur : Artifacts \cup {NoArtifact},
     want : {"none", "recovery", "failed"},
     item : Artifacts \cup {NoArtifact}, inTry : BOOLEAN]

\* Steps of an executor that leave the tables alone: what is left to show is
\* the new record of the executor.
LEMMA QuietStep ==
    ASSUME IInv, NEW e \in Executors,
           UNCHANGED <<tables, budgets, remover>>,
           run' = [run EXCEPT ![e] = run'[e]], run'[e] \in RunType, WorkOK(e)',
           job' \in [OpIds -> [active : BOOLEAN, owner : Executors \cup {NoExecutor}]],
           \A o \in OpIds : job'[o].active => job[o].active,
           faults' \in Nat
    PROVE  IInv'
<1> USE DEF tables, budgets
<1>1. TypeOK'
  BY DEF IInv, TypeOK, RunType
<1>2. TablesInv' /\ Onward
  BY TablesKeep
<1>3. JobRequested'
  BY DEF IInv, JobRequested
<1>4. WorkRequested'
  <2> SUFFICES ASSUME NEW x \in Executors PROVE WorkOK(x)'
    BY DEF WorkRequested
  <2>1. CASE x = e
    BY <2>1
  <2>2. CASE x # e
    <3>1. run'[x] = run[x]
      BY <2>2 DEF IInv, TypeOK
    <3>2. QED
      BY <1>2, <3>1, OthersKeep
  <2>3. QED
    BY <2>1, <2>2
<1>5. QED
  BY <1>1, <1>2, <1>3, <1>4, Assemble

\* A worker is handed the job of a requested operation.
LEMMA StartKeeps ==
    ASSUME IInv, NEW e \in Executors, NEW o \in OpIds, Start(e, o)
    PROVE  IInv'
<1> USE DEF Start
<1>1. run'[e] = [IdleRun EXCEPT !.pc = "begin", !.op = o]
  BY DEF IInv, TypeOK
<1>2. run' = [run EXCEPT ![e] = run'[e]] /\ run'[e] \in RunType
  BY <1>1 DEF IInv, TypeOK, RunType, IdleRun
<1>3. op[o].state # "none"
  BY DEF IInv, JobRequested
<1>4. WorkOK(e)'
  BY <1>1, <1>3 DEF WorkOK, IdleRun, tables
<1>5. job' \in [OpIds -> [active : BOOLEAN, owner : Executors \cup {NoExecutor}]]
  BY DEF IInv, TypeOK
<1>6. \A p \in OpIds : job'[p].active => job[p].active
  BY DEF IInv, TypeOK
<1>7. faults' \in Nat
  BY DEF IInv, TypeOK, SpendFault
<1>8. QED
  BY <1>2, <1>4, <1>5, <1>6, <1>7, QuietStep

\* The executor of a requested operation is its executor after it moved on.
LEMMA AtWork ==
    ASSUME IInv, NEW e \in Executors, run[e].pc # "idle"
    PROVE  /\ run[e] \in RunType
           /\ run[e].op \in OpIds
           /\ op[run[e].op].state # "none"
           /\ run[e].todo \subseteq Items(run[e].op)
           /\ run[e].pc \in {"deleting", "checkpoint"} => run[e].cur \in Items(run[e].op)
           /\ op[run[e].op] \in [state : OpStates, scope : Scopes, item : [Artifacts -> ItemStates]]
BY DEF IInv, TypeOK, WorkRequested, WorkOK, RunType

\* The document is loaded again; the loop starts with the operation's items.
LEMMA RevalidateKeeps ==
    ASSUME IInv, NEW e \in Executors, Revalidate(e)
    PROVE  IInv'
<1>1. run[e].pc = "revalidate"
  BY DEF Revalidate
<1>2. \/ run'[e] = [run[e] EXCEPT !.pc = "mark", !.want = "recovery", !.item = NoArtifact, !.inTry = FALSE]
      \/ run'[e] = [run[e] EXCEPT !.pc = "mark", !.want = "failed", !.item = NoArtifact, !.inTry = TRUE]
      \/ run'[e] = [run[e] EXCEPT !.pc = "items", !.todo = Items(run[e].op)]
  BY DEF IInv, TypeOK, Revalidate, MarkNext
<1>3. run'[e] \in RunType
  <2>1. run[e] \in RunType
    BY <1>1, AtWork
  <2>2. Items(run[e].op) \in SUBSET Artifacts
    BY DEF Items
  <2>3. QED
    BY <1>2, <2>1, <2>2 DEF RunType
<1>4. run' = [run EXCEPT ![e] = run'[e]]
  BY DEF IInv, TypeOK, Revalidate, MarkNext
<1>5. UNCHANGED <<tables, job, faults, budgets, remover>>
  BY DEF Revalidate
<1>6. WorkOK(e)'
  <2>1. /\ run'[e].op = run[e].op
        /\ run'[e].todo \subseteq Items(run[e].op)
        /\ run'[e].pc \in {"mark", "items"}
        /\ run'[e].pc = "mark" => run'[e].want # "none" /\ run'[e].item = NoArtifact
    BY <1>1, <1>2, AtWork DEF RunType
  <2>2. QED
    BY <1>5, <1>1, <2>1, AtWork DEF WorkOK, Items, tables
<1>7. QED
  BY <1>5, <1>3, <1>4, <1>6, QuietStep DEF IInv, TypeOK

\* Going on to _mark_outcome with the current item, or with none.
LEMMA MarkKeepsWork ==
    ASSUME IInv, NEW e \in Executors, run[e].pc # "idle",
           NEW s \in {"recovery", "failed"}, NEW t \in BOOLEAN,
           NEW a \in Items(run[e].op) \cup {NoArtifact},
           MarkNext(e, s, a, t), UNCHANGED op
    PROVE  /\ run' = [run EXCEPT ![e] = run'[e]]
           /\ run'[e] \in RunType
           /\ WorkOK(e)'
<1>1. run'[e] = [run[e] EXCEPT !.pc = "mark", !.want = s, !.item = a, !.inTry = t]
  BY DEF MarkNext, IInv, TypeOK
<1>2. run' = [run EXCEPT ![e] = run'[e]]
  BY DEF MarkNext, IInv, TypeOK
<1>3. run'[e] \in RunType
  BY <1>1, AtWork DEF RunType, Items
<1>4. /\ run'[e].op = run[e].op /\ run'[e].todo = run[e].todo
      /\ run'[e].pc = "mark" /\ run'[e].want = s /\ run'[e].item = a
  BY <1>1, AtWork DEF RunType
<1>5. WorkOK(e)'
  BY <1>4, AtWork DEF WorkOK, Items
<1>6. QED
  BY <1>2, <1>3, <1>5

\* The final transaction rolls back, or the try block is left by an exception.
LEMMA FailuresKeep ==
    ASSUME IInv, NEW e \in Executors, FinalizeBlocked(e) \/ Fails(e)
    PROVE  IInv'
<1> USE DEF FinalizeBlocked, Fails
<1>1. run[e].pc # "idle"
  OBVIOUS
<1>2. /\ run' = [run EXCEPT ![e] = run'[e]]
      /\ run'[e] \in RunType
      /\ WorkOK(e)'
  BY <1>1, MarkKeepsWork DEF tables
<1>3. faults' \in Nat
  <2>1. SpendFault
    OBVIOUS
  <2>2. faults \in Nat
    BY DEF IInv, TypeOK
  <2>3. QED
    BY <2>1, <2>2 DEF SpendFault
<1>4. QED
  BY <1>2, <1>3, QuietStep DEF IInv, TypeOK

\* The worker reports, or dies; the job is finished or left for another one.
LEMMA LeavingKeeps ==
    ASSUME IInv, NEW e \in Executors, Report(e) \/ Crash(e)
    PROVE  IInv'
<1> USE DEF Report, Crash
<1>1. run'[e] = IdleRun /\ run' = [run EXCEPT ![e] = run'[e]]
  BY DEF IInv, TypeOK
<1>2. run'[e] \in RunType /\ WorkOK(e)'
  BY <1>1 DEF IdleRun, RunType, WorkOK
<1>3. job' \in [OpIds -> [active : BOOLEAN, owner : Executors \cup {NoExecutor}]]
  <2>1. job \in [OpIds -> [active : BOOLEAN, owner : Executors \cup {NoExecutor}]]
    BY DEF IInv, TypeOK
  <2>2. CASE UNCHANGED job
    BY <2>1, <2>2
  <2>3. CASE job' # job
    <3>1. run[e].pc = "report" /\ job' = [job EXCEPT ![run[e].op].active = FALSE]
      BY <2>3
    <3>2. PICK o \in OpIds : o = run[e].op
      BY <3>1, AtWork
    <3>3. job' = [job EXCEPT ![o].active = FALSE]
      BY <3>1, <3>2
    <3>4. QED
      BY <2>1, <3>3
  <2>4. QED
    BY <2>2, <2>3
<1>4. \A p \in OpIds : job'[p].active => job[p].active
  BY DEF IInv, TypeOK
<1>5. faults' \in Nat
  BY DEF IInv, TypeOK, SpendFault
<1>6. QED
  BY <1>1, <1>2, <1>3, <1>4, <1>5, QuietStep

\* Steps of an executor that write its operation's row: what is left to show is
\* what the row may not lose and the new record of the executor.
LEMMA RowStep ==
    ASSUME IInv, NEW e \in Executors, NEW o \in OpIds, op[o].state # "none",
           UNCHANGED <<doc, evidence, artifact, object, job, faults, budgets, remover>>,
           op' = [op EXCEPT ![o] = op'[o]],
           op'[o] \in [state : OpStates, scope : Scopes, item : [Artifacts -> ItemStates]],
           op'[o].scope = op[o].scope,
           Items(o)' = Items(o),
           op'[o].state \notin {"none", "completed"} \/ op'[o].state = op[o].state,
           op'[o].state \in ActiveStates => op[o].state \in ActiveStates \/ ~OtherActive(o),
           \A a \in Artifacts : op'[o].item[a] = "completed" =>
                                    op[o].item[a] = "completed" \/ a \notin object,
           run' = [run EXCEPT ![e] = run'[e]], run'[e] \in RunType, WorkOK(e)'
    PROVE  IInv'
<1> USE DEF budgets
<1>1. TypeOK'
  BY DEF IInv, TypeOK, RunType
<1>2. \A p \in OpIds \ {o} : op'[p] = op[p]
  BY DEF IInv, TypeOK
<1>3. \A p \in OpIds : op'[p].scope = op[p].scope /\ Items(p)' = Items(p)
  BY <1>2 DEF Items
<1>4. \A p \in OpIds : op[p].state # "none" => op'[p].state # "none"
  BY <1>2
<1>5. Onward
  BY <1>3, <1>4 DEF Onward
<1>6. CheckpointTruth'
  BY <1>2 DEF IInv, CheckpointTruth
<1>7. OneActiveDecision'
  BY <1>2 DEF IInv, OneActiveDecision, OtherActive
<1>8. CompletedMeansGone'
  BY <1>2, <1>3 DEF IInv, CompletedMeansGone, ActiveStates
<1>9. OnlyPreviewedBytes' /\ RemoverRequested'
  BY <1>3, <1>4 DEF IInv, OnlyPreviewedBytes, RemoverRequested
<1>10. ScopeFixed'
  <2>1. \A p \in OpIds : op'[p].state # "none" => op[p].state # "none"
    BY <1>2
  <2>2. QED
    BY <1>3, <2>1 DEF IInv, ScopeFixed
<1>11. JobRequested'
  BY <1>4 DEF IInv, JobRequested
<1>12. WorkRequested'
  <2> SUFFICES ASSUME NEW x \in Executors PROVE WorkOK(x)'
    BY DEF WorkRequested
  <2>1. CASE x = e
    BY <2>1
  <2>2. CASE x # e
    <3>1. run'[x] = run[x]
      BY <2>2 DEF IInv, TypeOK
    <3>2. QED
      BY <1>5, <3>1, OthersKeep
  <2>3. QED
    BY <2>1, <2>2
<1>13. QED
  BY <1>1, <1>6, <1>7, <1>8, <1>9, <1>10, <1>11, <1>12, Assemble DEF TablesInv

\* Moving on without touching anything but the program counter.
LEMMA ContinueKeepsWork ==
    ASSUME IInv, NEW e \in Executors, run[e].pc # "idle",
           NEW next \in {"revalidate", "items", "report"}, Continue(e, next),
           NEW o \in OpIds, run[e].op = o,
           Items(o)' = Items(o), op'[o].state # "none"
    PROVE  /\ run' = [run EXCEPT ![e] = run'[e]]
           /\ run'[e] \in RunType
           /\ WorkOK(e)'
<1>1. run'[e] = [run[e] EXCEPT !.pc = next]
  BY DEF Continue, IInv, TypeOK
<1>2. run' = [run EXCEPT ![e] = run'[e]]
  BY DEF Continue, IInv, TypeOK
<1>3. run'[e] \in RunType
  BY <1>1, AtWork DEF RunType
<1>4. /\ run'[e].op = run[e].op /\ run'[e].todo = run[e].todo
      /\ run'[e].pc = next
  BY <1>1, AtWork DEF RunType
<1>5. Items(run[e].op)' = Items(o)
  BY <1>4 DEF Items
<1>6. WorkOK(e)'
  BY <1>4, <1>5, AtWork DEF WorkOK
<1>7. QED
  BY <1>2, <1>3, <1>6

\* First transaction: the operation becomes executing unless the constraint
\* refuses it.
LEMMA BeginKeeps ==
    ASSUME IInv, NEW e \in Executors, Begin(e)
    PROVE  IInv'
<1>1. run[e].pc = "begin"
  BY DEF Begin
<1>0. PICK o \in OpIds : o = run[e].op
  BY <1>1, AtWork
<1>2. op[o].state # "none"
      /\ op[o] \in [state : OpStates, scope : Scopes, item : [Artifacts -> ItemStates]]
  BY <1>0, <1>1, AtWork
<1>3. CASE op[o].state = "completed" \/ OtherActive(o)
  <2>1. Continue(e, "report") /\ UNCHANGED <<tables, job, faults, budgets, remover>>
    BY <1>0, <1>3 DEF Begin, tables
  <2>2. Items(o)' = Items(o) /\ op'[o].state # "none"
    BY <1>2, <2>1 DEF Items, tables
  <2>3. run' = [run EXCEPT ![e] = run'[e]] /\ run'[e] \in RunType /\ WorkOK(e)'
    BY <1>0, <1>1, <2>1, <2>2, ContinueKeepsWork
  <2>4. QED
    BY <2>1, <2>3, QuietStep DEF IInv, TypeOK
<1>4. CASE ~(op[o].state = "completed" \/ OtherActive(o))
  <2>1. /\ Continue(e, "revalidate")
        /\ op' = [op EXCEPT ![o].state = "executing"]
        /\ UNCHANGED <<doc, evidence, artifact, object, job, faults, budgets, remover>>
    BY <1>0, <1>4 DEF Begin
  <2>2. /\ op'[o] = [op[o] EXCEPT !.state = "executing"]
        /\ op' = [op EXCEPT ![o] = op'[o]]
    BY <1>2, <2>1 DEF IInv, TypeOK
  <2>3. /\ op'[o].state = "executing" /\ op'[o].scope = op[o].scope /\ op'[o].item = op[o].item
        /\ op'[o] \in [state : OpStates, scope : Scopes, item : [Artifacts -> ItemStates]]
    BY <1>2, <2>2 DEF OpStates
  <2>4. Items(o)' = Items(o)
    BY <2>3 DEF Items
  <2>5. run' = [run EXCEPT ![e] = run'[e]] /\ run'[e] \in RunType /\ WorkOK(e)'
    BY <1>0, <1>1, <2>1, <2>3, <2>4, ContinueKeepsWork
  <2>6. QED
    BY <1>2, <1>4, <2>1, <2>2, <2>3, <2>4, <2>5, RowStep
<1>5. QED
  BY <1>3, <1>4

\* Only the last write of a removal marks an item completed.
LEMMA ClaimItemKeeps ==
    ASSUME IInv, NEW e \in Executors, ClaimItem(e)
    PROVE  IInv'
<1>1. run[e].pc = "items" /\ run[e].todo # {}
  BY DEF ClaimItem
<1>0. PICK o \in OpIds : o = run[e].op
  BY <1>1, AtWork
<1>2. op[o].state # "none" /\ run[e] \in RunType
      /\ op[o] \in [state : OpStates, scope : Scopes, item : [Artifacts -> ItemStates]]
      /\ run[e].todo \subseteq Items(o)
  BY <1>0, <1>1, AtWork
<1>3. PICK a \in run[e].todo : a = First(run[e].todo) /\ a \in Items(o) /\ a \in Artifacts
  <2>1. run[e].todo \in SUBSET Artifacts
    BY <1>2 DEF RunType
  <2>2. First(run[e].todo) \in run[e].todo
    BY <1>1, <2>1, FirstIsMember
  <2>3. QED
    BY <1>2, <2>1, <2>2
<1>4. CASE op[o].item[a] = "completed"
  <2>1. run' = [run EXCEPT ![e].todo = @ \ {a}] /\ UNCHANGED <<tables, job, faults, budgets, remover>>
    BY <1>0, <1>3, <1>4 DEF ClaimItem, tables
  <2>2. run'[e] = [run[e] EXCEPT !.todo = @ \ {a}] /\ run' = [run EXCEPT ![e] = run'[e]]
    BY <2>1 DEF IInv, TypeOK
  <2>3. run'[e] \in RunType /\ run'[e].op = o /\ run'[e].pc = "items"
        /\ run'[e].todo \subseteq run[e].todo
    BY <1>0, <1>1, <1>2, <2>2 DEF RunType
  <2>4. WorkOK(e)'
    BY <1>2, <2>1, <2>3 DEF WorkOK, Items, tables
  <2>5. QED
    BY <2>1, <2>2, <2>3, <2>4, QuietStep DEF IInv, TypeOK
<1>5. CASE op[o].item[a] # "completed"
  <2>1. /\ run' = [run EXCEPT ![e].pc = "deleting", ![e].cur = a, ![e].todo = @ \ {a}]
        /\ op' = [op EXCEPT ![o].item[a] = "running"]
        /\ UNCHANGED <<doc, evidence, artifact, object, job, faults, budgets, remover>>
    BY <1>0, <1>3, <1>5 DEF ClaimItem
  <2>2. run'[e] = [run[e] EXCEPT !.pc = "deleting", !.cur = a, !.todo = run[e].todo \ {a}]
    BY <2>1 DEF IInv, TypeOK
  <2>3. /\ run' = [run EXCEPT ![e] = run'[e]]
        /\ run'[e] \in RunType
        /\ run'[e].op = o /\ run'[e].pc = "deleting" /\ run'[e].cur = a
        /\ run'[e].todo \subseteq run[e].todo
    <3>1. run' = [run EXCEPT ![e] = run'[e]]
      BY <2>1 DEF IInv, TypeOK
    <3>2. run[e].todo \ {a} \in SUBSET Artifacts /\ run[e].todo \ {a} \subseteq run[e].todo
      BY <1>2 DEF RunType
    <3>3. PICK t \in SUBSET Artifacts : t = run[e].todo \ {a}
      BY <3>2
    <3>4. run'[e] = [run[e] EXCEPT !.pc = "deleting", !.cur = a, !.todo = t]
      BY <2>2, <3>3
    <3>5. run'[e] \in RunType
      BY <1>2, <1>3, <3>4 DEF RunType
    <3>6. run'[e].op = o /\ run'[e].pc = "deleting" /\ run'[e].cur = a /\ run'[e].todo = t
      BY <1>0, <1>2, <3>4 DEF RunType
    <3>7. QED
      BY <3>1, <3>2, <3>3, <3>5, <3>6
  <2>4. op'[o] = [op[o] EXCEPT !.item = [op[o].item EXCEPT ![a] = "running"]]
    BY <1>2, <2>1 DEF IInv, TypeOK
  <2>5. /\ op' = [op EXCEPT ![o] = op'[o]]
        /\ op'[o].state = op[o].state /\ op'[o].scope = op[o].scope
        /\ op'[o].item = [op[o].item EXCEPT ![a] = "running"]
    BY <1>2, <2>1, <2>4 DEF IInv, TypeOK
  <2>6. op'[o] \in [state : OpStates, scope : Scopes, item : [Artifacts -> ItemStates]]
    BY <1>2, <1>3, <2>4 DEF ItemStates
  <2>7. \A b \in Artifacts : op'[o].item[b] = IF b = a THEN "running" ELSE op[o].item[b]
    BY <1>2, <1>3, <2>5
  <2>8. Items(o)' = Items(o)
    BY <1>3, <2>7 DEF Items
  <2>9. WorkOK(e)'
    <3>1. Items(run[e].op)' = Items(o)
      BY <2>3, <2>8 DEF Items
    <3>2. QED
      BY <1>2, <1>3, <2>3, <2>5, <3>1 DEF WorkOK
  <2>10. \A b \in Artifacts : op'[o].item[b] = "completed" => op[o].item[b] = "completed"
    BY <2>7
  <2>11. UNCHANGED <<doc, evidence, artifact, object, job, faults, budgets, remover>>
    BY <2>1
  <2>12. op' = [op EXCEPT ![o] = op'[o]]
    BY <2>5
  <2>13. op'[o].scope = op[o].scope /\ op'[o].state = op[o].state
    BY <2>5
  <2>14. QED
    BY <1>2, <2>3, <2>6, <2>8, <2>9, <2>10, <2>11, <2>12, <2>13, RowStep
<1>6. QED
  BY <1>4, <1>5

\* The last transaction of _process_artifact follows the removal.
LEMMA CheckpointKeeps ==
    ASSUME IInv, NEW e \in Executors, Checkpoint(e)
    PROVE  IInv'
<1>1. run[e].pc = "checkpoint"
  BY DEF Checkpoint
<1>2. PICK o \in OpIds : o = run[e].op
  BY <1>1, AtWork
<1>3. PICK a \in Artifacts : a = run[e].cur /\ a \in Items(o)
  BY <1>1, <1>2, AtWork DEF Items
<1>4. /\ a \notin object
      /\ op[o].state # "none"
      /\ op[o] \in [state : OpStates, scope : Scopes, item : [Artifacts -> ItemStates]]
  BY <1>1, <1>2, <1>3, AtWork DEF IInv, WorkRequested, WorkOK
<1>5. /\ op' = [op EXCEPT ![o].item[a] = "completed"]
      /\ Continue(e, "items")
  BY <1>2, <1>3 DEF Checkpoint
<1>6. UNCHANGED <<doc, evidence, artifact, object, job, faults, budgets, remover>>
  BY DEF Checkpoint
<1>7. op'[o] = [op[o] EXCEPT !.item = [op[o].item EXCEPT ![a] = "completed"]]
  BY <1>4, <1>5 DEF IInv, TypeOK
<1>8. op' = [op EXCEPT ![o] = op'[o]]
  BY <1>4, <1>5, <1>7 DEF IInv, TypeOK
<1>9. /\ op'[o].state = op[o].state
      /\ op'[o].scope = op[o].scope
      /\ \A b \in Artifacts : op'[o].item[b] = IF b = a THEN "completed" ELSE op[o].item[b]
  BY <1>4, <1>7
<1>10. op'[o] \in [state : OpStates, scope : Scopes, item : [Artifacts -> ItemStates]]
  BY <1>4, <1>7 DEF ItemStates
<1>11. Items(o)' = Items(o)
  BY <1>3, <1>9 DEF Items
<1>12. run' = [run EXCEPT ![e] = run'[e]] /\ run'[e] \in RunType /\ WorkOK(e)'
  <2>1. op'[o].state # "none" /\ run[e].pc # "idle" /\ run[e].op = o
    BY <1>1, <1>2, <1>4, <1>9
  <2>2. QED
    BY <1>5, <1>11, <2>1, ContinueKeepsWork
<1>13. \A b \in Artifacts : op'[o].item[b] = "completed" => op[o].item[b] = "completed" \/ b \notin object
  BY <1>4, <1>9
<1>14. op'[o].scope = op[o].scope /\ op'[o].state = op[o].state /\ op[o].state # "none"
  BY <1>4, <1>9
<1>15. QED
  BY <1>6, <1>8, <1>10, <1>11, <1>12, <1>13, <1>14, RowStep

\* Steps that remove the bytes of an item of the executor's operation.
LEMMA RemovalStep ==
    ASSUME IInv, NEW e \in Executors, NEW o \in OpIds, op[o].state # "none",
           NEW a \in Items(o),
           object' = object \ {a}, remover' = [remover EXCEPT ![a] = o],
           UNCHANGED <<doc, evidence, artifact, op, job, budgets>>, faults' \in Nat,
           run' = [run EXCEPT ![e] = run'[e]], run'[e] \in RunType, WorkOK(e)'
    PROVE  IInv'
<1> USE DEF budgets
<1>1. a \in Artifacts /\ \A b \in Artifacts : remover'[b] = IF b = a THEN o ELSE remover[b]
  BY DEF Items, IInv, TypeOK
<1>2. TypeOK'
  BY <1>1 DEF IInv, TypeOK, RunType
<1>3. Onward
  BY DEF Onward, Items
<1>4. CheckpointTruth' /\ OneActiveDecision' /\ ScopeFixed' /\ JobRequested'
  BY DEF IInv, CheckpointTruth, OneActiveDecision, ScopeFixed, JobRequested, Items
<1>5. CompletedMeansGone'
  BY DEF IInv, CompletedMeansGone, Items
<1>6. RemoverRequested'
  BY <1>1 DEF IInv, RemoverRequested
<1>7. OnlyPreviewedBytes'
  <2>1. a \in op[o].scope.evidence /\ op[o].scope.doc = "persisted" /\ o # NoOp
    BY DEF IInv, ScopeFixed, OpIds, NoOp
  <2>2. QED
    BY <1>1, <2>1 DEF IInv, OnlyPreviewedBytes
<1>8. WorkRequested'
  <2> SUFFICES ASSUME NEW x \in Executors PROVE WorkOK(x)'
    BY DEF WorkRequested
  <2>1. CASE x = e
    BY <2>1
  <2>2. CASE x # e
    <3>1. run'[x] = run[x]
      BY <2>2 DEF IInv, TypeOK
    <3>2. QED
      BY <1>3, <3>1, OthersKeep
  <2>3. QED
    BY <2>1, <2>2
<1>9. QED
  BY <1>2, <1>4, <1>5, <1>6, <1>7, <1>8, Assemble DEF TablesInv

\* delete_for_deletion removes the bytes of the item, fails before, or fails
\* after it removed them.
LEMMA DeleteKeeps ==
    ASSUME IInv, NEW e \in Executors, DeleteObject(e) \/ DeleteObjectFails(e)
    PROVE  IInv'
<1>1. run[e].pc = "deleting"
  BY DEF DeleteObject, DeleteObjectFails
<1>2. PICK o \in OpIds : o = run[e].op
  BY <1>1, AtWork
<1>3. PICK a \in Items(o) : a = run[e].cur
  BY <1>1, <1>2, AtWork
<1>4. op[o].state # "none" /\ UNCHANGED <<doc, evidence, artifact, op, job, budgets>>
  BY <1>1, <1>2, AtWork DEF DeleteObject, DeleteObjectFails
<1>5. faults' \in Nat
  <2>1. faults \in Nat
    BY DEF IInv, TypeOK
  <2>2. faults' = faults \/ SpendFault
    BY DEF DeleteObject, DeleteObjectFails
  <2>3. QED
    BY <2>1, <2>2 DEF SpendFault
<1>6. \/ UNCHANGED <<object, remover>>
      \/ object' = object \ {a} /\ remover' = [remover EXCEPT ![a] = o]
  BY <1>2, <1>3 DEF DeleteObject, DeleteObjectFails
<1>7. run' = [run EXCEPT ![e] = run'[e]] /\ run'[e] \in RunType /\ WorkOK(e)'
  <2>1. CASE MarkNext(e, "recovery", a, TRUE)
    BY <1>1, <1>2, <1>3, <1>4, <2>1, MarkKeepsWork
  <2>2. CASE Continue(e, "checkpoint") /\ object' = object \ {a}
    <3>1. run'[e] = [run[e] EXCEPT !.pc = "checkpoint"] /\ run' = [run EXCEPT ![e] = run'[e]]
      BY <2>2 DEF Continue, IInv, TypeOK
    <3>2. run[e] \in RunType
      BY <1>1, AtWork
    <3>3. run'[e] \in RunType
      BY <3>1, <3>2 DEF RunType
    <3>4. /\ run'[e].op = o /\ run'[e].todo = run[e].todo
          /\ run'[e].pc = "checkpoint" /\ run'[e].cur = a
      BY <1>2, <1>3, <3>1, <3>2 DEF RunType
    <3>5. WorkOK(e)'
      BY <1>1, <1>2, <1>4, <2>2, <3>4, AtWork DEF WorkOK, Items
    <3>6. QED
      BY <3>1, <3>3, <3>5
  <2>3. QED
    BY <1>3, <2>1, <2>2 DEF DeleteObject, DeleteObjectFails
<1>8. CASE UNCHANGED <<object, remover>>
  <2>1. UNCHANGED <<tables, budgets, remover>> /\ UNCHANGED job
    BY <1>4, <1>8 DEF tables
  <2>2. QED
    BY <1>5, <1>7, <2>1, QuietStep DEF IInv, TypeOK
<1>9. CASE object' = object \ {a} /\ remover' = [remover EXCEPT ![a] = o]
  BY <1>4, <1>5, <1>7, <1>9, RemovalStep
<1>10. QED
  BY <1>6, <1>8, <1>9

\* _finalize_relational: rows, items and operation change together, after every
\* checkpoint is set.
LEMMA FinalizeRelationalKeeps ==
    ASSUME IInv, NEW e \in Executors, FinalizeRelational(e)
    PROVE  IInv'
<1>1. run[e].pc = "items"
  BY DEF FinalizeRelational
<1>2. PICK o \in OpIds : o = run[e].op
  BY <1>1, AtWork
<1>3. /\ op[o].state # "none"
      /\ op[o] \in [state : OpStates, scope : Scopes, item : [Artifacts -> ItemStates]]
  BY <1>1, <1>2, AtWork
<1>4. CASE doc = "deleted" \/ \E a \in Items(o) : op[o].item[a] # "completed"
  <2>1. MarkNext(e, "recovery", NoArtifact, FALSE) /\ UNCHANGED <<tables, job, faults, budgets, remover>>
    BY <1>2, <1>4 DEF FinalizeRelational, tables
  <2>2. run' = [run EXCEPT ![e] = run'[e]] /\ run'[e] \in RunType /\ WorkOK(e)'
    BY <1>1, <2>1, MarkKeepsWork DEF tables
  <2>3. QED
    BY <2>1, <2>2, QuietStep DEF IInv, TypeOK
<1>5. CASE ~(doc = "deleted" \/ \E a \in Items(o) : op[o].item[a] # "completed")
  <2>1. /\ doc' = "deleted" /\ evidence' = {} /\ artifact' = artifact \ Items(o)
        /\ op' = [op EXCEPT ![o].state = "completed"]
        /\ Continue(e, "report")
        /\ UNCHANGED <<object, job, faults, budgets, remover>>
    BY <1>2, <1>5 DEF FinalizeRelational
  <2>2. op'[o] = [op[o] EXCEPT !.state = "completed"]
    BY <2>1 DEF IInv, TypeOK
  <2>3. /\ op'[o].state = "completed" /\ op'[o].scope = op[o].scope /\ op'[o].item = op[o].item
        /\ op'[o] \in [state : OpStates, scope : Scopes, item : [Artifacts -> ItemStates]]
    BY <1>3, <2>2 DEF OpStates
  <2>4. \A p \in OpIds \ {o} : op'[p] = op[p]
    BY <2>1 DEF IInv, TypeOK
  <2>5. \A p \in OpIds : Items(p)' = Items(p) /\ op'[p].scope = op[p].scope /\ op'[p].item = op[p].item
    BY <2>3, <2>4 DEF Items
  <2>6. Onward
    BY <2>3, <2>4, <2>5 DEF Onward
  <2>7. run' = [run EXCEPT ![e] = run'[e]] /\ run'[e] \in RunType /\ WorkOK(e)'
    <3>1. run[e].pc # "idle" /\ run[e].op = o /\ Items(o)' = Items(o) /\ op'[o].state # "none"
      BY <1>1, <1>2, <2>3, <2>5
    <3>2. QED
      BY <2>1, <3>1, ContinueKeepsWork
  <2>8. TypeOK'
    <3>1. op' \in [OpIds -> [state : OpStates, scope : Scopes, item : [Artifacts -> ItemStates]]]
      BY <2>1, <2>3, <2>4 DEF IInv, TypeOK
    <3>2. QED
      BY <2>1, <2>7, <3>1 DEF IInv, TypeOK, RunType, budgets
  <2>9. CheckpointTruth'
    BY <2>1, <2>5 DEF IInv, CheckpointTruth, budgets
  <2>10. OneActiveDecision'
    BY <2>3, <2>4 DEF IInv, OneActiveDecision, ActiveStates
  <2>11. CompletedMeansGone'
    <3> SUFFICES ASSUME NEW p \in OpIds, op'[p].state = "completed"
                 PROVE  Items(p)' \cap (artifact' \cup (object' \ restored')) = {}
      BY <2>1 DEF CompletedMeansGone
    <3>1. p = o
      BY <1>5, <2>4 DEF IInv, CompletedMeansGone
    <3>2. Items(o) \cap (object \ restored) = {}
      BY <1>5 DEF IInv, CheckpointTruth, Items
    <3>3. Items(o) \cap (artifact \ Items(o)) = {}
      OBVIOUS
    <3>4. QED
      BY <2>1, <2>5, <3>1, <3>2, <3>3 DEF budgets
  <2>12. OnlyPreviewedBytes' /\ RemoverRequested'
    BY <2>1, <2>3, <2>4, <2>5 DEF IInv, OnlyPreviewedBytes, RemoverRequested
  <2>13. ScopeFixed'
    BY <1>3, <2>1, <2>4, <2>5 DEF IInv, ScopeFixed
  <2>14. JobRequested'
    BY <2>1, <2>3, <2>4 DEF IInv, JobRequested
  <2>15. WorkRequested'
    <3> SUFFICES ASSUME NEW x \in Executors PROVE WorkOK(x)'
      BY DEF WorkRequested
    <3>1. CASE x = e
      BY <2>7, <3>1
    <3>2. CASE x # e
      <4>1. run'[x] = run[x]
        BY <2>7, <3>2 DEF IInv, TypeOK
      <4>2. QED
        BY <2>1, <2>6, <4>1, OthersKeep
    <3>3. QED
      BY <3>1, <3>2
  <2>16. QED
    BY <2>8, <2>9, <2>10, <2>11, <2>12, <2>13, <2>14, <2>15, Assemble DEF TablesInv
<1>6. QED
  BY <1>4, <1>5

\* _mark_outcome overwrites the state of the operation and of one of its items.
LEMMA MarkOutcomeKeeps ==
    ASSUME IInv, NEW e \in Executors, MarkOutcome(e)
    PROVE  IInv'
<1>1. run[e].pc = "mark"
  BY DEF MarkOutcome
<1>2. PICK o \in OpIds : o = run[e].op
  BY <1>1, AtWork
<1>3. /\ op[o].state # "none"
      /\ op[o] \in [state : OpStates, scope : Scopes, item : [Artifacts -> ItemStates]]
  BY <1>1, <1>2, AtWork
<1>4. PICK w \in {"recovery", "failed"} : w = run[e].want
  BY <1>1 DEF IInv, TypeOK, WorkRequested, WorkOK
<1>5. PICK i \in Items(o) \cup {NoArtifact} : i = run[e].item
  BY <1>1, <1>2 DEF IInv, WorkRequested, WorkOK
<1>6. CASE w = "recovery" /\ OtherActive(o)
  <2>1. /\ MarkNext(e, "failed", NoArtifact, FALSE) \/ Continue(e, "report")
        /\ UNCHANGED <<tables, job, faults, budgets, remover>>
    BY <1>2, <1>4, <1>6 DEF MarkOutcome, tables
  <2>2. run' = [run EXCEPT ![e] = run'[e]] /\ run'[e] \in RunType /\ WorkOK(e)'
    <3>1. UNCHANGED op /\ Items(o)' = Items(o) /\ op'[o].state # "none" /\ run[e].op = o
      BY <1>2, <1>3, <2>1 DEF tables, Items
    <3>2. CASE MarkNext(e, "failed", NoArtifact, FALSE)
      BY <1>1, <3>1, <3>2, MarkKeepsWork
    <3>3. CASE Continue(e, "report")
      BY <1>1, <3>1, <3>3, ContinueKeepsWork
    <3>4. QED
      BY <2>1, <3>2, <3>3
  <2>3. QED
    BY <2>1, <2>2, QuietStep DEF IInv, TypeOK
<1>7. CASE ~(w = "recovery" /\ OtherActive(o))
  <2>1. /\ op' = [op EXCEPT ![o].state = w,
                            ![o].item = [a \in Artifacts |-> IF a = i THEN w ELSE op[o].item[a]]]
        /\ Continue(e, "report")
    BY <1>2, <1>4, <1>5, <1>7 DEF MarkOutcome
  <2>2. UNCHANGED <<doc, evidence, artifact, object, job, faults, budgets, remover>>
    BY DEF MarkOutcome
  <2>3. op'[o] = [op[o] EXCEPT !.state = w,
                               !.item = [a \in Artifacts |-> IF a = i THEN w ELSE op[o].item[a]]]
    BY <2>1 DEF IInv, TypeOK
  <2>4. op' = [op EXCEPT ![o] = op'[o]]
    BY <2>1, <2>3 DEF IInv, TypeOK
  <2>5. [a \in Artifacts |-> IF a = i THEN w ELSE op[o].item[a]] \in [Artifacts -> ItemStates]
    BY <1>3 DEF ItemStates
  <2>6. /\ op'[o] \in [state : OpStates, scope : Scopes, item : [Artifacts -> ItemStates]]
        /\ op'[o].state = w
        /\ op'[o].scope = op[o].scope
        /\ op'[o].item = [a \in Artifacts |-> IF a = i THEN w ELSE op[o].item[a]]
    BY <1>3, <2>3, <2>5 DEF OpStates
  <2>7. \A b \in Artifacts : op'[o].item[b] = IF b = i THEN w ELSE op[o].item[b]
    BY <2>6
  <2>8. Items(o)' = Items(o)
    BY <1>5, <2>7, ArtifactAssumption DEF Items
  <2>9. \A b \in Artifacts : op'[o].item[b] = "completed" => op[o].item[b] = "completed"
    BY <2>7
  <2>10. op'[o].state \in ActiveStates => ~OtherActive(o)
    BY <1>7, <2>6 DEF ActiveStates
  <2>11. run' = [run EXCEPT ![e] = run'[e]] /\ run'[e] \in RunType /\ WorkOK(e)'
    <3>1. op'[o].state # "none" /\ run[e].pc # "idle" /\ run[e].op = o
      BY <1>1, <1>2, <2>6
    <3>2. QED
      BY <2>1, <2>8, <3>1, ContinueKeepsWork
  <2>12. /\ op'[o] \in [state : OpStates, scope : Scopes, item : [Artifacts -> ItemStates]]
         /\ op'[o].state \notin {"none", "completed"}
         /\ op'[o].scope = op[o].scope
    BY <2>6
  <2>13. QED
    BY <1>3, <2>2, <2>4, <2>8, <2>9, <2>10, <2>11, <2>12, RowStep
<1>8. QED
  BY <1>6, <1>7

\* Every step keeps the invariant.
LEMMA NextKeeps ==
    ASSUME IInv, [Next]_vars
    PROVE  IInv'
<1>1. CASE \E a \in Artifacts, c \in BOOLEAN : Attach(a, c)
  BY <1>1, AttachKeeps
<1>2. CASE \E o \in OpIds : RequestDeletion(o) \/ ResumeDeletion(o)
  BY <1>2, RequestDeletionKeeps, ResumeDeletionKeeps
<1>3. CASE \E o \in OpIds, a \in Artifacts : RestoreObject(o, a)
  BY <1>3, RestoreObjectKeeps
<1>4. CASE \E e \in Executors, o \in OpIds : Start(e, o)
  BY <1>4, StartKeeps
<1>5. CASE \E e \in Executors : ExecutorStep(e)
  BY <1>5, BeginKeeps, RevalidateKeeps, ClaimItemKeeps, DeleteKeeps, CheckpointKeeps,
     FinalizeRelationalKeeps, MarkOutcomeKeeps, LeavingKeeps DEF ExecutorStep
<1>6. CASE \E e \in Executors : Fault(e)
  BY <1>6, DeleteKeeps, FailuresKeep, LeavingKeeps DEF Fault
<1>7. CASE UNCHANGED vars
  <2>1. /\ doc' = doc /\ evidence' = evidence /\ artifact' = artifact /\ object' = object
        /\ op' = op /\ job' = job /\ run' = run /\ faults' = faults /\ resumes' = resumes
        /\ restores' = restores /\ remover' = remover /\ restored' = restored
    BY <1>7 DEF vars
  <2>2. TypeOK'
    BY <2>1 DEF IInv, TypeOK
  <2>3. TablesInv' /\ JobRequested'
    BY <2>1, TablesKeep DEF IInv, JobRequested
  <2>4. WorkRequested'
    BY <2>1 DEF IInv, WorkRequested, WorkOK, Items
  <2>5. QED
    BY <2>2, <2>3, <2>4, Assemble
<1>8. QED
  BY <1>1, <1>2, <1>3, <1>4, <1>5, <1>6, <1>7 DEF Next

\* The initial state satisfies it.
LEMMA InitHolds == Init => IInv
<1> SUFFICES ASSUME Init PROVE IInv
  OBVIOUS
<1>1. TypeOK
  <2>1. op \in [OpIds -> [state : OpStates, scope : Scopes, item : [Artifacts -> ItemStates]]]
    BY DEF Init, NewOp, OpStates, Scopes, ItemStates
  <2>2. QED
    BY <2>1, ArtifactAssumption DEF Init, TypeOK, IdleRun
<1>2. \A o \in OpIds : op[o].state = "none" /\ \A a \in Artifacts : op[o].item[a] = "none"
  BY DEF Init, NewOp
<1>3. CheckpointTruth /\ OneActiveDecision /\ CompletedMeansGone /\ ScopeFixed
  BY <1>2 DEF CheckpointTruth, OneActiveDecision, CompletedMeansGone, ScopeFixed, ActiveStates
<1>4. OnlyPreviewedBytes /\ RemoverRequested
  BY DEF Init, OnlyPreviewedBytes, RemoverRequested
<1>5. JobRequested /\ WorkRequested
  BY DEF Init, JobRequested, WorkRequested, WorkOK, IdleRun
<1>6. QED
  BY <1>1, <1>3, <1>4, <1>5 DEF IInv

\* The invariant holds whatever dies, is resumed, restored or decided again
\* (execute_deletion, request_deletion).
THEOREM InvariantHolds == Spec => []IInv
<1>1. Init => IInv
  BY InitHolds
<1>2. IInv /\ [Next]_vars => IInv'
  BY NextKeeps
<1>3. QED
  BY <1>1, <1>2, PTL DEF Spec

----------------------------------------------------------------------------
(* What follows from it.                                                   *)

\* _process_artifact: a checkpoint never lies, for every interleaving of
\* executors, crashes and resumes.
THEOREM SagaInvHolds == Spec => []SagaInv
<1>1. IInv => SagaInv
  BY DEF IInv, CheckpointTruth, SagaInv
<1>2. QED
  BY <1>1, InvariantHolds, PTL

\* _finalize_relational: a completed operation left no row and no bytes.
THEOREM CompletedMeansGoneHolds == Spec => []CompletedMeansGone
<1>1. IInv => CompletedMeansGone
  BY DEF IInv
<1>2. QED
  BY <1>1, InvariantHolds, PTL

\* The partial unique constraint: one active decision on the document.
THEOREM OneActiveDecisionHolds == Spec => []OneActiveDecision
<1>1. IInv => OneActiveDecision
  BY DEF IInv
<1>2. QED
  BY <1>1, InvariantHolds, PTL

\* delete_for_deletion destroys nothing the preview did not show.
THEOREM OnlyPreviewedBytesHolds == Spec => []OnlyPreviewedBytes
<1>1. IInv => OnlyPreviewedBytes
  BY DEF IInv
<1>2. QED
  BY <1>1, InvariantHolds, PTL

\* An operation whose preview is out of date, and whose executors have not got
\* past the comparison of execute_deletion.
Outdated(o) ==
    /\ op[o].state \notin {"none", "completed"}
    /\ Scope # op[o].scope
    /\ \A e \in Executors : run[e].pc # "idle" /\ run[e].op = o =>
            run[e].pc \in {"begin", "revalidate", "mark", "report"}

\* What a step does to the row of an operation that exists: the preview stays,
\* and only the final transaction of one of its executors completes it.
LEMMA RowMoves ==
    ASSUME IInv, [Next]_vars, NEW o \in OpIds, op[o].state # "none"
    PROVE  /\ op'[o].scope = op[o].scope
           /\ \/ op'[o].state = op[o].state
              \/ op'[o].state \in {"pending", "executing", "recovery", "failed"}
              \/ \E e \in Executors : run[e].pc = "items" /\ run[e].op = o
<1>1. CASE op' = op
  BY <1>1
<1>2. ASSUME NEW p \in OpIds, RequestDeletion(p) \/ ResumeDeletion(p)
      PROVE  op'[o].scope = op[o].scope /\ op'[o].state \in {op[o].state, "pending"}
  <2>1. CASE RequestDeletion(p)
    <3>1. o # p
      BY <2>1 DEF RequestDeletion
    <3>2. op'[o] = op[o]
      BY <2>1, <3>1 DEF RequestDeletion, IInv, TypeOK
    <3>3. QED
      BY <3>2
  <2>2. CASE ResumeDeletion(p)
    BY <2>2 DEF ResumeDeletion, IInv, TypeOK
  <2>3. QED
    BY <1>2, <2>1, <2>2
<1>3. CASE \E e \in Executors : Begin(e) \/ Checkpoint(e)
  BY <1>3 DEF Begin, Checkpoint, IInv, TypeOK
<1>4. ASSUME NEW e \in Executors, ClaimItem(e), op' # op
      PROVE  op'[o].scope = op[o].scope /\ op'[o].state = op[o].state
  <2>1. PICK p, a : op' = [op EXCEPT ![p].item[a] = "running"]
    BY <1>4 DEF ClaimItem
  <2>2. op'[o] = op[o] \/ op'[o] = [op[o] EXCEPT !.item = [op[o].item EXCEPT ![a] = "running"]]
    BY <2>1 DEF IInv, TypeOK
  <2>3. QED
    BY <2>2 DEF IInv, TypeOK
<1>5. ASSUME NEW e \in Executors, FinalizeRelational(e), op' # op
      PROVE  op'[o].scope = op[o].scope /\ (op'[o].state = op[o].state \/ (run[e].pc = "items" /\ run[e].op = o))
  <2>1. PICK p : p = run[e].op /\ run[e].pc = "items" /\ op' = [op EXCEPT ![p].state = "completed"]
    BY <1>5 DEF FinalizeRelational
  <2>2. op'[o] = op[o] \/ (p = o /\ op'[o] = [op[o] EXCEPT !.state = "completed"])
    BY <2>1 DEF IInv, TypeOK
  <2>3. op[o] \in [state : OpStates, scope : Scopes, item : [Artifacts -> ItemStates]]
    BY DEF IInv, TypeOK
  <2>4. p = run[e].op /\ run[e].pc = "items"
    BY <2>1
  <2>5. op'[o].scope = op[o].scope
    BY <2>2, <2>3
  <2>6. QED
    BY <2>2, <2>4, <2>5
<1>6. ASSUME NEW e \in Executors, MarkOutcome(e), op' # op
      PROVE  op'[o].scope = op[o].scope /\ op'[o].state \in {op[o].state, "recovery", "failed"}
  <2>1. PICK p \in OpIds : p = run[e].op
    BY <1>6, AtWork DEF MarkOutcome
  <2>2. PICK w \in {"recovery", "failed"} : w = run[e].want
    BY <1>6 DEF MarkOutcome, IInv, TypeOK, WorkRequested, WorkOK
  <2>3. PICK f : op' = [op EXCEPT ![p].state = w, ![p].item = f]
    BY <1>6, <2>1, <2>2 DEF MarkOutcome
  <2>4. op'[o] = op[o] \/ (o = p /\ op'[o] = [op[o] EXCEPT !.state = w, !.item = f])
    BY <2>3 DEF IInv, TypeOK
  <2>5. op[o] \in [state : OpStates, scope : Scopes, item : [Artifacts -> ItemStates]]
    BY DEF IInv, TypeOK
  <2>6. QED
    BY <2>4, <2>5
<1>7. QED
  BY <1>1, <1>2, <1>3, <1>4, <1>5, <1>6 DEF Next, Attach, RestoreObject, Start, Revalidate,
     DeleteObject, DeleteObjectFails, Report, FinalizeBlocked, Fails, Crash, ExecutorStep,
     Fault, vars, tables

\* The scope never returns to the preview's: evidence is only added, and a
\* conflict stays until the document is deleted.
LEMMA ScopeMovesOn ==
    ASSUME IInv, IInv', [Next]_vars, NEW o \in OpIds, op[o].state # "none", Scope # op[o].scope
    PROVE  Scope' # op'[o].scope
<1>1. op[o].scope \in Scopes /\ op[o].scope.doc = "persisted"
  BY DEF IInv, TypeOK, ScopeFixed
<1>2. doc = "persisted" => op[o].scope.evidence \subseteq evidence /\ op[o].scope.evidence # evidence
  <2>1. op[o].scope = [doc |-> op[o].scope.doc, evidence |-> op[o].scope.evidence]
    BY <1>1 DEF Scopes
  <2>2. QED
    BY <1>1, <2>1 DEF IInv, ScopeFixed, Scope
<1>3. op'[o].scope = op[o].scope
  BY RowMoves
<1>4. \/ doc' = doc /\ evidence' = evidence
      \/ doc # "deleted" /\ doc' \in {doc, "conflict"} /\ evidence \subseteq evidence' /\ evidence' # evidence
      \/ doc' = "deleted"
  BY DEF Next, ExecutorStep, Fault, vars, tables, Attach, RequestDeletion, ResumeDeletion,
     RestoreObject, Start, Begin, Revalidate, ClaimItem, DeleteObject, DeleteObjectFails,
     Checkpoint, FinalizeRelational, FinalizeBlocked, Fails, MarkOutcome, Report, Crash
<1>5. doc' = "persisted" => op[o].scope.evidence # evidence'
  BY <1>2, <1>4 DEF IInv, TypeOK
<1>6. QED
  BY <1>1, <1>3, <1>5 DEF Scope

\* The record of an executor changes in its own steps only.
LEMMA OwnSteps ==
    ASSUME IInv, [Next]_vars, NEW x \in Executors, run'[x] # run[x]
    PROVE  (\E p \in OpIds : Start(x, p)) \/ ExecutorStep(x) \/ Fault(x)
<1>1. run' # run
  OBVIOUS
<1>2. PICK e \in Executors : (\E p \in OpIds : Start(e, p)) \/ ExecutorStep(e) \/ Fault(e)
  BY <1>1 DEF Next, vars, Attach, RequestDeletion, ResumeDeletion, RestoreObject
<1>3. CASE x = e
  BY <1>2, <1>3
<1>4. CASE x # e
  <2>1. ASSUME NEW r, run' = [run EXCEPT ![e] = r]
        PROVE  FALSE
    BY <1>4, <2>1 DEF IInv, TypeOK
  <2>2. CASE (\E p \in OpIds : Start(e, p)) \/ Report(e) \/ Crash(e)
    BY <2>1, <2>2 DEF Start, Report, Crash
  <2>3. CASE Begin(e) \/ Checkpoint(e)
    BY <1>4, <2>3 DEF Begin, Checkpoint, Continue, IInv, TypeOK
  <2>4. CASE Revalidate(e) \/ FinalizeBlocked(e) \/ Fails(e)
    BY <1>4, <2>4 DEF Revalidate, FinalizeBlocked, Fails, MarkNext, IInv, TypeOK
  <2>5. CASE ClaimItem(e)
    BY <1>4, <2>5 DEF ClaimItem, IInv, TypeOK
  <2>6. CASE DeleteObject(e) \/ DeleteObjectFails(e)
    BY <1>4, <2>6 DEF DeleteObject, DeleteObjectFails, Continue, MarkNext, IInv, TypeOK
  <2>7. CASE FinalizeRelational(e)
    BY <1>4, <2>7 DEF FinalizeRelational, Continue, MarkNext, IInv, TypeOK
  <2>8. CASE MarkOutcome(e)
    <3>1. Continue(e, "report") \/ MarkNext(e, "failed", NoArtifact, FALSE)
      BY <2>8 DEF MarkOutcome
    <3>2. QED
      BY <1>4, <3>1 DEF Continue, MarkNext, IInv, TypeOK
  <2>9. QED
    BY <1>2, <2>2, <2>3, <2>4, <2>5, <2>6, <2>7, <2>8 DEF ExecutorStep, Fault
<1>5. QED
  BY <1>3, <1>4

\* Where an executor is after it moved on.
LEMMA PcMoves ==
    ASSUME IInv, NEW x \in Executors
    PROVE  /\ \A n : Continue(x, n) => run'[x].pc = n /\ run'[x].op = run[x].op
           /\ \A s, a, t : MarkNext(x, s, a, t) => run'[x].pc = "mark" /\ run'[x].op = run[x].op
<1>1. run \in [Executors -> RunType]
  BY DEF IInv, TypeOK, RunType
<1>2. ASSUME NEW n, Continue(x, n)
      PROVE  run'[x].pc = n /\ run'[x].op = run[x].op
  <2>1. run'[x] = [run[x] EXCEPT !.pc = n]
    BY <1>1, <1>2 DEF Continue
  <2>2. QED
    BY <1>1, <2>1 DEF RunType
<1>3. ASSUME NEW s, NEW a, NEW t, MarkNext(x, s, a, t)
      PROVE  run'[x].pc = "mark" /\ run'[x].op = run[x].op
  <2>1. run'[x] = [run[x] EXCEPT !.pc = "mark", !.want = s, !.item = a, !.inTry = t]
    BY <1>1, <1>3 DEF MarkNext
  <2>2. QED
    BY <1>1, <2>1 DEF RunType
<1>4. QED
  BY <1>2, <1>3

\* An outdated operation stays outdated: execute_deletion compares before it
\* loops, so no executor gets to the items, let alone to the final transaction.
LEMMA OutdatedStays ==
    ASSUME IInv, IInv', [Next]_vars, NEW o \in OpIds, Outdated(o)
    PROVE  Outdated(o)'
<1>1. Scope' # op'[o].scope
  BY ScopeMovesOn DEF Outdated
<1>2. \A e \in Executors : run'[e].pc # "idle" /\ run'[e].op = o =>
            run'[e].pc \in {"begin", "revalidate", "mark", "report"}
  <2> SUFFICES ASSUME NEW x \in Executors, run'[x].pc # "idle", run'[x].op = o
               PROVE  run'[x].pc \in {"begin", "revalidate", "mark", "report"}
    OBVIOUS
  <2>0. run[x].pc # "idle" /\ run[x].op = o => run[x].pc \in {"begin", "revalidate", "mark", "report"}
    BY DEF Outdated
  <2>1. CASE run'[x] = run[x]
    BY <2>0, <2>1
  <2>2. CASE \E p \in OpIds : Start(x, p)
    BY <2>2 DEF Start, IdleRun, IInv, TypeOK
  <2>3. CASE Begin(x) \/ MarkOutcome(x) \/ FinalizeRelational(x)
    BY <2>3, PcMoves DEF Begin, MarkOutcome, FinalizeRelational
  <2>4. CASE Revalidate(x)
    <3>1. CASE run'[x].pc = "mark"
      BY <3>1
    <3>2. CASE run'[x].pc # "mark"
      <4>1. Scope = op[run[x].op].scope /\ run' = [run EXCEPT ![x].pc = "items", ![x].todo = Items(run[x].op)]
        BY <2>4, <3>2, PcMoves DEF Revalidate
      <4>2. run'[x].op = run[x].op
        BY <4>1 DEF IInv, TypeOK
      <4>3. QED
        BY <4>1, <4>2 DEF Outdated
    <3>3. QED
      BY <3>1, <3>2
  <2>5. CASE ClaimItem(x)
    <3>1. run[x].pc = "items" /\ run'[x].op = run[x].op
      BY <2>5 DEF ClaimItem, IInv, TypeOK
    <3>2. QED
      BY <2>0, <3>1
  <2>6. CASE DeleteObjectFails(x) \/ FinalizeBlocked(x) \/ Fails(x)
    BY <2>6, PcMoves DEF DeleteObjectFails, FinalizeBlocked, Fails
  <2>7. CASE DeleteObject(x)
    <3>1. run[x].pc = "deleting" /\ run'[x].op = run[x].op
      BY <2>7, PcMoves DEF DeleteObject
    <3>2. QED
      BY <2>0, <3>1
  <2>8. CASE Checkpoint(x)
    <3>1. run[x].pc = "checkpoint" /\ run'[x].op = run[x].op
      BY <2>8, PcMoves DEF Checkpoint
    <3>2. QED
      BY <2>0, <3>1
  <2>9. CASE Report(x) \/ Crash(x)
    BY <2>9 DEF Report, Crash, IdleRun, IInv, TypeOK
  <2>10. QED
    BY <2>1, <2>2, <2>3, <2>4, <2>5, <2>6, <2>7, <2>8, <2>9, OwnSteps DEF ExecutorStep, Fault
<1>3. op'[o].state \notin {"none", "completed"}
  <2>1. ~\E e \in Executors : run[e].pc = "items" /\ run[e].op = o
    BY DEF Outdated
  <2>2. QED
    BY <2>1, RowMoves DEF Outdated
<1>4. QED
  BY <1>1, <1>2, <1>3 DEF Outdated

\* execute_deletion, _mark_outcome and resume_deletion: once the document moved
\* away from the preview, no later execution completes the operation.
THEOREM StalePreviewHolds == Spec => StalePreviewNeverCompletes
<1> DEFINE Moved(o) == /\ op[o].state \notin {"none", "completed"}
                       /\ Scope # op[o].scope
                       /\ \A e \in Executors : run[e].pc = "idle" \/ run[e].op # o
<1>1. ASSUME NEW o \in OpIds
      PROVE  Spec => [](Moved(o) => [](op[o].state # "completed"))
  <2>1. Moved(o) => Outdated(o)
    BY DEF Outdated
  <2>2. IInv /\ IInv' /\ [Next]_vars /\ Outdated(o) => Outdated(o)'
    BY <1>1, OutdatedStays
  <2>3. Outdated(o) => op[o].state # "completed"
    BY DEF Outdated
  <2>4. QED
    <3> HIDE DEF Moved
    <3> QED
      BY <2>1, <2>2, <2>3, InvariantHolds, PTL DEF Spec
<1>2. QED
  BY <1>1 DEF StalePreviewNeverCompletes

----------------------------------------------------------------------------
(* What the lease of a job is good for.  The engine cannot keep a slow     *)
(* handler from being run twice; as long as it does, more is true.         *)

\* No operation has two executors: no lease runs out under a handler that goes on.
Solitary ==
    \A e, x \in Executors :
        run[e].pc # "idle" /\ run[x].pc # "idle" /\ run[e].op = run[x].op => e = x

\* The operation of no executor is resumed.
AtRest ==
    \A o \in OpIds : ResumeDeletion(o) => \A e \in Executors : run[e].pc = "idle" \/ run[e].op # o
ResumedAtRest == [][AtRest]_vars

\* A completed operation stays completed (_mark_outcome does not look at the state it
\* overwrites).
CompletedStays == [][\A o \in OpIds : op[o].state = "completed" => op'[o].state = "completed"]_vars

\* An operation that is to be executed has a job that will (resume_deletion relies on
\* the job that is active, which its executor may be about to end).
WorkIsQueued == \A o \in OpIds : op[o].state \in {"pending", "executing"} => job[o].active

\* The steps that change the state of an operation.
LEMMA StateMoves ==
    ASSUME IInv, [Next]_vars, NEW o \in OpIds, op'[o].state # op[o].state
    PROVE  \/ RequestDeletion(o)
           \/ ResumeDeletion(o)
           \/ \E e \in Executors : run[e].op = o /\ (Begin(e) \/ FinalizeRelational(e) \/ MarkOutcome(e))
<1>1. ASSUME NEW p \in OpIds, RequestDeletion(p) \/ ResumeDeletion(p) PROVE p = o
  BY <1>1 DEF RequestDeletion, ResumeDeletion, IInv, TypeOK
<1>2. ASSUME NEW e \in Executors, Begin(e) PROVE run[e].op = o
  BY <1>2 DEF Begin, IInv, TypeOK
<1>3. ASSUME NEW e \in Executors, ClaimItem(e) PROVE FALSE
  <2>1. PICK p, a : op' = [op EXCEPT ![p].item[a] = "running"]
    BY <1>3 DEF ClaimItem
  <2>2. op'[o] = op[o] \/ op'[o] = [op[o] EXCEPT !.item = [op[o].item EXCEPT ![a] = "running"]]
    BY <2>1 DEF IInv, TypeOK
  <2>3. QED
    BY <2>2 DEF IInv, TypeOK
<1>4. ASSUME NEW e \in Executors, Checkpoint(e) PROVE FALSE
  BY <1>4 DEF Checkpoint, IInv, TypeOK
<1>5. ASSUME NEW e \in Executors, FinalizeRelational(e) PROVE run[e].op = o
  BY <1>5 DEF FinalizeRelational, IInv, TypeOK
<1>6. ASSUME NEW e \in Executors, MarkOutcome(e) PROVE run[e].op = o
  <2> SUFFICES ASSUME run[e].op # o PROVE FALSE
    OBVIOUS
  <2>1. PICK p, w, f : p = run[e].op /\ op' = [op EXCEPT ![p].state = w, ![p].item = f]
    BY <1>6 DEF MarkOutcome
  <2>2. op'[o] = op[o]
    BY <2>1 DEF IInv, TypeOK
  <2>3. QED
    BY <2>2
<1>7. QED
  BY <1>1, <1>2, <1>3, <1>4, <1>5, <1>6 DEF Next, Attach, RestoreObject, Start, Revalidate,
     DeleteObject, DeleteObjectFails, Report, FinalizeBlocked, Fails, Crash, ExecutorStep,
     Fault, vars, tables

\* What an executor writes when it changes the state of its operation.
LEMMA StateAfter ==
    ASSUME IInv, NEW e \in Executors, NEW o \in OpIds, run[e].op = o, op'[o].state # op[o].state
    PROVE  /\ Begin(e) => op'[o].state = "executing"
           /\ FinalizeRelational(e) => op'[o].state = "completed"
           /\ MarkOutcome(e) => op'[o].state \in {"recovery", "failed"}
<1>1. ASSUME Begin(e) PROVE op'[o].state = "executing"
  BY <1>1 DEF Begin, IInv, TypeOK
<1>2. ASSUME FinalizeRelational(e) PROVE op'[o].state = "completed"
  <2>1. op' = [op EXCEPT ![o].state = "completed"]
    BY <1>2 DEF FinalizeRelational
  <2>2. QED
    BY <2>1 DEF IInv, TypeOK
<1>3. ASSUME MarkOutcome(e) PROVE op'[o].state \in {"recovery", "failed"}
  <2>1. PICK w \in {"recovery", "failed"} : w = run[e].want
    BY <1>3 DEF MarkOutcome, IInv, TypeOK, WorkRequested, WorkOK
  <2>2. PICK f : op' = [op EXCEPT ![o].state = w, ![o].item = f]
    BY <1>3, <2>1 DEF MarkOutcome
  <2>3. op'[o] = [op[o] EXCEPT !.state = w, !.item = f]
    BY <2>2 DEF IInv, TypeOK
  <2>4. op'[o].state = w
    BY <2>3 DEF IInv, TypeOK
  <2>5. QED
    BY <2>4
<1>4. QED
  BY <1>1, <1>2, <1>3

\* An executor that goes on works for the same operation.
LEMMA SameOperation ==
    ASSUME IInv, NEW x \in Executors, ExecutorStep(x) \/ Fault(x), run'[x].pc # "idle"
    PROVE  run[x].pc # "idle" /\ run'[x].op = run[x].op
<1>1. run[x].pc # "idle"
  BY DEF ExecutorStep, Fault, Begin, Revalidate, ClaimItem, DeleteObject, DeleteObjectFails,
     Checkpoint, FinalizeRelational, FinalizeBlocked, Fails, MarkOutcome, Report, Crash
<1>2. ~Report(x) /\ ~Crash(x)
  BY DEF Report, Crash, IdleRun, IInv, TypeOK
<1>3. CASE ClaimItem(x)
  BY <1>1, <1>3 DEF ClaimItem, IInv, TypeOK
<1>4. CASE Revalidate(x)
  <2>1. \/ \E s, a, t : MarkNext(x, s, a, t)
        \/ run' = [run EXCEPT ![x].pc = "items", ![x].todo = Items(run[x].op)]
    BY <1>4 DEF Revalidate
  <2>2. QED
    BY <1>1, <2>1, PcMoves DEF IInv, TypeOK
<1>5. CASE Begin(x) \/ Checkpoint(x) \/ FinalizeRelational(x) \/ MarkOutcome(x) \/ DeleteObject(x)
  BY <1>1, <1>5, PcMoves DEF Begin, Checkpoint, FinalizeRelational, MarkOutcome, DeleteObject
<1>6. CASE DeleteObjectFails(x) \/ FinalizeBlocked(x) \/ Fails(x)
  BY <1>1, <1>6, PcMoves DEF DeleteObjectFails, FinalizeBlocked, Fails
<1>7. QED
  BY <1>2, <1>3, <1>4, <1>5, <1>6 DEF ExecutorStep, Fault

\* Executors of a completed operation have not begun, or have nothing left to do.
Settled ==
    \A o \in OpIds, e \in Executors :
        op[o].state = "completed" /\ run[e].pc # "idle" /\ run[e].op = o
            => run[e].pc \in {"begin", "report"}

\* Only an executor about to record an outcome takes a completed operation back.
LEMMA CompletedKept ==
    ASSUME IInv, Settled, [Next]_vars, NEW o \in OpIds, op[o].state = "completed"
    PROVE  op'[o].state = "completed"
<1> SUFFICES ASSUME op'[o].state # op[o].state PROVE FALSE
  OBVIOUS
<1>1. ~RequestDeletion(o) /\ ~ResumeDeletion(o)
  BY DEF RequestDeletion, ResumeDeletion
<1>2. PICK e \in Executors : run[e].op = o /\ (Begin(e) \/ FinalizeRelational(e) \/ MarkOutcome(e))
  BY <1>1, StateMoves
<1>3. run[e].pc \in {"begin", "items", "mark"}
  BY <1>2 DEF Begin, FinalizeRelational, MarkOutcome
<1>4. Begin(e)
  BY <1>2, <1>3 DEF Settled, FinalizeRelational, MarkOutcome
<1>5. QED
  BY <1>2, <1>4 DEF Begin

LEMMA SettledKeeps ==
    ASSUME IInv, Settled, Solitary', [Next]_vars
    PROVE  Settled'
<1> SUFFICES ASSUME NEW o \in OpIds, NEW x \in Executors, op'[o].state = "completed",
                    run'[x].pc # "idle", run'[x].op = o
             PROVE  run'[x].pc \in {"begin", "report"}
  BY DEF Settled
<1>1. CASE op[o].state # "completed"
  <2>1. PICK e \in Executors : run[e].op = o /\ (Begin(e) \/ FinalizeRelational(e) \/ MarkOutcome(e))
    BY <1>1, StateMoves DEF RequestDeletion, ResumeDeletion, IInv, TypeOK
  <2>2. FinalizeRelational(e)
    BY <1>1, <2>1, StateAfter
  <2>3. op' # op
    BY <1>1
  <2>4. run'[e].pc = "report" /\ run'[e].op = o
    BY <2>1, <2>2, <2>3, PcMoves DEF FinalizeRelational
  <2>5. x = e
    BY <2>4 DEF Solitary
  <2>6. QED
    BY <2>4, <2>5
<1>2. CASE op[o].state = "completed"
  <2>0. run[x].pc # "idle" /\ run[x].op = o => run[x].pc \in {"begin", "report"}
    BY <1>2 DEF Settled
  <2>1. CASE run'[x] = run[x]
    BY <2>0, <2>1
  <2>2. CASE \E p \in OpIds : Start(x, p)
    BY <2>2 DEF Start, IdleRun, IInv, TypeOK
  <2>3. CASE ExecutorStep(x) \/ Fault(x)
    <3>1. run[x].pc \in {"begin", "report"} /\ run[x].op = o
      BY <2>0, <2>3, SameOperation
    <3>2. Begin(x)
      <4>1. ~Report(x) /\ ~Crash(x)
        BY DEF Report, Crash, IdleRun, IInv, TypeOK
      <4>2. QED
        BY <2>3, <3>1, <4>1 DEF ExecutorStep, Fault, Revalidate, ClaimItem, DeleteObject,
           DeleteObjectFails, Checkpoint, FinalizeRelational, FinalizeBlocked, Fails, MarkOutcome
    <3>3. QED
      BY <1>2, <3>1, <3>2, PcMoves DEF Begin
  <2>4. QED
    BY <2>1, <2>2, <2>3, OwnSteps
<1>3. QED
  BY <1>1, <1>2

\* While no operation has two executors, a completed one stays completed: only a
\* second executor can call _mark_outcome on it (execute_deletion returns early).
THEOREM CompletedStaysAlone == Spec /\ []Solitary => CompletedStays
<1>1. Init => Settled
  BY DEF Init, Settled, IdleRun
<1>2. IInv /\ Settled /\ Solitary' /\ [Next]_vars => Settled'
  BY SettledKeeps
<1>3. IInv /\ Settled /\ [Next]_vars
        => [\A o \in OpIds : op[o].state = "completed" => op'[o].state = "completed"]_vars
  BY CompletedKept
<1>4. QED
  BY <1>1, <1>2, <1>3, InvariantHolds, PTL DEF Spec, CompletedStays

\* An executor works on a job that is active, and reports on an operation that is not
\* to be executed.
Backed ==
    \A e \in Executors : run[e].pc # "idle" =>
        /\ job[run[e].op].active
        /\ run[e].pc = "report" => op[run[e].op].state \notin {"pending", "executing"}

\* The steps that activate or end a job.
LEMMA JobMoves ==
    ASSUME IInv, [Next]_vars, NEW o \in OpIds, job'[o].active # job[o].active
    PROVE  \/ RequestDeletion(o) /\ job'[o].active
           \/ ResumeDeletion(o) /\ job'[o].active
           \/ \E e \in Executors : Report(e) /\ run[e].op = o
<1>1. ASSUME NEW p \in OpIds, RequestDeletion(p) \/ ResumeDeletion(p) PROVE p = o /\ job'[o].active
  BY <1>1 DEF RequestDeletion, ResumeDeletion, IInv, TypeOK
<1>2. ASSUME NEW e \in Executors, NEW p \in OpIds, Start(e, p) PROVE FALSE
  BY <1>2 DEF Start, IInv, TypeOK
<1>3. ASSUME NEW e \in Executors, Report(e) PROVE run[e].op = o
  BY <1>3 DEF Report, IInv, TypeOK
<1>4. QED
  BY <1>1, <1>2, <1>3 DEF Next, Attach, RestoreObject, Begin, Revalidate, ClaimItem,
     DeleteObject, DeleteObjectFails, Checkpoint, FinalizeRelational, FinalizeBlocked, Fails,
     MarkOutcome, Crash, ExecutorStep, Fault, vars

\* A resume that waits for the executor activates the job it needs.
LEMMA ResumeActivates ==
    ASSUME IInv, NEW o \in OpIds, RequestDeletion(o) \/ ResumeDeletion(o)
    PROVE  job'[o].active
  BY DEF RequestDeletion, ResumeDeletion, IInv, TypeOK

\* The executor of an operation keeps its job: only its own report ends it.
LEMMA JobKept ==
    ASSUME IInv, Backed, Solitary, [Next]_vars,
           NEW x \in Executors, run'[x].pc # "idle"
    PROVE  job'[run'[x].op].active
<1>1. run'[x].op \in OpIds /\ job[run'[x].op].active
  <2>1. CASE run'[x] = run[x]
    BY <2>1 DEF Backed, IInv, WorkRequested, WorkOK
  <2>2. CASE \E p \in OpIds : Start(x, p)
    BY <2>2 DEF Start, IdleRun, IInv, TypeOK
  <2>3. CASE ExecutorStep(x) \/ Fault(x)
    <3>1. run[x].pc # "idle" /\ run'[x].op = run[x].op
      BY <2>3, SameOperation
    <3>2. QED
      BY <3>1 DEF Backed, IInv, WorkRequested, WorkOK
  <2>4. QED
    BY <2>1, <2>2, <2>3, OwnSteps
<1> DEFINE o == run'[x].op
<1>2. CASE job'[o].active = job[o].active
  BY <1>1, <1>2
<1>3. CASE job'[o].active # job[o].active
  <2>1. CASE \E e \in Executors : Report(e) /\ run[e].op = o
    <3>1. PICK e \in Executors : Report(e) /\ run[e].op = o
      BY <2>1
    <3>2. run[e].pc = "report" /\ run' = [run EXCEPT ![e] = IdleRun]
      BY <3>1 DEF Report
    <3>3. x # e
      BY <3>2 DEF IdleRun, IInv, TypeOK
    <3>4. run'[x] = run[x]
      BY <3>2, <3>3 DEF IInv, TypeOK
    <3>5. run[x].pc # "idle" /\ run[x].op = run[e].op
      BY <3>1, <3>4
    <3>6. QED
      BY <3>2, <3>3, <3>5 DEF Solitary
  <2>2. QED
    BY <1>1, <1>3, <2>1, JobMoves
<1>4. QED
  BY <1>2, <1>3

\* An executor gets to its report when there is nothing to execute, and nobody else
\* makes work of the operation before it reports.
LEMMA ReportedKept ==
    ASSUME IInv, Backed, Solitary, [Next]_vars,
           AtRest, NEW x \in Executors, run'[x].pc = "report"
    PROVE  op'[run'[x].op].state \notin {"pending", "executing"}
<1>1. CASE run'[x] = run[x]
  <2>1. PICK o \in OpIds : o = run[x].op /\ o = run'[x].op
    BY <1>1 DEF IInv, WorkRequested, WorkOK
  <2>2. op[o].state \notin {"none", "pending", "executing"} /\ run[x].pc = "report"
    BY <1>1, <2>1 DEF Backed, IInv, WorkRequested, WorkOK
  <2>3. op'[o].state = op[o].state
    <3> SUFFICES ASSUME op'[o].state # op[o].state PROVE FALSE
      OBVIOUS
    <3>1. ~RequestDeletion(o) /\ ~ResumeDeletion(o)
      BY <2>1, <2>2 DEF RequestDeletion, AtRest
    <3>2. PICK e \in Executors : run[e].op = o /\ (Begin(e) \/ FinalizeRelational(e) \/ MarkOutcome(e))
      BY <3>1, StateMoves
    <3>3. run[e].pc \in {"begin", "items", "mark"}
      BY <3>2 DEF Begin, FinalizeRelational, MarkOutcome
    <3>4. e = x
      BY <2>1, <2>2, <3>2, <3>3 DEF Solitary
    <3>5. QED
      BY <2>2, <3>3, <3>4
  <2>4. QED
    BY <2>1, <2>2, <2>3
<1>2. CASE run'[x] # run[x]
  <2>1. ExecutorStep(x) \/ Fault(x)
    <3>1. ASSUME NEW p \in OpIds, Start(x, p) PROVE FALSE
      <4>1. run' = [run EXCEPT ![x] = [IdleRun EXCEPT !.pc = "begin", !.op = p]]
        BY <3>1 DEF Start
      <4>2. run'[x].pc = "begin"
        BY <4>1 DEF IdleRun, IInv, TypeOK
      <4>3. QED
        BY <4>2
    <3>2. QED
      BY <1>2, <3>1, OwnSteps
  <2>2. run[x].pc # "idle" /\ run'[x].op = run[x].op
    BY <2>1, SameOperation
  <2>3. PICK o \in OpIds : o = run[x].op
    BY <2>2, AtWork
  <2>4. OtherActive(o) => op[o].state \notin {"pending", "executing"}
    BY DEF IInv, OneActiveDecision, OtherActive, ActiveStates
  <2>5. CASE Begin(x)
    BY <2>2, <2>3, <2>4, <2>5, PcMoves DEF Begin
  <2>6. CASE FinalizeRelational(x)
    <3>1. op' = [op EXCEPT ![o].state = "completed"]
      BY <2>3, <2>6, PcMoves DEF FinalizeRelational
    <3>2. op'[o].state = "completed"
      BY <3>1 DEF IInv, TypeOK
    <3>3. QED
      BY <2>2, <2>3, <3>2
  <2>7. CASE MarkOutcome(x)
    <3>1. CASE run[x].want = "recovery" /\ OtherActive(o)
      BY <2>2, <2>3, <2>4, <2>7, <3>1 DEF MarkOutcome
    <3>2. CASE ~(run[x].want = "recovery" /\ OtherActive(o))
      <4>1. PICK f : op' = [op EXCEPT ![o].state = run[x].want, ![o].item = f]
        BY <2>3, <2>7, <3>2 DEF MarkOutcome
      <4>2. op'[o] = [op[o] EXCEPT !.state = run[x].want, !.item = f]
        BY <4>1 DEF IInv, TypeOK
      <4>3. op'[o].state = run[x].want
        BY <4>2 DEF IInv, TypeOK
      <4>4. QED
        BY <2>2, <2>3, <4>3 DEF IInv, TypeOK
    <3>3. QED
      BY <3>1, <3>2
  <2>8. CASE Revalidate(x)
    <3>1. \/ \E s, a, t : MarkNext(x, s, a, t)
          \/ run' = [run EXCEPT ![x].pc = "items", ![x].todo = Items(run[x].op)]
      BY <2>8 DEF Revalidate
    <3>2. QED
      BY <3>1, PcMoves DEF IInv, TypeOK
  <2>9. CASE ClaimItem(x) \/ Report(x) \/ Crash(x)
    <3>1. ~Report(x) /\ ~Crash(x)
      BY DEF Report, Crash, IdleRun, IInv, TypeOK
    <3>2. run'[x].pc \in {"items", "deleting"}
      <4>1. PICK a : \/ run' = [run EXCEPT ![x].todo = @ \ {a}]
                     \/ run' = [run EXCEPT ![x].pc = "deleting", ![x].cur = a, ![x].todo = @ \ {a}]
        BY <2>9, <3>1 DEF ClaimItem
      <4>2. run[x].pc = "items"
        BY <2>9, <3>1 DEF ClaimItem
      <4>3. QED
        BY <4>1, <4>2 DEF IInv, TypeOK
    <3>3. QED
      BY <3>2
  <2>10. CASE DeleteObject(x) \/ DeleteObjectFails(x) \/ Checkpoint(x) \/ FinalizeBlocked(x) \/ Fails(x)
    <3>1. (\E n \in {"checkpoint", "items"} : Continue(x, n)) \/ (\E s, a, t : MarkNext(x, s, a, t))
      BY <2>10 DEF DeleteObject, DeleteObjectFails, Checkpoint, FinalizeBlocked, Fails
    <3>2. QED
      BY <3>1, PcMoves
  <2>11. QED
    BY <2>1, <2>5, <2>6, <2>7, <2>8, <2>9, <2>10 DEF ExecutorStep, Fault
<1>3. QED
  BY <1>1, <1>2

LEMMA QueuedKeeps ==
    ASSUME IInv, Backed, WorkIsQueued, [Next]_vars
    PROVE  WorkIsQueued'
<1> SUFFICES ASSUME NEW o \in OpIds, op'[o].state \in {"pending", "executing"}
             PROVE  job'[o].active
  BY DEF WorkIsQueued
<1>1. CASE op'[o].state = op[o].state
  <2>1. job[o].active
    BY <1>1 DEF WorkIsQueued
  <2>2. ASSUME NEW e \in Executors, Report(e), run[e].op = o PROVE FALSE
    BY <1>1, <2>2 DEF Report, Backed
  <2>3. QED
    BY <2>1, <2>2, JobMoves
<1>2. CASE op'[o].state # op[o].state
  <2>1. CASE RequestDeletion(o) \/ ResumeDeletion(o)
    BY <2>1, ResumeActivates
  <2>2. CASE \E e \in Executors : run[e].op = o /\ (Begin(e) \/ FinalizeRelational(e) \/ MarkOutcome(e))
    <3>1. PICK e \in Executors : run[e].op = o /\ Begin(e)
      BY <1>2, <2>2, StateAfter
    <3>2. QED
      BY <3>1 DEF Begin, Backed
  <2>3. QED
    BY <1>2, <2>1, <2>2, StateMoves
<1>3. QED
  BY <1>1, <1>2

\* As long as no operation has two executors and none is resumed under its executor, work
\* is never stranded: an operation that is pending or executing has an active job, in
\* spite of crashes and of every failure (_enqueue, deletion_handler).
THEOREM WorkIsQueuedAlone == Spec /\ []Solitary /\ ResumedAtRest => []WorkIsQueued
<1>1. Init => Backed /\ WorkIsQueued
  BY DEF Init, Backed, WorkIsQueued, IdleRun, NewOp
<1>2. IInv /\ Backed /\ WorkIsQueued /\ Solitary /\ [Next]_vars /\ [AtRest]_vars
        => Backed' /\ WorkIsQueued'
  <2> SUFFICES ASSUME IInv, Backed, WorkIsQueued, Solitary, [Next]_vars, [AtRest]_vars
               PROVE  Backed' /\ WorkIsQueued'
    OBVIOUS
  <2>1. CASE UNCHANGED vars
    BY <2>1 DEF vars, Backed, WorkIsQueued
  <2>2. CASE AtRest
    BY <2>2, JobKept, ReportedKept, QueuedKeeps DEF Backed
  <2>3. QED
    BY <2>1, <2>2
<1>3. QED
  BY <1>1, <1>2, InvariantHolds, PTL DEF Spec, ResumedAtRest
============================================================================
