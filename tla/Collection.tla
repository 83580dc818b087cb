---------------------------- MODULE Collection ----------------------------
(***************************************************************************)
(* Collection requests of one company (nfx.collection.services): manual,   *)
(* retry and initial requests create one execution per family, each with a *)
(* job; workers run the job and reconcile the execution and the flow row   *)
(* in a transaction of their own before they finalize the job.             *)
(*                                                                         *)
(* The job engine appears by its abstract specification, LeaseQueue, which *)
(* JobEngine implements.  The token of a job is its attempt_count.         *)
(***************************************************************************)
EXTENDS Integers, FiniteSets

CONSTANTS
    Families,     \* nfe and nfse: numbers, in the order of _families
    MaxExecs,     \* bound: rows of nfx_collection_execution
    Workers, NoWorker,
    RetryLimit,   \* retry_limit of the policy the executions capture
    MaxFaults,    \* bound: crashes, overrun leases, handlers that raise
    MaxChanges    \* bound: changes of the company, its certificate and its flows

ExecIds == 1..MaxExecs
NoExec == 0
NoFamily == 0

ASSUME CollectionAssumption ==
    /\ Families \subseteq Nat \ {NoFamily}
    /\ Families # {}
    /\ IsFiniteSet(Families)
    /\ MaxExecs \in Nat
    /\ RetryLimit \in Nat
    /\ MaxFaults \in Nat
    /\ MaxChanges \in Nat
    /\ NoWorker \notin Workers

VARIABLES
    company,    \* is it active, and is its certificate valid
    flow,       \* the rows of nfx_company_flow, by family
    exec,       \* the table nfx_collection_execution
    handoff,    \* the InitialCollectionRequest of the company
    sched,      \* what the scheduler is about to write on it
    worker,     \* what each worker is doing
    faults, changes,
    status, holder, token, grant    \* the jobs: see LeaseQueue

Jobs == INSTANCE LeaseQueue WITH Ids <- ExecIds, Clients <- Workers, Nobody <- NoWorker

rows == <<flow, exec>>
jobs == <<status, holder, token, grant>>
entry == <<company, handoff, sched>>
vars == <<company, flow, exec, handoff, sched, worker, faults, changes, jobs>>

ActiveStates == {"queued", "running", "retrying", "cooldown", "partial"}
TerminalStates == {"concluded", "empty", "blocked", "failed"}
ExecStates == {"none"} \cup ActiveStates \cup TerminalStates

Kinds == {"success", "temporary", "partial", "cooldown", "permanent"}

NewExec == [state |-> "none", family |-> NoFamily]
NewFlow == [enabled |-> TRUE, state |-> "idle", active |-> NoExec, cooling |-> FALSE]
IdleWorker == [pc |-> "idle", exec |-> NoExec, attempt |-> 0, leave |-> "waiting"]

\* A company whose first certificate has just been added.
Init ==
    /\ company = [active |-> TRUE, certificate |-> TRUE]
    /\ flow = [f \in Families |-> NewFlow]
    /\ exec = [i \in ExecIds |-> NewExec]
    /\ handoff = "queued"
    /\ sched = "idle"
    /\ worker = [w \in Workers |-> IdleWorker]
    /\ faults = 0
    /\ changes = 0
    /\ Jobs!Init

SpendFault == faults < MaxFaults /\ faults' = faults + 1

----------------------------------------------------------------------------
(* Requests.                                                               *)

Usable == company.active /\ company.certificate

\* The families of fs with an active execution, as _active_execution finds them.
\* It also drops a pointer to an execution that ended: PointerIsActive shows that
\* there is never one to drop.
Running(fs) == {f \in fs : /\ flow[f].active # NoExec
                           /\ exec[flow[f].active].state \in ActiveStates}

\* Mutant: the blocked state is not looked at.
MayStart_Blocked(f) == flow[f].enabled /\ ~flow[f].cooling

\* The conditions request_collection puts on a flow without active execution.
MayStart(f) == /\ flow[f].enabled
               /\ flow[f].state # "blocked"
               /\ ~flow[f].cooling

\* A retry names an execution of one of the families that failed or is partial.
RetryAllowed(r, fs) ==
    r # NoExec => exec[r].family \in fs /\ exec[r].state \in {"failed", "partial"}

Accepts(fs, r) == /\ Usable
                  /\ Running(fs) = {}
                  /\ \A f \in fs : MayStart(f)
                  /\ RetryAllowed(r, fs)

\* The rows the families of fs may be given: the next ones, in their order.
NextRows(fs) ==
    {new \in [fs -> ExecIds] :
        /\ \A f \in fs, i \in ExecIds : exec[i].state # "none" => i < new[f]
        /\ \A f, g \in fs : f < g => new[f] < new[g]
        /\ \A f \in fs, i \in ExecIds :
              i < new[f] => exec[i].state # "none" \/ \E g \in fs : new[g] = i}

\* The transaction of request_collection: executions, jobs and flows together.
Create(fs) ==
    \E new \in NextRows(fs) :
        /\ exec' = [i \in ExecIds |->
                       IF \E f \in fs : new[f] = i
                       THEN [state |-> "queued", family |-> CHOOSE f \in fs : new[f] = i]
                       ELSE exec[i]]
        /\ flow' = [f \in Families |->
                       IF f \in fs
                       THEN [flow[f] EXCEPT !.state = "queued", !.active = new[f],
                                            !.cooling = FALSE]
                       ELSE flow[f]]
        /\ status' = [i \in ExecIds |->
                         IF \E f \in fs : new[f] = i THEN "waiting" ELSE status[i]]
        /\ UNCHANGED <<holder, token, grant>>

\* A manual request or a retry.  With an execution active it changes nothing.
Request(fs, r) ==
    /\ Accepts(fs, r)
    /\ Create(fs)
    /\ UNCHANGED <<entry, worker, faults, changes>>

\* The first family that may not start decides which error is raised; a paused
\* flow hides that it is blocked too.
BlockedFirst ==
    \E f \in Families : /\ flow[f].enabled /\ flow[f].state = "blocked"
                        /\ \A g \in Families : g < f => MayStart(g)

\* Mutant: a request that was refused is consumed too.
InitialRequest_AnyAnswer ==
    /\ handoff = "queued"
    /\ sched = "idle"
    /\ sched' = "consumed"
    /\ IF Accepts(Families, NoExec) THEN Create(Families) ELSE UNCHANGED <<rows, jobs>>
    /\ UNCHANGED <<company, handoff, worker, faults, changes>>

\* process_initial_collection_requests: the request is made in one transaction,
\* the handoff updated in the next.  A paused flow or a cooldown leaves it queued.
InitialRequest ==
    /\ handoff = "queued"
    /\ sched = "idle"
    /\ \/ Accepts(Families, NoExec) /\ Create(Families) /\ sched' = "consumed"
       \/ /\ Usable /\ Running(Families) # {}
          /\ sched' = "consumed"
          /\ UNCHANGED <<rows, jobs>>
       \/ /\ ~Usable \/ (Running(Families) = {} /\ BlockedFirst)
          /\ sched' = "blocked"
          /\ UNCHANGED <<rows, jobs>>
    /\ UNCHANGED <<company, handoff, worker, faults, changes>>

MarkHandoff ==
    /\ sched # "idle"
    /\ handoff' = sched
    /\ sched' = "idle"
    /\ UNCHANGED <<company, rows, worker, faults, changes, jobs>>

\* The scheduler dies between the two transactions.
SchedulerCrash ==
    /\ sched # "idle"
    /\ SpendFault
    /\ sched' = "idle"
    /\ UNCHANGED <<company, rows, handoff, worker, changes, jobs>>

----------------------------------------------------------------------------
(* The company, its certificate and its flows change; time passes.         *)

Change == changes < MaxChanges /\ changes' = changes + 1

SetActive(b) == /\ Change
                /\ company' = [company EXCEPT !.active = b]
                /\ UNCHANGED <<rows, handoff, sched, worker, faults, jobs>>

SetCertificate(b) == /\ Change
                     /\ company' = [company EXCEPT !.certificate = b]
                     /\ UNCHANGED <<rows, handoff, sched, worker, faults, jobs>>

SetFlowState(f, b) == /\ Change
                      /\ company.active
                      /\ flow' = [flow EXCEPT ![f].enabled = b]
                      /\ UNCHANGED <<exec, entry, worker, faults, jobs>>

CooldownPasses(f) == /\ flow[f].cooling
                     /\ flow' = [flow EXCEPT ![f].cooling = FALSE]
                     /\ UNCHANGED <<exec, entry, worker, faults, changes, jobs>>

----------------------------------------------------------------------------
(* Workers.                                                                *)

\* Mutant: expired leases are never reclaimed.
Claim_NoReclaim(w, i) ==
    /\ worker[w].pc = "idle"
    /\ Jobs!Grant(w, i, {})
    /\ worker' = [worker EXCEPT ![w] = [pc |-> "read", exec |-> i,
                                        attempt |-> token[i] + 1, leave |-> "waiting"]]
    /\ UNCHANGED <<rows, entry, faults, changes>>

\* Claim, after reclaiming an expired lease.  Taking the job from a worker that
\* still runs it is an overrun.
Claim(w, i) ==
    /\ worker[w].pc = "idle"
    /\ Jobs!Grant(w, i, {i})
    /\ worker' = [worker EXCEPT ![w] = [pc |-> "read", exec |-> i,
                                        attempt |-> token[i] + 1, leave |-> "waiting"]]
    /\ IF \E x \in Workers : grant[x] = <<i, token[i]>>
       THEN SpendFault ELSE UNCHANGED faults
    /\ UNCHANGED <<rows, entry, changes>>

\* Attempts are counted from 1.
Exhausted(n) == n > RetryLimit

\* How finalize leaves the job of attempt n: queued again, or completed or blocked.
Leaves(k, n) == IF k \in {"success", "permanent"} \/ Exhausted(n) THEN "done" ELSE "waiting"

\* Mutant: an execution that has ended is reconciled again.
Ended_Ignored(i) == FALSE

Ended(i) == exec[i].state \in TerminalStates

\* collection_handler reads the execution; one that has ended is a success.
ReadExecution(w) ==
    LET me == worker[w] IN
    /\ me.pc = "read"
    /\ worker' = [worker EXCEPT ![w] =
                     IF Ended(me.exec)
                     THEN [me EXCEPT !.pc = "finalize", !.leave = Leaves("success", me.attempt)]
                     ELSE [me EXCEPT !.pc = "reconcile"]]
    /\ UNCHANGED <<rows, entry, faults, changes, jobs>>

\* The states reconcile_collection_job may give an execution.
Reconciled(k, n) ==
    IF k = "success" THEN {"empty", "concluded"}
    ELSE IF k = "permanent" \/ Exhausted(n) THEN {"blocked"}
    ELSE IF k = "temporary" THEN {"retrying"} ELSE {k}

\* Mutant: the pointer to the execution stays on the flow.
FlowAfter_KeepsPointer(f, k, s) == [flow[f] EXCEPT !.state = s]

FlowAfter(f, k, s) ==
    [flow[f] EXCEPT !.state = s,
                    !.active = IF s \in TerminalStates THEN NoExec ELSE @,
                    !.cooling = (s = "cooldown") \/ (k # "success" /\ @)]

\* reconcile_collection_job, then the handler returns its outcome.  No lease is
\* checked: a worker that lost its job writes too.
Reconcile(w, k) ==
    LET i == worker[w].exec
        f == exec[i].family
        n == worker[w].attempt IN
    /\ worker[w].pc = "reconcile"
    /\ worker' = [worker EXCEPT ![w].pc = "finalize", ![w].leave = Leaves(k, n)]
    /\ IF Ended(i)
       THEN UNCHANGED rows
       ELSE \E s \in Reconciled(k, n) :
            /\ exec' = [exec EXCEPT ![i].state = s]
            /\ flow' = [flow EXCEPT ![f] = FlowAfter(f, k, s)]
    /\ UNCHANGED <<entry, faults, changes, jobs>>

\* The handler raises, or is not registered in this worker: process_one
\* finalizes a temporary failure and nothing is reconciled.
Raise(w) ==
    /\ worker[w].pc \in {"read", "reconcile"}
    /\ SpendFault
    /\ worker' = [worker EXCEPT ![w].pc = "finalize",
                                ![w].leave = Leaves("temporary", worker[w].attempt)]
    /\ UNCHANGED <<rows, entry, changes, jobs>>

\* JobEngine.finalize under the lease check; a lost lease is only logged.
Finalize(w) ==
    LET i == worker[w].exec IN
    /\ worker[w].pc = "finalize"
    /\ worker' = [worker EXCEPT ![w] = IdleWorker]
    /\ IF holder[i] = w /\ token[i] = worker[w].attempt
       THEN Jobs!Settle(w, i, worker[w].leave)
       ELSE Jobs!Forget(w)
    /\ UNCHANGED <<rows, entry, faults, changes>>

\* The worker dies or loses the database; its lease runs out later.
Crash(w) ==
    /\ worker[w].pc # "idle"
    /\ SpendFault
    /\ worker' = [worker EXCEPT ![w] = IdleWorker]
    /\ Jobs!Forget(w)
    /\ UNCHANGED <<rows, entry, changes>>

----------------------------------------------------------------------------

WorkerStep(w) ==
    \/ \E i \in ExecIds : Claim(w, i)
    \/ ReadExecution(w)
    \/ \E k \in Kinds : Reconcile(w, k)
    \/ Finalize(w)

Next ==
    \/ \E fs \in SUBSET Families \ {{}}, r \in ExecIds \cup {NoExec} : Request(fs, r)
    \/ InitialRequest
    \/ MarkHandoff
    \/ SchedulerCrash
    \/ \E b \in BOOLEAN : SetActive(b) \/ SetCertificate(b)
    \/ \E f \in Families : \/ CooldownPasses(f)
                           \/ \E b \in BOOLEAN : SetFlowState(f, b)
    \/ \E w \in Workers : WorkerStep(w) \/ Raise(w) \/ Crash(w)

Spec == Init /\ [][Next]_vars

\* The worker loop runs on and the scheduler finishes what it started.  Nobody
\* owes a request, a fault or a change of the company.
Fairness == /\ \A w \in Workers : WF_vars(WorkerStep(w))
            /\ WF_vars(MarkHandoff)

FairSpec == Spec /\ Fairness

----------------------------------------------------------------------------
(* Properties.                                                             *)

FlowRow == [enabled : BOOLEAN, state : {"idle"} \cup ExecStates,
            active : ExecIds \cup {NoExec}, cooling : BOOLEAN]

\* Every variable keeps its type.
TypeOK ==
    /\ company \in [active : BOOLEAN, certificate : BOOLEAN]
    /\ flow \in [Families -> FlowRow]
    /\ exec \in [ExecIds -> [state : ExecStates, family : Families \cup {NoFamily}]]
    /\ handoff \in {"queued", "consumed", "blocked"}
    /\ sched \in {"idle", "consumed", "blocked"}
    /\ worker \in [Workers -> [pc : {"idle", "read", "reconcile", "finalize"},
                               exec : ExecIds \cup {NoExec},
                               attempt : Nat, leave : {"waiting", "done"}]]
    /\ faults \in Nat
    /\ changes \in Nat
    /\ status \in [ExecIds -> {"absent", "waiting", "done"}]
    /\ holder \in [ExecIds -> Workers \cup {NoWorker}]
    /\ token \in [ExecIds -> Nat]
    /\ grant \in [Workers -> {<<>>} \cup (ExecIds \X Nat)]

\* A family never has two active executions, whichever of the workers that ran
\* its job writes last: the locks and the pointer alone keep what the unique
\* constraint nfx_collection_active_company_family_uq would refuse.
OneActiveExecution ==
    \A i, j \in ExecIds :
        /\ exec[i].state \in ActiveStates
        /\ exec[j].state \in ActiveStates
        /\ exec[i].family = exec[j].family
        => i = j

\* The pointer of a flow is its active execution, exactly as long as there is one.
PointerIsActive ==
    \A f \in Families, i \in ExecIds :
        flow[f].active = i <=> exec[i].family = f /\ exec[i].state \in ActiveStates

\* The state a flow shows is that of its last execution.
FlowShowsLast ==
    \A f \in Families :
        LET mine == {i \in ExecIds : exec[i].family = f} IN
        /\ mine = {} => flow[f].state = "idle"
        /\ \A i \in mine : (\A j \in mine : j <= i) => flow[f].state = exec[i].state

\* An execution that ended keeps its result, although workers whose lease ran
\* out still reconcile it and its job may run again.
EndedStays ==
    [][\A i \in ExecIds : exec[i].state \in TerminalStates => exec'[i] = exec[i]]_vars

\* A blocked flow is never collected again behind the operator's back: no path,
\* retry and initial handoff included, starts an execution on it.
BlockedNeverIgnored ==
    [][\A f \in Families : flow[f].state = "blocked" => flow'[f].state = "blocked"]_vars

\* An initial request is consumed only when some execution answers for it.
HandoffAnswered == handoff = "consumed" => \E i \in ExecIds : exec[i].state # "none"

\* Collection asks nothing of the job engine that it does not promise: all it does to
\* its jobs are steps of LeaseQueue.
UsesQueue == Jobs!Spec

\* Every execution that was created is worked off: crashes, lost leases and
\* retries end with its job completed or blocked.
ExecutionSettles == \A i \in ExecIds : (exec[i].state # "none") ~> (status[i] = "done")

----------------------------------------------------------------------------
(* What the documents say and the code does not do.                        *)

\* No execution is left active without a job that can still run.
ActiveHasJob ==
    \A i \in ExecIds : exec[i].state \in ActiveStates => status[i] = "waiting"

\* No handler raises, and every worker has it registered.
HandlersReturn == [][\A w \in Workers : ~Raise(w)]_vars

============================================================================
