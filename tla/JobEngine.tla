----------------------------- MODULE JobEngine -----------------------------
(***************************************************************************)
(* The durable job queue of nfx.jobs: rows of nfx_job in PostgreSQL, the   *)
(* callers that enqueue, the workers that claim, run and finalize, and the *)
(* scheduler that recovers expired leases.                                 *)
(*                                                                         *)
(* Every database transaction is one atomic step.  The steps between them  *)
(* are where processes interleave: enqueue's lookup and insert, and a      *)
(* worker's claim, its handler, its finalize and the second finalize of    *)
(* process_one's exception branch.                                         *)
(***************************************************************************)
EXTENDS Integers, FiniteSets

CONSTANTS
    Keys,           \* idempotency keys; a key also stands for its job type
    Workers,        \* worker processes (a restarted process keeps its member)
    Callers,        \* processes that call enqueue
    MaxJobs,        \* bound: rows of nfx_job
    MaxFaults,      \* bound: crashes, outages, overruns, unlimited requeues, renewals
    Lease,          \* lease_duration
    Policies,       \* rows of nfx_job_policy
    PolicyOf,       \* key -> the policy its jobs capture, or NoPolicy
    PriorityOf,     \* key -> priority
    RetryLimit, BackoffInitial, BackoffCap, Jitter, Cooldown,  \* by policy
    Hints,          \* cooldown_until of an outcome, as an offset from now
    NoPolicy, NoWorker, NoHint

JobIds == 1..MaxJobs
NoJob == 0
NoTime == -1

ASSUME BoundsAssumption ==
    /\ MaxJobs \in Nat
    /\ MaxFaults \in Nat
    /\ Lease \in Nat \ {0}

ASSUME PolicyAssumption ==
    /\ NoPolicy \notin Policies
    /\ PolicyOf \in [Keys -> Policies \cup {NoPolicy}]
    /\ PriorityOf \in [Keys -> Int]
    /\ RetryLimit \in [Policies -> Nat]
    /\ BackoffInitial \in [Policies -> Nat \ {0}]
    /\ BackoffCap \in [Policies -> Nat]
    /\ \A p \in Policies : BackoffCap[p] >= BackoffInitial[p]
    /\ Jitter \in [Policies -> Nat]
    /\ Cooldown \in [Policies -> Nat]

ASSUME HintAssumption == Hints \subseteq Int /\ NoHint \notin Hints

ASSUME WorkerAssumption == NoWorker \notin Workers

VARIABLES
    now,      \* the clock every process reads
    job,      \* the table nfx_job
    proc,     \* what each worker process is doing
    call,     \* the enqueue call each caller has open
    lost,     \* history: times the lease of a job expired and was reclaimed
    faults,   \* faults the environment has spent
    refused   \* keys an enqueue call ended in JobEngineError for

vars == <<now, job, proc, call, lost, faults, refused>>

States == {"absent", "queued", "running", "completed", "blocked"}
Reasons == {"", "error_code", "policy_required", "retry_exhausted"}

Row == [state    : States,
        key      : Keys \cup {NoJob},
        policy   : Policies \cup {NoPolicy},
        due      : Nat,
        attempt  : Nat,
        owner    : Workers \cup {NoWorker},
        expires  : Nat \cup {NoTime},
        cooldown : Nat \cup {NoTime},
        reason   : Reasons]

AbsentRow == [state |-> "absent", key |-> NoJob, policy |-> NoPolicy, due |-> 0,
              attempt |-> 0, owner |-> NoWorker, expires |-> NoTime,
              cooldown |-> NoTime, reason |-> ""]

IdleWorker == [pc |-> "idle", job |-> NoJob, attempt |-> 0]
DownWorker == [pc |-> "down", job |-> NoJob, attempt |-> 0]
IdleCaller == [pc |-> "idle", key |-> NoJob, due |-> 0, tries |-> 0]

Init ==
    /\ now = 0
    /\ job = [j \in JobIds |-> AbsentRow]
    /\ proc = [w \in Workers |-> IdleWorker]
    /\ call = [c \in Callers |-> IdleCaller]
    /\ lost = [j \in JobIds |-> 0]
    /\ faults = 0
    /\ refused = {}

----------------------------------------------------------------------------
(* The rows that matter to a transaction.                                  *)

\* Mutant: the unique constraint is missing.
Unfinished_NoConstraint(k) == {}

\* The rows the partial unique constraint on idempotency_key covers.
Unfinished(k) == {j \in JobIds : /\ job[j].key = k
                                 /\ job[j].state \in {"queued", "running", "blocked"}}

\* The rows enqueue looks up before it inserts.
Active(k) == {j \in JobIds : /\ job[j].key = k
                             /\ job[j].state \in {"queued", "running"}}

LeaseExpired(r) == r.state = "running" /\ r.expires <= now

\* Mutants: the owner, or the expiry, is not compared.
Holds_NoOwner(w, j) == job[j].state = "running" /\ job[j].expires > now
Holds_NoExpiry(w, j) == job[j].state = "running" /\ job[j].owner = w

\* The lease check of finalize and of _lease_update.
Holds(w, j) == /\ job[j].state = "running"
               /\ job[j].owner = w
               /\ job[j].expires > now

Busy(w) == proc[w].pc \in {"handling", "failing"}

SpendFault == faults < MaxFaults /\ faults' = faults + 1

----------------------------------------------------------------------------
(* enqueue: a call captures its schedule, then alternates a lookup of an   *)
(* active row and an insert that the unique constraint may reject, twice.  *)

EnqueueBegin(c, k) ==
    /\ call[c].pc = "idle"
    /\ \E j \in JobIds : job[j].state = "absent"
    /\ call' = [call EXCEPT ![c] = [pc |-> "lookup", key |-> k, due |-> now, tries |-> 2]]
    /\ UNCHANGED <<now, job, proc, lost, faults, refused>>

EnqueueLookup(c) ==
    /\ call[c].pc = "lookup"
    /\ call' = IF Active(call[c].key) # {}
               THEN [call EXCEPT ![c] = IdleCaller]
               ELSE [call EXCEPT ![c].pc = "insert"]
    /\ UNCHANGED <<now, job, proc, lost, faults, refused>>

NextRow(j) == /\ job[j].state = "absent"
              /\ \A i \in JobIds : i < j => job[i].state # "absent"

NewRow(k, due) == [AbsentRow EXCEPT !.state = "queued", !.key = k,
                                    !.policy = PolicyOf[k], !.due = due]

EnqueueInsert(c) ==
    /\ call[c].pc = "insert"
    /\ Unfinished(call[c].key) = {}
    /\ \E j \in JobIds :
          /\ NextRow(j)
          /\ job' = [job EXCEPT ![j] = NewRow(call[c].key, call[c].due)]
    /\ call' = [call EXCEPT ![c] = IdleCaller]
    /\ UNCHANGED <<now, proc, lost, faults, refused>>

\* IntegrityError: look up once more, or give up with JobEngineError.
EnqueueConflict(c) ==
    /\ call[c].pc = "insert"
    /\ Unfinished(call[c].key) # {}
    /\ IF call[c].tries > 1
       THEN /\ call' = [call EXCEPT ![c].pc = "lookup", ![c].tries = @ - 1]
            /\ UNCHANGED refused
       ELSE /\ call' = [call EXCEPT ![c] = IdleCaller]
            /\ refused' = refused \cup {call[c].key}
    /\ UNCHANGED <<now, job, proc, lost, faults>>

----------------------------------------------------------------------------
(* Leases.                                                                 *)

\* Mutants: expired leases stay; the owner is not cleared.
ReclaimedRow_Never(r) == r
ReclaimedRow_KeepsOwner(r) ==
    IF LeaseExpired(r) THEN [r EXCEPT !.state = "queued", !.due = now] ELSE r

\* The UPDATE that returns every expired lease to the queue, shared by
\* reclaim_expired, recover and claim.
ReclaimedRow(r) ==
    IF LeaseExpired(r)
    THEN [r EXCEPT !.state = "queued", !.due = now,
                   !.owner = NoWorker, !.expires = NoTime]
    ELSE r

Reclaimed == [j \in JobIds |-> ReclaimedRow(job[j])]

LostAfterReclaim ==
    [j \in JobIds |-> IF LeaseExpired(job[j]) THEN lost[j] + 1 ELSE lost[j]]

\* scheduler: recover (and reclaim_expired, the same update).
Recover ==
    /\ \E j \in JobIds : LeaseExpired(job[j])
    /\ job' = Reclaimed
    /\ lost' = LostAfterReclaim
    /\ UNCHANGED <<now, proc, call, faults, refused>>

DueRow(r) == r.state = "queued" /\ r.due <= now

\* ORDER BY -priority, scheduled_at, created_at (rows are numbered as created).
Before(rows, i, j) ==
    LET pi == PriorityOf[rows[i].key]
        pj == PriorityOf[rows[j].key]
    IN  \/ pi > pj
        \/ pi = pj /\ rows[i].due < rows[j].due
        \/ pi = pj /\ rows[i].due = rows[j].due /\ i < j

FirstDue(rows, j) ==
    /\ DueRow(rows[j])
    /\ \A i \in JobIds \ {j} : DueRow(rows[i]) => Before(rows, j, i)

ClaimedRow(r, w) ==
    [r EXCEPT !.state = "running", !.owner = w,
              !.expires = now + Lease, !.attempt = @ + 1]

\* process_one: claim.  A claim that finds nothing due changes nothing: a
\* lease it had reclaimed would be due.
Claim(w) ==
    /\ proc[w].pc = "idle"
    /\ \E j \in JobIds :
          /\ FirstDue(Reclaimed, j)
          /\ job' = [Reclaimed EXCEPT ![j] = ClaimedRow(@, w)]
          /\ proc' = [proc EXCEPT ![w] = [pc |-> "handling", job |-> j,
                                          attempt |-> job[j].attempt + 1]]
    /\ lost' = LostAfterReclaim
    /\ UNCHANGED <<now, call, faults, refused>>

----------------------------------------------------------------------------
(* finalize, complete and fail: the row each of them writes.               *)

Cleared(r) == [r EXCEPT !.owner = NoWorker, !.expires = NoTime,
                        !.cooldown = NoTime, !.reason = ""]

CompletedRow(r) == [Cleared(r) EXCEPT !.state = "completed"]

BlockedRow(r, reason) == [Cleared(r) EXCEPT !.state = "blocked", !.reason = reason]

RequeuedRow(r, due) == [Cleared(r) EXCEPT !.state = "queued", !.due = due]

Least(a, b) == IF a <= b THEN a ELSE b

\* The delays _retry_delay can return for an attempt, over every jitter.
RetryDelays(p, attempt) ==
    LET base == Least(BackoffCap[p], BackoffInitial[p] * 2^(attempt - 1))
    IN  {d \in 0..BackoffCap[p] :
            \E x \in (-Jitter[p])..Jitter[p] :
                d = Least(BackoffCap[p], IF base + x < 0 THEN 0 ELSE base + x)}

\* _cooldown_due: the deadline the outcome or else the policy gives.
CooldownDue(p, hint) ==
    IF hint # NoHint THEN now + hint
    ELSE IF Cooldown[p] > 0 THEN now + Cooldown[p] ELSE NoTime

\* Mutants: the limit is compared after one attempt too many; a cooldown is
\* recorded but the job is scheduled at once.
RetriedRows_OffByOne(r, kind, hint) ==
    IF r.policy = NoPolicy THEN {BlockedRow(r, "policy_required")}
    ELSE IF r.attempt > RetryLimit[r.policy] + 1 THEN {BlockedRow(r, "retry_exhausted")}
    ELSE {RequeuedRow(r, now + d) : d \in RetryDelays(r.policy, r.attempt)}
RetriedRows_LocalWins(r, kind, hint) ==
    IF r.policy = NoPolicy THEN {BlockedRow(r, "policy_required")}
    ELSE IF r.attempt > RetryLimit[r.policy] THEN {BlockedRow(r, "retry_exhausted")}
    ELSE {[RequeuedRow(r, now) EXCEPT !.cooldown = CooldownDue(r.policy, hint)]}

\* A retryable outcome: blocked without a policy or past its limit, else
\* queued again.  Empty when _cooldown_due raises InvalidTransition.
RetriedRows(r, kind, hint) ==
    IF r.policy = NoPolicy THEN {BlockedRow(r, "policy_required")}
    ELSE IF r.attempt > RetryLimit[r.policy] THEN {BlockedRow(r, "retry_exhausted")}
    ELSE IF kind = "cooldown"
    THEN {[RequeuedRow(r, t) EXCEPT !.cooldown = t] :
              t \in {u \in {CooldownDue(r.policy, hint)} : u > now}}
    ELSE {RequeuedRow(r, now + d) : d \in RetryDelays(r.policy, r.attempt)}

\* The rows finalize can write for a classified outcome.
FinalizedRows(r, kind, hint) ==
    CASE kind = "success" -> {CompletedRow(r)}
      [] kind = "permanent" -> {BlockedRow(r, "error_code")}
      [] OTHER -> RetriedRows(r, kind, hint)

\* The rows written for a handler that raised or is not registered: finalize
\* when the job has a policy, fail (which has no limit and no delay) when not.
FailedRows(r) ==
    IF r.policy = NoPolicy THEN {RequeuedRow(r, now)}
    ELSE RetriedRows(r, "temporary", NoHint)

Outcomes == {"success", "temporary", "cooldown", "permanent", "partial"}

----------------------------------------------------------------------------
(* process_one, from the handler's return on.                              *)

\* The handler returned an outcome and its lease is valid.  A cooldown with
\* no future deadline raises, and the exception branch takes over.
Finish(w) ==
    /\ proc[w].pc = "handling"
    /\ Holds(w, proc[w].job)
    /\ \E kind \in Outcomes, hint \in Hints \cup {NoHint} :
          LET rows == FinalizedRows(job[proc[w].job], kind, hint)
          IN  \/ \E r \in rows :
                    /\ job' = [job EXCEPT ![proc[w].job] = r]
                    /\ proc' = [proc EXCEPT ![w] = IdleWorker]
              \/ /\ rows = {}
                 /\ proc' = [proc EXCEPT ![w].pc = "failing"]
                 /\ UNCHANGED job
    /\ UNCHANGED <<now, call, lost, faults, refused>>

\* LeaseLost: the row is running but not under this worker's lease, or under
\* a lease that has expired.  Logged, in every branch of process_one.
DropLostLease(w) ==
    /\ Busy(w)
    /\ job[proc[w].job].state = "running"
    /\ ~Holds(w, proc[w].job)
    /\ proc' = [proc EXCEPT ![w] = IdleWorker]
    /\ UNCHANGED <<now, job, call, lost, faults, refused>>

\* A failure that returns the job to the queue without limit or delay (fail):
\* the model rations it with the faults.
RationUnlimited(w) ==
    IF job[proc[w].job].policy = NoPolicy /\ Holds(w, proc[w].job)
    THEN SpendFault
    ELSE UNCHANGED faults

\* The handler raised, or finalize raised InvalidTransition because the row
\* is no longer running: "except Exception".
Raise(w) ==
    /\ proc[w].pc = "handling"
    /\ proc' = [proc EXCEPT ![w].pc = "failing"]
    /\ RationUnlimited(w)
    /\ UNCHANGED <<now, job, call, lost, refused>>

WriteFailure(w) ==
    /\ Holds(w, proc[w].job)
    /\ \E r \in FailedRows(job[proc[w].job]) : job' = [job EXCEPT ![proc[w].job] = r]
    /\ proc' = [proc EXCEPT ![w] = IdleWorker]
    /\ UNCHANGED <<now, call, lost, refused>>

\* The exception branch under a valid lease.
FailRaised(w) ==
    /\ proc[w].pc = "failing"
    /\ WriteFailure(w)
    /\ UNCHANGED faults

\* The branch for a job type this worker has no handler for.
FailUnregistered(w) ==
    /\ proc[w].pc = "handling"
    /\ WriteFailure(w)
    /\ RationUnlimited(w)

\* The same two branches when the row is no longer running: neither catches
\* InvalidTransition, which ends the worker process.
Escape(w) ==
    /\ Busy(w)
    /\ job[proc[w].job].state # "running"
    /\ proc' = [proc EXCEPT ![w] = DownWorker]
    /\ UNCHANGED <<now, job, call, lost, faults, refused>>

\* OperationalError in the handler or in finalize: the job keeps its lease.
Unavailable(w) ==
    /\ Busy(w)
    /\ SpendFault
    /\ proc' = [proc EXCEPT ![w] = IdleWorker]
    /\ UNCHANGED <<now, job, call, lost, refused>>

\* renew: part of the engine's interface, though process_one never calls it.
\* Rationed with the faults, so that the clock stays bounded.
RenewedRow(r) == [r EXCEPT !.expires = now + Lease]

Renew(w) ==
    /\ proc[w].pc = "handling"
    /\ Holds(w, proc[w].job)
    /\ SpendFault
    /\ job' = [job EXCEPT ![proc[w].job] = RenewedRow(@)]
    /\ UNCHANGED <<now, proc, call, lost, refused>>

----------------------------------------------------------------------------
(* Processes and time.                                                     *)

Crash(w) ==
    /\ proc[w].pc # "down"
    /\ SpendFault
    /\ proc' = [proc EXCEPT ![w] = DownWorker]
    /\ UNCHANGED <<now, job, call, lost, refused>>

\* restart: unless-stopped.  The new process draws a new owner name; since it
\* never acts on a lease it did not claim, it may keep the old one here.
Restart(w) ==
    /\ proc[w].pc = "down"
    /\ proc' = [proc EXCEPT ![w] = IdleWorker]
    /\ UNCHANGED <<now, job, call, lost, faults, refused>>

\* A handler outlives its lease: some worker's lease expires under it.
Overrun == \E w \in Workers : /\ Busy(w)
                              /\ Holds(w, proc[w].job)
                              /\ job[proc[w].job].expires = now + 1

\* Time moves while some schedule or lease lies ahead.
Tick ==
    /\ \E j \in JobIds : \/ job[j].state = "queued" /\ job[j].due > now
                         \/ job[j].state = "running" /\ job[j].expires > now
    /\ IF Overrun THEN SpendFault ELSE UNCHANGED faults
    /\ now' = now + 1
    /\ UNCHANGED <<job, proc, call, lost, refused>>

Enqueue(c) == \/ \E k \in Keys : EnqueueBegin(c, k)
              \/ EnqueueLookup(c)
              \/ EnqueueInsert(c)
              \/ EnqueueConflict(c)

\* One pass of run_worker_loop: what a live worker does next.
WorkerStep(w) == \/ Claim(w)
                 \/ Finish(w)
                 \/ DropLostLease(w)
                 \/ Raise(w)
                 \/ FailRaised(w)
                 \/ FailUnregistered(w)
                 \/ Escape(w)

Next == \/ \E c \in Callers : Enqueue(c)
        \/ \E w \in Workers : \/ WorkerStep(w)
                              \/ Unavailable(w)
                              \/ Crash(w)
                              \/ Restart(w)
        \/ Recover
        \/ Tick

Spec == Init /\ [][Next]_vars

\* The engine under a client that also renews: what the safety theorems are
\* about.  Every behaviour of Spec is one of ApiSpec.
ApiNext == Next \/ \E w \in Workers : Renew(w)

ApiSpec == Init /\ [][ApiNext]_vars

\* Workers keep polling, their handlers return or raise, a dead worker is
\* restarted and time passes.  Nothing is asked of the scheduler.
Fairness ==
    /\ \A w \in Workers : WF_vars(WorkerStep(w)) /\ WF_vars(Restart(w))
    /\ WF_vars(Tick)

FairSpec == Spec /\ Fairness

----------------------------------------------------------------------------
(* What the engine promises.                                               *)

WorkerState == [pc : {"idle", "handling", "failing", "down"},
                job : JobIds \cup {NoJob}, attempt : Nat]
CallState == [pc : {"idle", "lookup", "insert"}, key : Keys \cup {NoJob},
              due : Nat, tries : 0..2]

\* Type correctness of the table, the processes and the clock; a busy worker
\* names the job it claimed.
TypeOK ==
    /\ now \in Nat
    /\ job \in [JobIds -> Row]
    /\ proc \in [Workers -> WorkerState]
    /\ \A w \in Workers : Busy(w) => proc[w].job \in JobIds
    /\ call \in [Callers -> CallState]
    /\ \A c \in Callers : call[c].pc # "idle" => call[c].key \in Keys
    /\ lost \in [JobIds -> Nat]
    /\ faults \in 0..MaxFaults
    /\ refused \subseteq Keys

\* Two callers that race through enqueue's lookup and insert never leave two
\* unfinished rows with one idempotency key.
UniqueActiveKey ==
    \A i, j \in JobIds :
        /\ i # j
        /\ job[i].state \in {"queued", "running", "blocked"}
        /\ job[j].state \in {"queued", "running", "blocked"}
        => job[i].key # job[j].key

\* The owner name is a sound fence: while a worker is inside process_one, its
\* job is still running under its own lease at the attempt it claimed, or it
\* was reclaimed (queued again), or a later attempt has superseded it.  In
\* particular nobody finishes a job at another worker's attempt.
Fencing ==
    \A w \in Workers : Busy(w) =>
        LET r == job[proc[w].job]
        IN  \/ r.attempt = proc[w].attempt /\ r.state = "running" /\ r.owner = w
            \/ r.attempt = proc[w].attempt /\ r.state = "queued"
            \/ r.attempt > proc[w].attempt /\ r.owner # w

\* Retries are bounded by the captured policy: a job with a policy is attempted
\* at most retry_limit + 1 times, plus once for each lease that expired under
\* it (an expired lease does not count against the limit).
RetryBudget ==
    \A j \in JobIds : job[j].policy # NoPolicy =>
        job[j].attempt <= RetryLimit[job[j].policy] + 1 + lost[j]

\* Only the worker that runs the current attempt, under an unexpired lease in
\* its own name, completes or blocks a job ("Worker sem lease valido nao
\* conclui job").
FinishedByHolder ==
    [][\A j \in JobIds :
          /\ job[j].state = "running"
          /\ job'[j].state \in {"completed", "blocked"}
          => \E w \in Workers : /\ Busy(w) /\ ~Busy(w)'
                                /\ proc[w].job = j
                                /\ proc[w].attempt = job[j].attempt
                                /\ job[j].owner = w
                                /\ now < job[j].expires]_vars

\* A completed or blocked row is final, whatever a stale worker, a caller or
\* the scheduler does afterwards.
TerminalIsFinal ==
    [][\A j \in JobIds :
          job[j].state \in {"completed", "blocked"} => job'[j] = job[j]]_vars

\* An official cooldown prevails over every local retry: no attempt starts
\* before the deadline of the last cooldown, also after a lease has expired.
CooldownRespected ==
    [][\A j \in JobIds :
          job'[j].attempt > job[j].attempt => now >= job[j].cooldown]_vars

\* Every accepted job is finished: with finitely many faults it completes or
\* is blocked, through expired leases, dead workers and a dead scheduler.
EveryJobFinishes ==
    \A j \in JobIds :
        job[j].state = "queued" ~> job[j].state \in {"completed", "blocked"}

\* A row has an owner exactly while it runs (claim sets it, finalize and the reclaim
\* clear it), and a row that was never inserted has no attempts.
RowsCoherent ==
    \A j \in JobIds : /\ job[j].state = "running" <=> job[j].owner # NoWorker
                      /\ job[j].state = "absent" => job[j].attempt = 0

\* A queued row with a policy can still afford an attempt: finalize blocked it otherwise.
QueuedWithinLimit ==
    \A j \in JobIds : job[j].policy # NoPolicy /\ job[j].state = "queued" =>
        job[j].attempt <= RetryLimit[job[j].policy] + lost[j]

\* A schedule never precedes the cooldown it serves.
CooldownKept ==
    \A j \in JobIds : /\ job[j].state = "queued" => job[j].cooldown <= job[j].due
                      /\ job[j].state = "running" => job[j].cooldown <= now

\* The inductive invariant behind the safety properties of claim, finalize and recover:
\* none of them is inductive without the coherence of rows, schedules and cooldowns.
IInv == /\ TypeOK
        /\ RowsCoherent
        /\ UniqueActiveKey
        /\ Fencing
        /\ RetryBudget
        /\ QueuedWithinLimit
        /\ CooldownKept

\* The engine as its clients see it: LeaseQueue with blocked and completed
\* rows as done work, the owner column as holder, attempt_count as token and a
\* worker inside process_one as a client acting on its grant.
QueueStatus(r) ==
    IF r.state = "absent" THEN "absent"
    ELSE IF r.state \in {"queued", "running"} THEN "waiting" ELSE "done"

Queue == INSTANCE LeaseQueue WITH
    Ids <- JobIds, Clients <- Workers, Nobody <- NoWorker,
    status <- [j \in JobIds |-> QueueStatus(job[j])],
    holder <- [j \in JobIds |-> job[j].owner],
    token <- [j \in JobIds |-> job[j].attempt],
    grant <- [w \in Workers |-> IF Busy(w) THEN <<proc[w].job, proc[w].attempt>>
                                           ELSE <<>>]

\* JobEngine implements LeaseQueue: work is granted under a fresh token, is
\* revoked behind its client's back, and is finished once, by its token.
ImplementsQueue == Queue!Spec

=============================================================================
