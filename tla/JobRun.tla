------------------------------- MODULE JobRun -------------------------------
(***************************************************************************)
(* The job engine as a handler meets it: a job is handed to a worker       *)
(* again when the worker's lease ran out, dead or alive, and only the last *)
(* worker it was handed to can end it.  JobEngine has the engine itself;   *)
(* Exports, Rendering and FollowUp have the handlers.                      *)
(***************************************************************************)
EXTENDS Integers, FiniteSets, FiniteSetsExt

CONSTANTS
    Workers,        \* worker processes
    RetryLimit,     \* of the captured policies
    MaxClaims,      \* bound: attempts of a job, its expired leases included
    MaxFaults,      \* bound: crashes, failed calls and objects lost
    NoWorker

JobIds == {"export", "render", "science", "xml", "manifest"}

\* The export job is the only one enqueued without a policy.
HasPolicy == JobIds \ {"export"}

ASSUME RunAssumption ==
    /\ NoWorker \notin Workers
    /\ RetryLimit \in Nat /\ MaxClaims \in Nat /\ MaxFaults \in Nat

VARIABLES
    job,        \* the last row of each idempotency key
    faults,
    overrun     \* history: a lease ran out under a worker that still runs its handler

jobVars == <<job, faults, overrun>>

NoJob == [state |-> "none", holder |-> NoWorker, attempt |-> 0]

JobInit ==
    /\ job = [j \in JobIds |-> NoJob]
    /\ faults = 0
    /\ overrun = FALSE

JobTypeOK ==
    job \in [JobIds -> [state : {"none", "queued", "running", "completed", "blocked"},
                        holder : Workers \cup {NoWorker}, attempt : Nat]]

SpendFault == faults < MaxFaults /\ faults' = faults + 1

Active(j) == job[j].state \in {"queued", "running"}

\* enqueue: an active row is returned, a finished key gets a new row; a blocked one
\* makes the call raise, which the callers rule out or fail on.
EnqueuedJob(j) == IF Active(j) THEN job[j] ELSE [NoJob EXCEPT !.state = "queued"]
Enqueue(j) == job' = [job EXCEPT ![j] = EnqueuedJob(j)]

\* claim: a queued job, or a running one whose lease expired.  Busy are the workers
\* inside a handler of the job.
Claim(w, j, busy) ==
    /\ Active(j)
    /\ job[j].attempt < MaxClaims
    /\ job' = [job EXCEPT ![j] = [state |-> "running", holder |-> w, attempt |-> @.attempt + 1]]
    /\ overrun' = (overrun \/ busy # {})

\* The row that finalize leaves for an outcome, and fail for a handler that raised.
FinalizedJob(j, kind) ==
    LET again == [job[j] EXCEPT !.state = "queued", !.holder = NoWorker]
        ended(s) == [job[j] EXCEPT !.state = s, !.holder = NoWorker] IN
    CASE kind = "success"   -> ended("completed")
      [] kind = "permanent" -> ended("blocked")
      [] kind = "raised" /\ j \notin HasPolicy -> again
      [] OTHER -> IF j \in HasPolicy /\ job[j].attempt <= RetryLimit THEN again
                  ELSE ended("blocked")

\* process_one ends the job if the worker still holds it.
EndJob(w, j, kind) ==
    job' = IF job[j].state = "running" /\ job[j].holder = w
           THEN [job EXCEPT ![j] = FinalizedJob(j, kind)] ELSE job

============================================================================
