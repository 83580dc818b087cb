-------------------------- MODULE JobEngine_proofs --------------------------
(***************************************************************************)
(* Theorems about JobEngine, for every set of keys, workers, callers and   *)
(* policies and every bound.                                               *)
(***************************************************************************)
EXTENDS JobEngine, TLAPS

----------------------------------------------------------------------------
(* What a worker may write over a row whose lease it holds.                *)

\* The effect of finalize, complete and fail on a row r: the lease is gone,
\* identity, policy and attempts are kept, and a row that returns to the queue
\* is within its retry limit and not due before its cooldown.
SettledFrom(r, s) ==
    /\ s \in Row
    /\ s.state \in {"queued", "completed", "blocked"}
    /\ s.owner = NoWorker
    /\ s.key = r.key
    /\ s.policy = r.policy
    /\ s.attempt = r.attempt
    /\ s.state = "queued" => s.cooldown <= s.due
    /\ s.state = "queued" /\ s.policy # NoPolicy => s.attempt <= RetryLimit[s.policy]

\* _retry_delay is clamped between zero and the cap of the policy.
LEMMA RetryDelayBounded ==
    ASSUME NEW p \in Policies, NEW a \in Nat
    PROVE  RetryDelays(p, a) \subseteq Nat
BY PolicyAssumption DEF RetryDelays

\* Clearing the lease keeps the identity of a row.
LEMMA ClearedRow ==
    ASSUME NEW r \in Row
    PROVE  /\ Cleared(r) \in Row
           /\ Cleared(r).owner = NoWorker
           /\ Cleared(r).cooldown = NoTime
           /\ Cleared(r).key = r.key
           /\ Cleared(r).policy = r.policy
           /\ Cleared(r).attempt = r.attempt
BY DEF Cleared, Row, NoTime, Reasons

\* The rows complete, finalize and fail write, by their fields.
LEMMA WrittenRows ==
    ASSUME NEW r \in Row, NEW t \in Nat, NEW reason \in Reasons
    PROVE  /\ SettledFrom(r, CompletedRow(r))
           /\ SettledFrom(r, BlockedRow(r, reason))
           /\ r.policy = NoPolicy \/ r.attempt <= RetryLimit[r.policy] =>
                /\ SettledFrom(r, RequeuedRow(r, t))
                /\ SettledFrom(r, [RequeuedRow(r, t) EXCEPT !.cooldown = t])
<1> DEFINE c == Cleared(r)
<1>1. /\ c \in Row /\ c.owner = NoWorker /\ c.cooldown = NoTime
      /\ c.key = r.key /\ c.policy = r.policy /\ c.attempt = r.attempt
  BY ClearedRow
<1> HIDE DEF c
<1>2. SettledFrom(r, [c EXCEPT !.state = "completed"])
  BY <1>1 DEF SettledFrom, Row, States
<1>3. SettledFrom(r, [c EXCEPT !.state = "blocked", !.reason = reason])
  BY <1>1 DEF SettledFrom, Row, States
<1> DEFINE q == [c EXCEPT !.state = "queued", !.due = t]
           qc == [q EXCEPT !.cooldown = t]
<1>a. /\ q \in Row /\ q.state = "queued" /\ q.due = t /\ q.owner = NoWorker
      /\ q.cooldown = NoTime /\ q.key = r.key /\ q.policy = r.policy
      /\ q.attempt = r.attempt
  BY <1>1 DEF Row, States
<1> HIDE DEF q
<1>b. /\ qc \in Row /\ qc.state = "queued" /\ qc.due = t /\ qc.owner = NoWorker
      /\ qc.cooldown = t /\ qc.key = r.key /\ qc.policy = r.policy
      /\ qc.attempt = r.attempt
  BY <1>a DEF Row, States
<1> HIDE DEF qc
<1>c. NoTime <= t /\ t <= t
  BY DEF NoTime
<1>4. ASSUME r.policy = NoPolicy \/ r.attempt <= RetryLimit[r.policy]
      PROVE  SettledFrom(r, q) /\ SettledFrom(r, qc)
  BY <1>a, <1>b, <1>c, <1>4 DEF SettledFrom
<1> QED
  BY <1>2, <1>3, <1>4 DEF c, q, qc, CompletedRow, BlockedRow, RequeuedRow

\* RetriedRows, the retryable branch of finalize, only settles.
LEMMA RetriedRowsSettle ==
    ASSUME NEW r \in Row, NEW kind, NEW hint \in Hints \cup {NoHint}, now \in Nat,
           NEW s \in RetriedRows(r, kind, hint)
    PROVE  SettledFrom(r, s)
<1> r.attempt \in Nat
  BY DEF Row
<1>1. CASE r.policy = NoPolicy
  BY <1>1, WrittenRows DEF RetriedRows, Reasons
<1>2. CASE r.policy # NoPolicy
  <2>1. r.policy \in Policies /\ RetryLimit[r.policy] \in Nat
    BY <1>2, PolicyAssumption DEF Row
  <2>2. CASE r.attempt > RetryLimit[r.policy]
    BY <1>2, <2>2, WrittenRows DEF RetriedRows, Reasons
  <2>3. CASE ~(r.attempt > RetryLimit[r.policy]) /\ kind = "cooldown"
    <3>1. PICK t \in {u \in {CooldownDue(r.policy, hint)} : u > now} :
              s = [RequeuedRow(r, t) EXCEPT !.cooldown = t]
      BY <1>2, <2>3 DEF RetriedRows
    <3>2. t \in Int
      BY <2>1, PolicyAssumption, HintAssumption DEF CooldownDue, NoTime
    <3>3. t \in Nat
      BY <3>1, <3>2
    <3>4. r.attempt <= RetryLimit[r.policy]
      BY <2>1, <2>3
    <3> QED
      BY <3>1, <3>3, <3>4, WrittenRows DEF Reasons
  <2>4. CASE ~(r.attempt > RetryLimit[r.policy]) /\ kind # "cooldown"
    <3>1. PICK d \in RetryDelays(r.policy, r.attempt) : s = RequeuedRow(r, now + d)
      BY <1>2, <2>4 DEF RetriedRows
    <3>2. now + d \in Nat
      BY <2>1, RetryDelayBounded
    <3>3. r.attempt <= RetryLimit[r.policy]
      BY <2>1, <2>4
    <3> QED
      BY <3>1, <3>2, <3>3, WrittenRows DEF Reasons
  <2> QED
    BY <2>2, <2>3, <2>4
<1> QED
  BY <1>1, <1>2

\* finalize only settles.
LEMMA FinalizedRowsSettle ==
    ASSUME NEW r \in Row, NEW kind \in Outcomes, NEW hint \in Hints \cup {NoHint},
           now \in Nat, NEW s \in FinalizedRows(r, kind, hint)
    PROVE  SettledFrom(r, s)
<1>1. CASE kind = "success"
  BY <1>1, WrittenRows DEF FinalizedRows, Reasons
<1>2. CASE kind = "permanent"
  BY <1>2, WrittenRows DEF FinalizedRows, Reasons
<1>3. CASE kind # "success" /\ kind # "permanent"
  <2>1. s \in RetriedRows(r, kind, hint)
    BY <1>3 DEF FinalizedRows
  <2> QED
    BY <2>1, RetriedRowsSettle
<1> QED
  BY <1>1, <1>2, <1>3

\* The exception branch of process_one only settles.
LEMMA FailedRowsSettle ==
    ASSUME NEW r \in Row, now \in Nat, NEW s \in FailedRows(r)
    PROVE  SettledFrom(r, s)
<1>1. CASE r.policy = NoPolicy
  BY <1>1, WrittenRows DEF FailedRows, Reasons
<1>2. CASE r.policy # NoPolicy
  BY <1>2, RetriedRowsSettle DEF FailedRows
<1> QED
  BY <1>1, <1>2
----------------------------------------------------------------------------
(* Type correctness.                                                       *)

\* Every row written by an action is a row.
LEMMA RowTypes ==
    ASSUME now \in Nat, NEW r \in Row
    PROVE  /\ ReclaimedRow(r) \in Row
           /\ RenewedRow(r) \in Row
           /\ \A w \in Workers : ClaimedRow(r, w) \in Row
           /\ \A k \in Keys, t \in Nat : NewRow(k, t) \in Row
<1> now + Lease \in Nat
  BY BoundsAssumption
<1>1. ReclaimedRow(r) \in Row
  BY DEF ReclaimedRow, Row, States
<1>2. RenewedRow(r) \in Row
  BY DEF RenewedRow, Row
<1>3. ASSUME NEW w \in Workers PROVE ClaimedRow(r, w) \in Row
  <2>1. r.attempt + 1 \in Nat
    BY DEF Row
  <2>2. [r EXCEPT !.state = "running", !.owner = w, !.expires = now + Lease,
                  !.attempt = r.attempt + 1] \in Row
    BY <2>1 DEF Row, States
  <2> QED
    BY <2>2 DEF ClaimedRow
<1>4. ASSUME NEW k \in Keys, NEW t \in Nat PROVE NewRow(k, t) \in Row
  <2>1. AbsentRow \in Row
    BY DEF AbsentRow, Row, States, Reasons, NoTime
  <2>2. PolicyOf[k] \in Policies \cup {NoPolicy}
    BY PolicyAssumption
  <2> QED
    BY <2>1, <2>2 DEF NewRow, Row, States
<1> QED
  BY <1>1, <1>2, <1>3, <1>4

\* A fault is spent within its bound.
LEMMA FaultType ==
    ASSUME faults \in 0..MaxFaults, SpendFault
    PROVE  faults' \in 0..MaxFaults
BY BoundsAssumption DEF SpendFault

\* The first state has the types.
LEMMA TypeInit == Init => TypeOK
<1> SUFFICES ASSUME Init PROVE TypeOK
  OBVIOUS
<1>1. AbsentRow \in Row
  BY DEF AbsentRow, Row, States, Reasons
<1>2. IdleWorker \in WorkerState /\ IdleCaller \in CallState
  BY DEF IdleWorker, WorkerState, IdleCaller, CallState
<1>3. \A w \in Workers : ~Busy(w)
  BY DEF Init, Busy, IdleWorker
<1>4. \A c \in Callers : call[c].pc = "idle"
  BY DEF Init, IdleCaller
<1> QED
  BY <1>1, <1>2, <1>3, <1>4, BoundsAssumption DEF Init, TypeOK

\* A worker that stops acting on a job, or only moves to the exception branch,
\* keeps the processes well typed.
LEMMA ProcTypes ==
    ASSUME TypeOK, NEW w \in Workers
    PROVE  /\ proc' = [proc EXCEPT ![w] = IdleWorker] \/ proc' = [proc EXCEPT ![w] = DownWorker] =>
                /\ proc' \in [Workers -> WorkerState]
                /\ \A v \in Workers : Busy(v)' => proc'[v].job \in JobIds
           /\ proc[w].pc = "handling" /\ proc' = [proc EXCEPT ![w].pc = "failing"] =>
                /\ proc' \in [Workers -> WorkerState]
                /\ \A v \in Workers : Busy(v)' => proc'[v].job \in JobIds
<1> IdleWorker \in WorkerState /\ DownWorker \in WorkerState
  BY DEF IdleWorker, DownWorker, WorkerState
<1>1. proc \in [Workers -> WorkerState] /\ \A v \in Workers : Busy(v) => proc[v].job \in JobIds
  BY DEF TypeOK
<1>2. ASSUME proc' = [proc EXCEPT ![w] = IdleWorker] \/ proc' = [proc EXCEPT ![w] = DownWorker]
      PROVE  /\ proc' \in [Workers -> WorkerState]
             /\ \A v \in Workers : Busy(v)' => proc'[v].job \in JobIds
  BY <1>1, <1>2 DEF Busy, IdleWorker, DownWorker
<1>3. ASSUME proc[w].pc = "handling", proc' = [proc EXCEPT ![w].pc = "failing"]
      PROVE  /\ proc' \in [Workers -> WorkerState]
             /\ \A v \in Workers : Busy(v)' => proc'[v].job \in JobIds
  BY <1>1, <1>3 DEF Busy, WorkerState
<1> QED
  BY <1>2, <1>3

\* No step of the engine leaves the types.
LEMMA TypeNext == TypeOK /\ [ApiNext]_vars => TypeOK'
<1> SUFFICES ASSUME TypeOK, [ApiNext]_vars PROVE TypeOK'
  OBVIOUS
<1> now \in Nat /\ job \in [JobIds -> Row] /\ lost \in [JobIds -> Nat]
  BY DEF TypeOK
<1> proc \in [Workers -> WorkerState] /\ call \in [Callers -> CallState]
  BY DEF TypeOK
<1> faults \in 0..MaxFaults
  BY DEF TypeOK
<1> USE DEF vars
<1>1. ASSUME NEW c \in Callers, NEW k \in Keys, EnqueueBegin(c, k) PROVE TypeOK'
  <2>1. [pc |-> "lookup", key |-> k, due |-> now, tries |-> 2] \in CallState
    BY DEF CallState
  <2> QED
    BY <1>1, <2>1 DEF EnqueueBegin, TypeOK, Busy
<1>2. ASSUME NEW c \in Callers, EnqueueLookup(c) PROVE TypeOK'
  BY <1>2 DEF EnqueueLookup, TypeOK, Busy, CallState, IdleCaller
<1>3. ASSUME NEW c \in Callers, EnqueueInsert(c) PROVE TypeOK'
  <2>1. call[c].key \in Keys /\ call[c].due \in Nat
    BY <1>3 DEF EnqueueInsert, TypeOK, CallState
  <2>2. job' \in [JobIds -> Row]
    BY <1>3, <2>1, RowTypes DEF EnqueueInsert
  <2> QED
    BY <1>3, <2>2 DEF EnqueueInsert, TypeOK, Busy, CallState, IdleCaller
<1>4. ASSUME NEW c \in Callers, EnqueueConflict(c) PROVE TypeOK'
  <2>1. call[c].key \in Keys /\ call[c].tries \in 0..2
    BY <1>4 DEF EnqueueConflict, TypeOK, CallState
  <2>2. call' \in [Callers -> CallState] /\ refused' \subseteq Keys
    BY <1>4, <2>1 DEF EnqueueConflict, TypeOK, CallState, IdleCaller
  <2>3. \A d \in Callers : call'[d].pc # "idle" => call'[d].key \in Keys
    BY <1>4, <2>1 DEF EnqueueConflict, TypeOK, CallState, IdleCaller
  <2> QED
    BY <1>4, <2>2, <2>3 DEF EnqueueConflict, TypeOK, Busy
<1>5. ASSUME NEW w \in Workers, Claim(w) PROVE TypeOK'
  <2>1. Reclaimed \in [JobIds -> Row]
    BY RowTypes DEF Reclaimed
  <2>2. LostAfterReclaim \in [JobIds -> Nat]
    BY DEF LostAfterReclaim
  <2>3. PICK j \in JobIds : /\ job' = [Reclaimed EXCEPT ![j] = ClaimedRow(@, w)]
                            /\ proc' = [proc EXCEPT ![w] = [pc |-> "handling", job |-> j,
                                                            attempt |-> job[j].attempt + 1]]
    BY <1>5 DEF Claim
  <2>4. job' \in [JobIds -> Row]
    BY <2>1, <2>3, RowTypes
  <2>5. [pc |-> "handling", job |-> j, attempt |-> job[j].attempt + 1] \in WorkerState
    BY DEF WorkerState, Row
  <2>6. proc' \in [Workers -> WorkerState] /\ \A v \in Workers : Busy(v)' => proc'[v].job \in JobIds
    BY <2>3, <2>5 DEF TypeOK, Busy
  <2> QED
    BY <1>5, <2>2, <2>4, <2>6 DEF Claim, TypeOK
<1>6. ASSUME NEW w \in Workers, Finish(w) PROVE TypeOK'
  <2>1. proc[w].job \in JobIds
    BY <1>6 DEF Finish, TypeOK, Busy
  <2>2. job' \in [JobIds -> Row]
    <3>1. CASE UNCHANGED job
      BY <3>1
    <3>2. CASE \E kind \in Outcomes, hint \in Hints \cup {NoHint} :
                  \E r \in FinalizedRows(job[proc[w].job], kind, hint) :
                      job' = [job EXCEPT ![proc[w].job] = r]
      BY <2>1, <3>2, FinalizedRowsSettle DEF SettledFrom
    <3> QED
      BY <1>6, <3>1, <3>2 DEF Finish
  <2>3. \/ proc' = [proc EXCEPT ![w] = IdleWorker]
        \/ proc[w].pc = "handling" /\ proc' = [proc EXCEPT ![w].pc = "failing"]
    BY <1>6 DEF Finish
  <2> QED
    BY <1>6, <2>2, <2>3, ProcTypes DEF Finish, TypeOK
<1>7. ASSUME NEW w \in Workers, DropLostLease(w) PROVE TypeOK'
  BY <1>7, ProcTypes DEF DropLostLease, TypeOK
<1>8. ASSUME NEW w \in Workers, Raise(w) PROVE TypeOK'
  <2>1. faults' \in 0..MaxFaults
    BY <1>8, FaultType DEF Raise, RationUnlimited
  <2> QED
    BY <1>8, <2>1, ProcTypes DEF Raise, TypeOK
<1>9. ASSUME NEW w \in Workers, FailRaised(w) \/ FailUnregistered(w) PROVE TypeOK'
  <2>1. proc[w].job \in JobIds
    BY <1>9 DEF FailRaised, FailUnregistered, TypeOK, Busy
  <2>2. job' \in [JobIds -> Row]
    BY <1>9, <2>1, FailedRowsSettle DEF FailRaised, FailUnregistered, WriteFailure, SettledFrom
  <2>3. faults' \in 0..MaxFaults
    BY <1>9, FaultType DEF FailRaised, FailUnregistered, RationUnlimited
  <2> QED
    BY <1>9, <2>2, <2>3, ProcTypes DEF FailRaised, FailUnregistered, WriteFailure, TypeOK
<1>10. ASSUME NEW w \in Workers, Escape(w) \/ Restart(w) PROVE TypeOK'
  BY <1>10, ProcTypes DEF Escape, Restart, TypeOK
<1>11. ASSUME NEW w \in Workers, Unavailable(w) \/ Crash(w) PROVE TypeOK'
  BY <1>11, ProcTypes, FaultType DEF Unavailable, Crash, TypeOK
<1>12. ASSUME NEW w \in Workers, Renew(w) PROVE TypeOK'
  <2>1. proc[w].job \in JobIds
    BY <1>12 DEF Renew, TypeOK, Busy
  <2> QED
    BY <1>12, <2>1, RowTypes, FaultType DEF Renew, TypeOK, Busy
<1>13. CASE Recover
  BY <1>13, RowTypes DEF Recover, Reclaimed, LostAfterReclaim, TypeOK, Busy
<1>14. CASE Tick
  <2>1. faults' \in 0..MaxFaults
    BY <1>14, FaultType DEF Tick
  <2> QED
    BY <1>14, <2>1 DEF Tick, TypeOK, Busy
<1>15. CASE UNCHANGED vars
  BY <1>15 DEF TypeOK, Busy
<1> QED
  BY <1>1, <1>2, <1>3, <1>4, <1>5, <1>6, <1>7, <1>8, <1>9, <1>10, <1>11, <1>12,
     <1>13, <1>14, <1>15
     DEF ApiNext, Next, Enqueue, WorkerStep

\* The engine keeps its types, whatever its keys, workers and policies.
THEOREM TypeCorrect == ApiSpec => []TypeOK
BY TypeInit, TypeNext, PTL DEF ApiSpec
----------------------------------------------------------------------------
(* The shapes of the steps: only five of them touch the table.             *)

\* A worker that holds the lease of its job writes the outcome.
Settles(w) ==
    /\ Busy(w)
    /\ Holds(w, proc[w].job)
    /\ \E s : /\ SettledFrom(job[proc[w].job], s)
              /\ job' = [job EXCEPT ![proc[w].job] = s]
    /\ proc' = [proc EXCEPT ![w] = IdleWorker]
    /\ UNCHANGED <<now, lost>>

\* A step that leaves the table alone: time may pass, a worker may stop being
\* busy or go on to its exception branch.
Quiet ==
    /\ UNCHANGED <<job, lost>>
    /\ now' \in Nat /\ now' >= now
    /\ \A w \in Workers :
          Busy(w)' => /\ Busy(w)
                      /\ proc'[w].job = proc[w].job
                      /\ proc'[w].attempt = proc[w].attempt
    /\ proc' = proc \/ \E w \in Workers : \A v \in Workers \ {w} : proc'[v] = proc[v]

\* What each kind of step may write.
LEMMA StepShapes ==
    ASSUME TypeOK, [ApiNext]_vars
    PROVE  \/ \E c \in Callers : EnqueueInsert(c)
           \/ \E w \in Workers : Claim(w) \/ Settles(w) \/ Renew(w)
           \/ Recover
           \/ Quiet
<1> now \in Nat /\ proc \in [Workers -> WorkerState] /\ job \in [JobIds -> Row]
  BY DEF TypeOK
<1>1. ASSUME UNCHANGED <<job, lost, now, proc>> PROVE Quiet
  BY <1>1 DEF Quiet, Busy
<1>2. ASSUME NEW w \in Workers, UNCHANGED <<job, lost, now>>,
             \/ proc' = [proc EXCEPT ![w] = IdleWorker]
             \/ proc' = [proc EXCEPT ![w] = DownWorker]
             \/ proc[w].pc = "handling" /\ proc' = [proc EXCEPT ![w].pc = "failing"]
      PROVE  Quiet
  BY <1>2 DEF Quiet, Busy, IdleWorker, DownWorker, WorkerState
<1>3. ASSUME NEW c \in Callers, Enqueue(c)
      PROVE  EnqueueInsert(c) \/ Quiet
  BY <1>1, <1>3 DEF Enqueue, EnqueueBegin, EnqueueLookup, EnqueueConflict
<1>4. ASSUME NEW w \in Workers, Finish(w) PROVE Settles(w) \/ Quiet
  <2>1. proc[w].job \in JobIds /\ Busy(w)
    BY <1>4 DEF Finish, TypeOK, Busy
  <2>2. CASE UNCHANGED job /\ proc' = [proc EXCEPT ![w].pc = "failing"]
    BY <1>2, <1>4, <2>2 DEF Finish
  <2>3. CASE \E kind \in Outcomes, hint \in Hints \cup {NoHint} :
                \E r \in FinalizedRows(job[proc[w].job], kind, hint) :
                    /\ job' = [job EXCEPT ![proc[w].job] = r]
                    /\ proc' = [proc EXCEPT ![w] = IdleWorker]
    <3>1. PICK kind \in Outcomes, hint \in Hints \cup {NoHint} :
              \E r \in FinalizedRows(job[proc[w].job], kind, hint) :
                    /\ job' = [job EXCEPT ![proc[w].job] = r]
                    /\ proc' = [proc EXCEPT ![w] = IdleWorker]
      BY <2>3
    <3>2. PICK r \in FinalizedRows(job[proc[w].job], kind, hint) :
                    /\ job' = [job EXCEPT ![proc[w].job] = r]
                    /\ proc' = [proc EXCEPT ![w] = IdleWorker]
      BY <3>1
    <3>3. SettledFrom(job[proc[w].job], r)
      BY <2>1, FinalizedRowsSettle
    <3> QED
      BY <1>4, <2>1, <3>2, <3>3 DEF Finish, Settles
  <2> QED
    BY <1>4, <2>2, <2>3 DEF Finish
<1>5. ASSUME NEW w \in Workers, FailRaised(w) \/ FailUnregistered(w) PROVE Settles(w)
  <2>1. proc[w].job \in JobIds /\ Busy(w)
    BY <1>5 DEF FailRaised, FailUnregistered, TypeOK, Busy
  <2>2. \A r \in FailedRows(job[proc[w].job]) : SettledFrom(job[proc[w].job], r)
    BY <2>1, FailedRowsSettle
  <2> QED
    BY <1>5, <2>1, <2>2 DEF FailRaised, FailUnregistered, WriteFailure, Settles
<1>6. ASSUME NEW w \in Workers,
             \/ DropLostLease(w) \/ Raise(w) \/ Escape(w)
             \/ Unavailable(w) \/ Crash(w) \/ Restart(w)
      PROVE  Quiet
  BY <1>2, <1>6 DEF DropLostLease, Raise, Escape, Unavailable, Crash, Restart
<1>7. ASSUME Tick PROVE Quiet
  BY <1>7 DEF Tick, Quiet, Busy
<1>8. ASSUME UNCHANGED vars PROVE Quiet
  BY <1>1, <1>8 DEF vars
<1> QED
  BY <1>3, <1>4, <1>5, <1>6, <1>7, <1>8 DEF ApiNext, Next, WorkerStep
----------------------------------------------------------------------------
(* The inductive invariant.                                                *)

\* What reclaiming does to a row, expired or not.
LEMMA ReclaimedRowFacts ==
    ASSUME now \in Nat, NEW r \in Row
    PROVE  /\ ReclaimedRow(r) \in Row
           /\ ReclaimedRow(r).key = r.key
           /\ ReclaimedRow(r).policy = r.policy
           /\ ReclaimedRow(r).attempt = r.attempt
           /\ ReclaimedRow(r).cooldown = r.cooldown
           /\ LeaseExpired(r) => /\ ReclaimedRow(r).state = "queued"
                                 /\ ReclaimedRow(r).owner = NoWorker
                                 /\ ReclaimedRow(r).due = now
           /\ ~LeaseExpired(r) => ReclaimedRow(r) = r
<1>1. ReclaimedRow(r) \in Row
  BY RowTypes
<1>2. CASE LeaseExpired(r)
  BY <1>1, <1>2 DEF ReclaimedRow, Row, States
<1>3. CASE ~LeaseExpired(r)
  BY <1>1, <1>3 DEF ReclaimedRow
<1> QED
  BY <1>1, <1>2, <1>3

\* What a claim leaves in its row.
LEMMA ClaimedRowFacts ==
    ASSUME now \in Nat, NEW r \in Row, NEW w \in Workers
    PROVE  /\ ClaimedRow(r, w).key = r.key
           /\ ClaimedRow(r, w).policy = r.policy
           /\ ClaimedRow(r, w).attempt = r.attempt + 1
           /\ ClaimedRow(r, w).cooldown = r.cooldown
           /\ ClaimedRow(r, w).state = "running"
           /\ ClaimedRow(r, w).owner = w
BY DEF ClaimedRow, Row

\* The part of the invariant that is about one row at time t, n being the
\* leases it has lost.
RowInv(r, n, t) ==
    /\ r \in Row /\ n \in Nat
    /\ r.state = "running" <=> r.owner # NoWorker
    /\ r.state = "absent" => r.attempt = 0
    /\ r.policy # NoPolicy =>
          /\ RetryLimit[r.policy] \in Nat
          /\ r.attempt <= RetryLimit[r.policy] + 1 + n
          /\ r.state = "queued" => r.attempt <= RetryLimit[r.policy] + n
    /\ r.state = "queued" => r.cooldown <= r.due
    /\ r.state = "running" => r.cooldown <= t

TableInv == \A j \in JobIds : RowInv(job[j], lost[j], now)

\* The two ways of stating the table part agree.
LEMMA TableInvEquiv ==
    ASSUME TypeOK
    PROVE  RowsCoherent /\ RetryBudget /\ QueuedWithinLimit /\ CooldownKept <=> TableInv
BY PolicyAssumption DEF TypeOK, TableInv, RowInv, RowsCoherent, RetryBudget,
   QueuedWithinLimit, CooldownKept, Row

\* Time only helps.
LEMMA RowInvLater ==
    ASSUME NEW r, NEW n, NEW t \in Nat, NEW u \in Nat, u >= t, RowInv(r, n, t)
    PROVE  RowInv(r, n, u)
<1>1. r.state = "running" => r.cooldown \in Int
  BY DEF RowInv, Row, NoTime
<1> QED
  BY <1>1 DEF RowInv

\* The UPDATE of reclaim keeps every row's invariant.
LEMMA ReclaimKeepsRow ==
    ASSUME TypeOK, TableInv, NEW j \in JobIds
    PROVE  RowInv(Reclaimed[j], LostAfterReclaim[j], now)
<1>1. now \in Nat /\ job[j] \in Row /\ lost[j] \in Nat
  BY DEF TypeOK
<1>2. Reclaimed[j] = ReclaimedRow(job[j]) /\ RowInv(job[j], lost[j], now)
  BY DEF Reclaimed, TableInv
<1>3. CASE LeaseExpired(job[j])
  <2>1. LostAfterReclaim[j] = lost[j] + 1
    BY <1>3 DEF LostAfterReclaim
  <2>2. job[j].attempt \in Nat /\ job[j].state = "running"
    BY <1>1, <1>3 DEF Row, LeaseExpired
  <2> QED
    BY <1>1, <1>2, <1>3, <2>1, <2>2, ReclaimedRowFacts DEF RowInv
<1>4. CASE ~LeaseExpired(job[j])
  <2>1. LostAfterReclaim[j] = lost[j]
    BY <1>4 DEF LostAfterReclaim
  <2> QED
    BY <1>1, <1>2, <1>4, <2>1, ReclaimedRowFacts
<1> QED
  BY <1>3, <1>4

\* A row settled from a running one keeps its invariant.
LEMMA SettleKeepsRow ==
    ASSUME NEW r, NEW n, NEW t \in Nat, NEW s, RowInv(r, n, t), SettledFrom(r, s)
    PROVE  RowInv(s, n, t)
<1>1. r.attempt \in Nat /\ s.attempt \in Nat
  BY DEF RowInv, SettledFrom, Row
<1> QED
  BY <1>1 DEF RowInv, SettledFrom

\* A due row that is claimed keeps its invariant.
LEMMA ClaimKeepsRow ==
    ASSUME now \in Nat, NEW r, NEW n, NEW w \in Workers, RowInv(r, n, now), DueRow(r)
    PROVE  RowInv(ClaimedRow(r, w), n, now)
<1>1. r \in Row /\ r.state = "queued" /\ r.due \in Nat /\ r.due <= now /\ r.cooldown <= r.due
  BY DEF RowInv, DueRow, Row
<1>2. r.cooldown <= now /\ r.attempt \in Nat
  BY <1>1 DEF Row, NoTime
<1>3. ClaimedRow(r, w) \in Row
  BY <1>1, RowTypes
<1> QED
  BY <1>1, <1>2, <1>3, ClaimedRowFacts, WorkerAssumption DEF RowInv

\* Every step keeps the invariant of every row.
LEMMA TableInvNext ==
    ASSUME TypeOK, TypeOK', TableInv, [ApiNext]_vars
    PROVE  TableInv'
<1> now \in Nat /\ job \in [JobIds -> Row] /\ lost \in [JobIds -> Nat]
  BY DEF TypeOK
<1>1. ASSUME NEW c \in Callers, EnqueueInsert(c) PROVE TableInv'
  <2>1. PICK j \in JobIds : NextRow(j) /\ job' = [job EXCEPT ![j] = NewRow(call[c].key, call[c].due)]
    BY <1>1 DEF EnqueueInsert
  <2>2. call[c].key \in Keys /\ call[c].due \in Nat
    BY <1>1 DEF EnqueueInsert, TypeOK, CallState
  <2>3. NewRow(call[c].key, call[c].due) \in Row
    BY <2>2, RowTypes
  <2>4. \A p \in Policies : RetryLimit[p] \in Nat
    BY PolicyAssumption
  <2>5. RowInv(NewRow(call[c].key, call[c].due), lost[j], now)
    <3> DEFINE r == NewRow(call[c].key, call[c].due)
    <3>1. /\ r.state = "queued" /\ r.owner = NoWorker /\ r.attempt = 0
          /\ r.cooldown = -1 /\ r.due = call[c].due
      BY DEF NewRow, AbsentRow, NoTime
    <3>2. r \in Row /\ lost[j] \in Nat /\ r.policy \in Policies \cup {NoPolicy}
      BY <2>3 DEF Row
    <3> HIDE DEF r
    <3>3. RowInv(r, lost[j], now)
      BY <2>2, <2>4, <3>1, <3>2 DEF RowInv
    <3> QED
      BY <3>3 DEF r
  <2> QED
    BY <1>1, <2>1, <2>5 DEF EnqueueInsert, TableInv
<1>2. ASSUME NEW w \in Workers, Claim(w) PROVE TableInv'
  <2>1. PICK j \in JobIds : FirstDue(Reclaimed, j) /\ job' = [Reclaimed EXCEPT ![j] = ClaimedRow(@, w)]
    BY <1>2 DEF Claim
  <2>2. DOMAIN Reclaimed = JobIds /\ lost' = LostAfterReclaim /\ now' = now
    BY <1>2 DEF Claim, Reclaimed
  <2>3. RowInv(ClaimedRow(Reclaimed[j], w), LostAfterReclaim[j], now)
    BY <2>1, ReclaimKeepsRow, ClaimKeepsRow DEF FirstDue
  <2> QED
    BY <2>1, <2>2, <2>3, ReclaimKeepsRow DEF TableInv
<1>3. ASSUME NEW w \in Workers, Settles(w) PROVE TableInv'
  <2>1. proc[w].job \in JobIds
    BY <1>3 DEF Settles, TypeOK
  <2>2. PICK s : SettledFrom(job[proc[w].job], s) /\ job' = [job EXCEPT ![proc[w].job] = s]
    BY <1>3 DEF Settles
  <2>3. RowInv(s, lost[proc[w].job], now)
    BY <2>1, <2>2, SettleKeepsRow DEF TableInv
  <2> QED
    BY <1>3, <2>1, <2>2, <2>3 DEF Settles, TableInv
<1>4. ASSUME NEW w \in Workers, Renew(w) PROVE TableInv'
  <2>1. proc[w].job \in JobIds
    BY <1>4 DEF Renew, TypeOK, Busy
  <2>2. RowInv(RenewedRow(job[proc[w].job]), lost[proc[w].job], now)
    <3> DEFINE r == job[proc[w].job]
    <3>1. RowInv(r, lost[proc[w].job], now) /\ RenewedRow(r) \in Row
      BY <2>1, RowTypes DEF TableInv
    <3>2. /\ RenewedRow(r).state = r.state /\ RenewedRow(r).owner = r.owner
          /\ RenewedRow(r).policy = r.policy /\ RenewedRow(r).attempt = r.attempt
          /\ RenewedRow(r).due = r.due /\ RenewedRow(r).cooldown = r.cooldown
      BY <2>1 DEF RenewedRow, Row
    <3> QED
      BY <3>1, <3>2 DEF RowInv
  <2> QED
    BY <1>4, <2>1, <2>2 DEF Renew, TableInv
<1>5. CASE Recover
  BY <1>5, ReclaimKeepsRow DEF Recover, TableInv
<1>6. CASE Quiet
  BY <1>6, RowInvLater DEF Quiet, TableInv
<1> QED
  BY <1>1, <1>2, <1>3, <1>4, <1>5, <1>6, StepShapes

\* Two unfinished rows never share a key.
LEMMA UniqueNext ==
    ASSUME TypeOK, TypeOK', UniqueActiveKey, [ApiNext]_vars
    PROVE  UniqueActiveKey'
<1> DEFINE Live(r) == r.state \in {"queued", "running", "blocked"}
<1> now \in Nat /\ job \in [JobIds -> Row]
  BY DEF TypeOK
<1>1. ASSUME \A j \in JobIds : Live(job'[j]) => Live(job[j]) /\ job'[j].key = job[j].key
      PROVE  UniqueActiveKey'
  BY <1>1 DEF UniqueActiveKey
<1>2. ASSUME NEW c \in Callers, EnqueueInsert(c) PROVE UniqueActiveKey'
  <2>1. PICK j \in JobIds : job' = [job EXCEPT ![j] = NewRow(call[c].key, call[c].due)]
    BY <1>2 DEF EnqueueInsert
  <2>2. NewRow(call[c].key, call[c].due).key = call[c].key
    BY DEF NewRow, AbsentRow
  <2>3. \A i \in JobIds : Live(job[i]) => job[i].key # call[c].key
    BY <1>2 DEF EnqueueInsert, Unfinished
  <2> QED
    BY <2>1, <2>2, <2>3 DEF UniqueActiveKey
<1>3. ASSUME NEW j \in JobIds
      PROVE  Live(Reclaimed[j]) => Live(job[j]) /\ Reclaimed[j].key = job[j].key
  <2>1. Reclaimed[j] = ReclaimedRow(job[j])
    BY DEF Reclaimed
  <2> QED
    BY <2>1, ReclaimedRowFacts DEF LeaseExpired
<1>4. ASSUME NEW w \in Workers, Claim(w) PROVE UniqueActiveKey'
  <2>1. PICK j \in JobIds : FirstDue(Reclaimed, j) /\ job' = [Reclaimed EXCEPT ![j] = ClaimedRow(@, w)]
    BY <1>4 DEF Claim
  <2>2. DOMAIN Reclaimed = JobIds /\ Reclaimed[j] \in Row
    BY ReclaimedRowFacts DEF Reclaimed
  <2>3. ClaimedRow(Reclaimed[j], w).key = Reclaimed[j].key /\ Live(Reclaimed[j])
    BY <2>1, <2>2, ClaimedRowFacts DEF FirstDue, DueRow
  <2> QED
    BY <1>1, <1>3, <2>1, <2>2, <2>3
<1>5. ASSUME NEW w \in Workers, Settles(w) PROVE UniqueActiveKey'
  <2>1. proc[w].job \in JobIds
    BY <1>5 DEF Settles, TypeOK
  <2>2. PICK s : SettledFrom(job[proc[w].job], s) /\ job' = [job EXCEPT ![proc[w].job] = s]
    BY <1>5 DEF Settles
  <2>3. Live(job[proc[w].job])
    BY <1>5 DEF Settles, Holds
  <2> QED
    BY <1>1, <2>1, <2>2, <2>3 DEF SettledFrom
<1>6. ASSUME NEW w \in Workers, Renew(w) PROVE UniqueActiveKey'
  <2>1. proc[w].job \in JobIds
    BY <1>6 DEF Renew, TypeOK, Busy
  <2>2. /\ RenewedRow(job[proc[w].job]).state = job[proc[w].job].state
        /\ RenewedRow(job[proc[w].job]).key = job[proc[w].job].key
    BY <2>1 DEF RenewedRow, Row
  <2> QED
    BY <1>1, <1>6, <2>1, <2>2 DEF Renew
<1>7. CASE Recover
  BY <1>1, <1>3, <1>7 DEF Recover
<1>8. CASE Quiet
  BY <1>1, <1>8 DEF Quiet
<1> QED
  BY <1>2, <1>4, <1>5, <1>6, <1>7, <1>8, StepShapes

\* The fence holds through claims, reclaims and outcomes of other workers.
LEMMA FencingNext ==
    ASSUME TypeOK, TypeOK', TableInv, Fencing, [ApiNext]_vars
    PROVE  Fencing'
<1> DEFINE Fenced(v, a, r) == \/ r.attempt = a /\ r.state = "running" /\ r.owner = v
                              \/ r.attempt = a /\ r.state = "queued"
                              \/ r.attempt > a /\ r.owner # v
<1> now \in Nat /\ job \in [JobIds -> Row] /\ proc \in [Workers -> WorkerState]
  BY DEF TypeOK
<1>0. \A v \in Workers : Busy(v) => /\ proc[v].job \in JobIds /\ proc[v].attempt \in Nat
                                    /\ Fenced(v, proc[v].attempt, job[proc[v].job])
  BY DEF Fencing, TypeOK, WorkerState
<1> SUFFICES ASSUME NEW v \in Workers, Busy(v)'
             PROVE  Fenced(v, proc'[v].attempt, job'[proc'[v].job])
  BY DEF Fencing
<1>1. ASSUME NEW c \in Callers, EnqueueInsert(c)
      PROVE  Fenced(v, proc'[v].attempt, job'[proc'[v].job])
  <2>1. PICK j \in JobIds : NextRow(j) /\ job' = [job EXCEPT ![j] = NewRow(call[c].key, call[c].due)]
    BY <1>1 DEF EnqueueInsert
  <2>2. proc' = proc /\ Busy(v)
    BY <1>1 DEF EnqueueInsert, Busy
  <2>3. proc[v].job # j
    BY <1>0, <2>1, <2>2 DEF NextRow, TableInv, RowInv, Row
  <2> QED
    BY <1>0, <2>1, <2>2, <2>3
<1>2. ASSUME NEW j \in JobIds, NEW a \in Nat, Fenced(v, a, job[j])
      PROVE  Fenced(v, a, Reclaimed[j])
  <2>1. Reclaimed[j] = ReclaimedRow(job[j])
    BY DEF Reclaimed
  <2> QED
    BY <1>2, <2>1, ReclaimedRowFacts, WorkerAssumption
<1>3. ASSUME NEW w \in Workers, Claim(w)
      PROVE  Fenced(v, proc'[v].attempt, job'[proc'[v].job])
  <2>1. PICK j \in JobIds : /\ FirstDue(Reclaimed, j)
                            /\ job' = [Reclaimed EXCEPT ![j] = ClaimedRow(@, w)]
                            /\ proc' = [proc EXCEPT ![w] = [pc |-> "handling", job |-> j,
                                                            attempt |-> job[j].attempt + 1]]
    BY <1>3 DEF Claim
  <2>2. Reclaimed \in [JobIds -> Row] /\ Reclaimed[j].attempt = job[j].attempt
    BY ReclaimedRowFacts DEF Reclaimed
  <2>3. /\ job'[j].attempt = job[j].attempt + 1
        /\ job'[j].state = "running" /\ job'[j].owner = w
    BY <2>1, <2>2, ClaimedRowFacts
  <2>4. CASE v = w
    BY <2>1, <2>3, <2>4
  <2>5. CASE v # w
    <3>1. proc'[v] = proc[v] /\ Busy(v)
      BY <2>1, <2>5 DEF Busy
    <3>2. CASE proc[v].job = j
      <4>1. job[j].attempt \in Nat /\ job[j].attempt >= proc[v].attempt
        BY <1>0, <3>1, <3>2 DEF Row
      <4> QED
        BY <1>0, <2>3, <2>5, <3>1, <3>2, <4>1
    <3>3. CASE proc[v].job # j
      BY <1>0, <1>2, <2>1, <2>2, <3>1, <3>3
    <3> QED
      BY <3>2, <3>3
  <2> QED
    BY <2>4, <2>5
<1>4. ASSUME NEW w \in Workers, Settles(w)
      PROVE  Fenced(v, proc'[v].attempt, job'[proc'[v].job])
  <2>1. PICK s : SettledFrom(job[proc[w].job], s) /\ job' = [job EXCEPT ![proc[w].job] = s]
    BY <1>4 DEF Settles
  <2>2. v # w /\ proc'[v] = proc[v] /\ Busy(v)
    BY <1>4 DEF Settles, Busy, IdleWorker
  <2>3. CASE proc[v].job = proc[w].job
    <3>1. job[proc[v].job].state = "running" /\ job[proc[v].job].owner = w
      BY <1>4, <2>3 DEF Settles, Holds
    <3>2. job[proc[v].job].attempt > proc[v].attempt
      BY <1>0, <2>2, <3>1
    <3> QED
      BY <1>0, <2>1, <2>2, <2>3, <3>2, WorkerAssumption DEF SettledFrom
  <2>4. CASE proc[v].job # proc[w].job
    BY <1>0, <2>1, <2>2, <2>4
  <2> QED
    BY <2>3, <2>4
<1>5. ASSUME NEW w \in Workers, Renew(w)
      PROVE  Fenced(v, proc'[v].attempt, job'[proc'[v].job])
  <2>1. proc' = proc /\ Busy(v) /\ job' = [job EXCEPT ![proc[w].job] = RenewedRow(@)]
    BY <1>5 DEF Renew, Busy
  <2>2. \A j \in JobIds : /\ RenewedRow(job[j]).state = job[j].state
                          /\ RenewedRow(job[j]).owner = job[j].owner
                          /\ RenewedRow(job[j]).attempt = job[j].attempt
    BY DEF RenewedRow, Row
  <2> QED
    BY <1>0, <2>1, <2>2
<1>6. ASSUME Recover
      PROVE  Fenced(v, proc'[v].attempt, job'[proc'[v].job])
  <2>1. proc' = proc /\ Busy(v) /\ job' = Reclaimed
    BY <1>6 DEF Recover, Busy
  <2> QED
    BY <1>0, <1>2, <2>1
<1>7. ASSUME Quiet
      PROVE  Fenced(v, proc'[v].attempt, job'[proc'[v].job])
  BY <1>0, <1>7 DEF Quiet
<1> QED
  BY <1>1, <1>3, <1>4, <1>5, <1>6, <1>7, StepShapes

\* The empty table satisfies the invariant.
LEMMA IInvInit == Init => IInv
<1> SUFFICES ASSUME Init PROVE IInv
  OBVIOUS
<1>1. TypeOK
  BY TypeInit
<1>2. \A j \in JobIds : /\ job[j].state = "absent" /\ job[j].owner = NoWorker
                        /\ job[j].attempt = 0 /\ job[j].policy = NoPolicy
  BY DEF Init, AbsentRow
<1>3. \A w \in Workers : ~Busy(w)
  BY DEF Init, Busy, IdleWorker
<1> QED
  BY <1>1, <1>2, <1>3 DEF IInv, RowsCoherent, UniqueActiveKey, Fencing, RetryBudget,
     QueuedWithinLimit, CooldownKept

\* Every step keeps the invariant.
LEMMA IInvNext == IInv /\ [ApiNext]_vars => IInv'
<1> SUFFICES ASSUME IInv, [ApiNext]_vars PROVE IInv'
  OBVIOUS
<1>1. TypeOK /\ TableInv /\ UniqueActiveKey /\ Fencing
  BY TableInvEquiv DEF IInv
<1>2. TypeOK'
  BY <1>1, TypeNext
<1>3. TableInv'
  BY <1>1, <1>2, TableInvNext
<1>4. (RowsCoherent /\ RetryBudget /\ QueuedWithinLimit /\ CooldownKept)'
  BY <1>2, <1>3, PolicyAssumption DEF TypeOK, TableInv, RowInv, RowsCoherent, RetryBudget,
     QueuedWithinLimit, CooldownKept, Row
<1> QED
  BY <1>1, <1>2, <1>4, UniqueNext, FencingNext DEF IInv

\* The inductive invariant holds in every reachable state.
THEOREM Invariance == ApiSpec => []IInv
BY IInvInit, IInvNext, PTL DEF ApiSpec

\* One unfinished row per idempotency key, however enqueue calls race.
THEOREM UniqueKey == ApiSpec => []UniqueActiveKey
<1>1. IInv => UniqueActiveKey
  BY DEF IInv
<1> QED
  BY <1>1, Invariance, PTL

\* The owner name fences stale workers.
THEOREM FencingHolds == ApiSpec => []Fencing
<1>1. IInv => Fencing
  BY DEF IInv
<1> QED
  BY <1>1, Invariance, PTL

\* Attempts are bounded by the policy and the leases that expired.
THEOREM RetryBudgetHolds == ApiSpec => []RetryBudget
<1>1. IInv => RetryBudget
  BY DEF IInv
<1> QED
  BY <1>1, Invariance, PTL
----------------------------------------------------------------------------
(* What a step may never do.                                               *)

\* Only a settling worker finishes a job, and the fence makes it the one that
\* runs the current attempt.
LEMMA FinishStep ==
    ASSUME IInv, [ApiNext]_vars, NEW j \in JobIds,
           job[j].state = "running", job'[j].state \in {"completed", "blocked"}
    PROVE  \E w \in Workers : /\ Busy(w) /\ ~Busy(w)'
                              /\ proc[w].job = j
                              /\ proc[w].attempt = job[j].attempt
                              /\ job[j].owner = w
                              /\ now < job[j].expires
<1> TypeOK /\ Fencing /\ now \in Nat /\ job \in [JobIds -> Row]
  BY DEF IInv, TypeOK
<1> proc \in [Workers -> WorkerState]
  BY DEF TypeOK
<1>1. ASSUME NEW c \in Callers, EnqueueInsert(c) PROVE FALSE
  BY <1>1 DEF EnqueueInsert, NextRow
<1>2. Reclaimed[j].state \in {"queued", "running"} /\ DOMAIN Reclaimed = JobIds /\ Reclaimed[j] \in Row
  BY ReclaimedRowFacts DEF Reclaimed
<1>3. ASSUME NEW w \in Workers, Claim(w) PROVE FALSE
  <2>1. PICK i \in JobIds : job' = [Reclaimed EXCEPT ![i] = ClaimedRow(@, w)]
    BY <1>3 DEF Claim
  <2> QED
    BY <1>2, <2>1, ClaimedRowFacts
<1>4. ASSUME NEW w \in Workers, Settles(w)
      PROVE  /\ Busy(w) /\ ~Busy(w)' /\ proc[w].job = j
             /\ proc[w].attempt = job[j].attempt
             /\ job[j].owner = w /\ now < job[j].expires
  <2>1. Busy(w) /\ Holds(w, proc[w].job) /\ ~Busy(w)' /\ proc[w].job \in JobIds
    BY <1>4 DEF Settles, Busy, IdleWorker, TypeOK
  <2>2. proc[w].job = j
    BY <1>4, <2>1 DEF Settles
  <2>3. proc[w].attempt = job[j].attempt
    BY <2>1, <2>2 DEF Fencing, Holds
  <2>4. job[j].owner = w /\ now < job[j].expires
    BY <2>1, <2>2 DEF Holds, Row, NoTime
  <2> QED
    BY <2>1, <2>2, <2>3, <2>4
<1>5. ASSUME NEW w \in Workers, Renew(w) PROVE FALSE
  BY <1>5 DEF Renew, RenewedRow, Row
<1>6. ~Recover
  BY <1>2 DEF Recover
<1>7. ~Quiet
  BY DEF Quiet
<1> QED
  BY <1>1, <1>3, <1>4, <1>5, <1>6, <1>7, StepShapes

\* A worker without the valid lease of the current attempt finishes no job.
THEOREM OnlyHolderFinishes == ApiSpec => FinishedByHolder
<1>1. IInv /\ [ApiNext]_vars =>
        [\A j \in JobIds :
            /\ job[j].state = "running"
            /\ job'[j].state \in {"completed", "blocked"}
            => \E w \in Workers : /\ Busy(w) /\ ~Busy(w)'
                                  /\ proc[w].job = j
                                  /\ proc[w].attempt = job[j].attempt
                                  /\ job[j].owner = w
                                  /\ now < job[j].expires]_vars
  BY FinishStep
<1> QED
  BY <1>1, Invariance, PTL DEF ApiSpec, FinishedByHolder

\* Nothing rewrites a completed or a blocked row.
LEMMA TerminalRow ==
    ASSUME IInv, [ApiNext]_vars, NEW j \in JobIds, job[j].state \in {"completed", "blocked"}
    PROVE  job'[j] = job[j]
<1> TypeOK /\ now \in Nat /\ job \in [JobIds -> Row]
  BY DEF IInv, TypeOK
<1>1. Reclaimed[j] = job[j] /\ DOMAIN Reclaimed = JobIds
  BY DEF Reclaimed, ReclaimedRow, LeaseExpired
<1>2. ASSUME NEW c \in Callers, EnqueueInsert(c) PROVE job'[j] = job[j]
  BY <1>2 DEF EnqueueInsert, NextRow
<1>3. ASSUME NEW w \in Workers, Claim(w) PROVE job'[j] = job[j]
  BY <1>1, <1>3 DEF Claim, FirstDue, DueRow
<1>4. ASSUME NEW w \in Workers, Settles(w) \/ Renew(w) PROVE job'[j] = job[j]
  <2>1. job[proc[w].job].state = "running"
    BY <1>4 DEF Settles, Renew, Holds
  <2> QED
    BY <1>4, <2>1 DEF Settles, Renew
<1>5. Recover \/ Quiet => job'[j] = job[j]
  BY <1>1 DEF Recover, Quiet
<1> QED
  BY <1>2, <1>3, <1>4, <1>5, StepShapes

\* Completed and blocked are final, for every step of every process.
THEOREM TerminalStays == ApiSpec => TerminalIsFinal
<1>1. IInv /\ [ApiNext]_vars =>
        [\A j \in JobIds :
            job[j].state \in {"completed", "blocked"} => job'[j] = job[j]]_vars
  BY TerminalRow
<1> QED
  BY <1>1, Invariance, PTL DEF ApiSpec, TerminalIsFinal

\* A blocked row keeps its key for good: enqueue's lookup passes over it while the
\* unique constraint does not, so no call, retry or worker ever leaves a queued or
\* running row of that key again.
BlockedKeyIsClosed ==
    \A i \in JobIds, k \in Keys :
        [](job[i].state = "blocked" /\ job[i].key = k
              => [](\A j \in JobIds : job[j].key = k => job[j].state \notin {"queued", "running"}))

\* A job that was blocked closes its idempotency key.
THEOREM BlockedKeyHolds == ApiSpec => BlockedKeyIsClosed
<1> DEFINE Blocks(i, k) == job[i].state = "blocked" /\ job[i].key = k
           Closed(k) == \A j \in JobIds : job[j].key = k => job[j].state \notin {"queued", "running"}
<1>1. ASSUME NEW i \in JobIds, NEW k \in Keys
      PROVE  ApiSpec => [](Blocks(i, k) => []Closed(k))
  <2>1. IInv /\ Blocks(i, k) => Closed(k)
    BY DEF IInv, UniqueActiveKey
  <2>2. IInv /\ [ApiNext]_vars /\ Blocks(i, k) => Blocks(i, k)'
    BY TerminalRow
  <2> QED
    <3> HIDE DEF Blocks, Closed
    <3> QED
      BY <2>1, <2>2, Invariance, PTL DEF ApiSpec
<1> QED
  BY <1>1 DEF BlockedKeyIsClosed

\* No attempt starts inside a cooldown.
THEOREM CooldownPrevails == ApiSpec => CooldownRespected
<1>1. ASSUME IInv, [ApiNext]_vars, NEW j \in JobIds, job'[j].attempt > job[j].attempt
      PROVE  now >= job[j].cooldown
  <2> TypeOK /\ TypeOK' /\ TableInv /\ now \in Nat /\ job \in [JobIds -> Row]
    BY <1>1, TableInvEquiv, TypeNext DEF IInv, TypeOK
  <2> job[j].attempt \in Nat /\ job[j].cooldown \in Int
    BY DEF Row, NoTime
  <2>1. RowInv(Reclaimed[j], LostAfterReclaim[j], now) /\ Reclaimed[j] \in Row
    BY ReclaimKeepsRow DEF RowInv
  <2>2. /\ Reclaimed[j].attempt = job[j].attempt /\ Reclaimed[j].cooldown = job[j].cooldown
        /\ DOMAIN Reclaimed = JobIds
    BY ReclaimedRowFacts DEF Reclaimed
  <2>3. ASSUME NEW c \in Callers, EnqueueInsert(c) PROVE FALSE
    <3>1. PICK i \in JobIds : job' = [job EXCEPT ![i] = NewRow(call[c].key, call[c].due)]
      BY <2>3 DEF EnqueueInsert
    <3>2. NewRow(call[c].key, call[c].due).attempt = 0
      BY DEF NewRow, AbsentRow
    <3> QED
      BY <1>1, <3>1, <3>2
  <2>4. ASSUME NEW w \in Workers, Claim(w) PROVE now >= job[j].cooldown
    <3>1. PICK i \in JobIds : FirstDue(Reclaimed, i) /\ job' = [Reclaimed EXCEPT ![i] = ClaimedRow(@, w)]
      BY <2>4 DEF Claim
    <3>2. i = j
      BY <1>1, <2>2, <3>1
    <3>3. Reclaimed[j].state = "queued" /\ Reclaimed[j].due <= now /\ Reclaimed[j].due \in Nat
      BY <2>1, <3>1, <3>2 DEF FirstDue, DueRow, Row
    <3> QED
      BY <2>1, <2>2, <3>3 DEF RowInv
  <2>5. ASSUME NEW w \in Workers, Settles(w) PROVE FALSE
    <3>1. PICK t : SettledFrom(job[proc[w].job], t) /\ job' = [job EXCEPT ![proc[w].job] = t]
      BY <2>5 DEF Settles
    <3>2. job'[j].attempt = job[j].attempt
      BY <3>1 DEF SettledFrom
    <3> QED
      BY <1>1, <3>2
  <2>6. ASSUME NEW w \in Workers, Renew(w) PROVE FALSE
    <3>1. \A i \in JobIds : RenewedRow(job[i]).attempt = job[i].attempt
      BY DEF RenewedRow, Row
    <3> QED
      BY <1>1, <2>6, <3>1 DEF Renew
  <2>7. ~Recover /\ ~Quiet
    BY <1>1, <2>2 DEF Recover, Quiet
  <2> QED
    BY <1>1, <2>3, <2>4, <2>5, <2>6, <2>7, StepShapes
<1>2. IInv /\ [ApiNext]_vars =>
        [\A j \in JobIds : job'[j].attempt > job[j].attempt => now >= job[j].cooldown]_vars
  BY <1>1
<1> QED
  BY <1>2, Invariance, PTL DEF ApiSpec, CooldownRespected
----------------------------------------------------------------------------
(* JobEngine implements LeaseQueue.                                        *)

\* The empty table is the empty queue.
LEMMA RefineInit == Init => Queue!Init
<1> SUFFICES ASSUME Init PROVE Queue!Init
  OBVIOUS
<1>1. \A j \in JobIds : /\ QueueStatus(job[j]) = "absent"
                        /\ job[j].owner = NoWorker /\ job[j].attempt = 0
  BY DEF Init, AbsentRow, QueueStatus
<1>2. \A w \in Workers : ~Busy(w)
  BY DEF Init, IdleWorker, Busy
<1> QED
  BY <1>1, <1>2 DEF Queue!Init

\* Every step of the engine is a step of the queue, or leaves it unchanged.
LEMMA RefineNext == IInv /\ IInv' /\ [ApiNext]_vars => [Queue!Next]_(Queue!qvars)
<1> SUFFICES ASSUME IInv, IInv', [ApiNext]_vars PROVE [Queue!Next]_(Queue!qvars)
  OBVIOUS
<1> DEFINE st == [j \in JobIds |-> QueueStatus(job[j])]
           ho == [j \in JobIds |-> job[j].owner]
           to == [j \in JobIds |-> job[j].attempt]
           gr == [w \in Workers |-> IF Busy(w) THEN <<proc[w].job, proc[w].attempt>> ELSE <<>>]
<1> TypeOK /\ TypeOK' /\ TableInv /\ Fencing /\ now \in Nat /\ job \in [JobIds -> Row]
  BY TableInvEquiv DEF IInv, TypeOK
<1> proc \in [Workers -> WorkerState]
  BY DEF TypeOK
<1>0. \A w \in Workers : Busy(w) => proc[w].job \in JobIds /\ proc[w].attempt \in Nat
  BY DEF TypeOK, WorkerState
<1>1. ASSUME NEW c \in Callers, EnqueueInsert(c) PROVE \E S \in SUBSET JobIds : Queue!Submit(S)
  <2>1. PICK j \in JobIds : NextRow(j) /\ job' = [job EXCEPT ![j] = NewRow(call[c].key, call[c].due)]
    BY <1>1 DEF EnqueueInsert
  <2>2. /\ NewRow(call[c].key, call[c].due).state = "queued"
        /\ NewRow(call[c].key, call[c].due).owner = NoWorker
        /\ NewRow(call[c].key, call[c].due).attempt = 0
    BY DEF NewRow, AbsentRow
  <2>3. job[j].state = "absent" /\ job[j].owner = NoWorker /\ job[j].attempt = 0
    BY <2>1 DEF NextRow, TableInv, RowInv
  <2>4. gr' = gr
    BY <1>1 DEF EnqueueInsert, Busy
  <2>5. ho' = ho /\ to' = to
    BY <2>1, <2>2, <2>3
  <2>6. st[j] = "absent" /\ st' = [i \in JobIds |-> IF i \in {j} THEN "waiting" ELSE st[i]]
    BY <2>1, <2>2, <2>3 DEF QueueStatus
  <2> QED
    BY <2>4, <2>5, <2>6 DEF Queue!Submit
<1>e. PICK Exp \in SUBSET JobIds : Exp = {j \in JobIds : LeaseExpired(job[j])}
  OBVIOUS
<1>2. \A j \in JobIds : /\ Reclaimed[j].owner = (IF j \in Exp THEN NoWorker ELSE job[j].owner)
                        /\ Reclaimed[j].attempt = job[j].attempt
                        /\ QueueStatus(Reclaimed[j]) = QueueStatus(job[j])
                        /\ Reclaimed[j] \in Row
  <2> TAKE j \in JobIds
  <2>1. Reclaimed[j] = ReclaimedRow(job[j])
    BY DEF Reclaimed
  <2>2. CASE LeaseExpired(job[j])
    BY <1>e, <2>1, <2>2, ReclaimedRowFacts DEF QueueStatus, LeaseExpired
  <2>3. CASE ~LeaseExpired(job[j])
    BY <1>e, <2>1, <2>3, ReclaimedRowFacts
  <2> QED
    BY <2>2, <2>3
<1>3. ASSUME NEW w \in Workers, Claim(w)
      PROVE  \E i \in JobIds : Queue!Grant(w, i, Exp)
  <2>1. PICK j \in JobIds : /\ FirstDue(Reclaimed, j)
                            /\ job' = [Reclaimed EXCEPT ![j] = ClaimedRow(@, w)]
                            /\ proc' = [proc EXCEPT ![w] = [pc |-> "handling", job |-> j,
                                                            attempt |-> job[j].attempt + 1]]
    BY <1>3 DEF Claim
  <2>2. DOMAIN Reclaimed = JobIds /\ Reclaimed[j].state = "queued"
    BY <2>1 DEF Reclaimed, FirstDue, DueRow
  <2>3. /\ job'[j].attempt = job[j].attempt + 1
        /\ job'[j].state = "running" /\ job'[j].owner = w
    BY <1>2, <2>1, <2>2, ClaimedRowFacts
  <2>4. \A i \in JobIds : i # j => job'[i] = Reclaimed[i]
    BY <2>1, <2>2
  <2>5. gr[w] = <<>>
    BY <1>3 DEF Claim, Busy
  <2>6. gr' = [gr EXCEPT ![w] = <<j, to[j] + 1>>]
    BY <2>1 DEF Busy
  <2>7. st[j] = "waiting" /\ st' = st
    BY <1>2, <2>2, <2>3, <2>4 DEF QueueStatus
  <2>8. Queue!Revoked(Exp)[j] = NoWorker
    <3>1. Reclaimed[j].owner = NoWorker
      BY <2>2, ReclaimKeepsRow DEF RowInv
    <3> QED
      BY <1>2, <3>1 DEF Queue!Revoked
  <2>9. ho' = [Queue!Revoked(Exp) EXCEPT ![j] = w]
    BY <1>2, <2>3, <2>4 DEF Queue!Revoked
  <2>10. to' = [to EXCEPT ![j] = @ + 1]
    BY <1>2, <2>3, <2>4
  <2> QED
    BY <2>5, <2>6, <2>7, <2>8, <2>9, <2>10 DEF Queue!Grant
<1>4. ASSUME NEW w \in Workers, Settles(w)
      PROVE  \E i \in JobIds, outcome \in {"waiting", "done"} : Queue!Settle(w, i, outcome)
  <2> DEFINE j == proc[w].job
  <2>1. j \in JobIds /\ Busy(w) /\ Holds(w, j)
    BY <1>4 DEF Settles, TypeOK
  <2>2. PICK s : SettledFrom(job[j], s) /\ job' = [job EXCEPT ![j] = s]
    BY <1>4 DEF Settles
  <2>3. job[j].owner = w /\ job[j].state = "running" /\ proc[w].attempt = job[j].attempt
    BY <2>1 DEF Holds, Fencing
  <2>4. gr[w] = <<j, to[j]>>
    BY <2>1, <2>3
  <2>5. gr' = [gr EXCEPT ![w] = <<>>]
    BY <1>4 DEF Settles, Busy, IdleWorker
  <2>6. QueueStatus(s) \in {"waiting", "done"}
    BY <2>2 DEF SettledFrom, QueueStatus
  <2>7. st[j] = "waiting" /\ st' = [st EXCEPT ![j] = QueueStatus(s)]
    BY <2>1, <2>2, <2>3 DEF QueueStatus
  <2>8. ho[j] = w /\ ho' = [ho EXCEPT ![j] = NoWorker]
    BY <2>1, <2>2, <2>3 DEF SettledFrom
  <2>9. to' = to
    BY <2>1, <2>2 DEF SettledFrom
  <2> QED
    BY <2>1, <2>4, <2>5, <2>6, <2>7, <2>8, <2>9 DEF Queue!Settle
<1>5. ASSUME NEW w \in Workers, Renew(w) PROVE UNCHANGED Queue!qvars
  <2>1. \A i \in JobIds : /\ RenewedRow(job[i]).attempt = job[i].attempt
                          /\ RenewedRow(job[i]).owner = job[i].owner
                          /\ RenewedRow(job[i]).state = job[i].state
    BY DEF RenewedRow, Row
  <2>2. \A i \in JobIds : /\ job'[i].attempt = job[i].attempt
                          /\ job'[i].owner = job[i].owner
                          /\ job'[i].state = job[i].state
    BY <1>5, <2>1 DEF Renew
  <2>3. st' = st /\ ho' = ho /\ to' = to
    BY <2>2 DEF QueueStatus
  <2>4. gr' = gr
    BY <1>5 DEF Renew, Busy
  <2> QED
    BY <2>3, <2>4 DEF Queue!qvars
<1>6. ASSUME Recover PROVE Queue!Revoke(Exp)
  <2>1. gr' = gr
    BY <1>6 DEF Recover, Busy
  <2>2. job' = Reclaimed
    BY <1>6 DEF Recover
  <2>3. st' = st /\ to' = to /\ ho' = Queue!Revoked(Exp)
    BY <1>2, <2>2 DEF Queue!Revoked
  <2> QED
    BY <2>1, <2>3 DEF Queue!Revoke
<1>7. ASSUME Quiet PROVE (\E w \in Workers : Queue!Forget(w)) \/ UNCHANGED Queue!qvars
  <2>1. st' = st /\ ho' = ho /\ to' = to
    BY <1>7 DEF Quiet
  <2>2. \A w \in Workers : gr'[w] \in {gr[w], <<>>}
    BY <1>7 DEF Quiet
  <2>3. CASE gr' = gr
    BY <2>1, <2>3 DEF Queue!qvars
  <2>4. CASE gr' # gr
    <3>1. proc' # proc
      BY <2>4 DEF Busy
    <3>2. PICK w \in Workers : \A v \in Workers \ {w} : proc'[v] = proc[v]
      BY <1>7, <3>1 DEF Quiet
    <3>3. \A v \in Workers \ {w} : gr'[v] = gr[v]
      BY <3>2 DEF Busy
    <3>4. gr[w] # <<>> /\ gr' = [gr EXCEPT ![w] = <<>>]
      BY <2>2, <2>4, <3>3
    <3> QED
      BY <2>1, <3>4 DEF Queue!Forget
  <2> QED
    BY <2>3, <2>4
<1>9. ASSUME NEW w \in Workers, Claim(w) PROVE Queue!Next
  BY <1>3, <1>9 DEF Queue!Next
<1>10. ASSUME NEW w \in Workers, Settles(w) PROVE Queue!Next
  BY <1>4, <1>10 DEF Queue!Next
<1>11. ASSUME NEW c \in Callers, EnqueueInsert(c) PROVE Queue!Next
  BY <1>1, <1>11 DEF Queue!Next
<1>12. Recover => Queue!Next
  BY <1>6 DEF Queue!Next
<1>13. Quiet => Queue!Next \/ UNCHANGED Queue!qvars
  BY <1>7 DEF Queue!Next
<1> QED
  BY <1>5, <1>9, <1>10, <1>11, <1>12, <1>13, StepShapes

\* The engine implements the abstract queue, for every instance.
THEOREM Refinement == ApiSpec => ImplementsQueue
BY RefineInit, RefineNext, Invariance, PTL DEF ApiSpec, ImplementsQueue, Queue!Spec

\* What holds of every client of the engine holds of the worker loop as it is,
\* which never renews.
THEOREM WorkerLoopIsAClient == Spec => ApiSpec
<1>1. [Next]_vars => [ApiNext]_vars
  BY DEF ApiNext
<1> QED
  BY <1>1, PTL DEF Spec, ApiSpec
=============================================================================
