------------------------- MODULE Collection_proofs -------------------------
(***************************************************************************)
(* Theorems about Collection: for every set of families and workers, every *)
(* retry limit and every bound.                                            *)
(***************************************************************************)
EXTENDS Collection, TLAPS

----------------------------------------------------------------------------
(* The inductive invariant.                                                *)

\* A row that was inserted belongs to a family; jobs exist for such rows only.
RowsOwned ==
    \A i \in ExecIds :
        /\ exec[i].state # "none" => exec[i].family \in Families
        /\ exec[i].state = "none" => exec[i].family = NoFamily /\ status[i] = "absent"

\* A busy worker runs the job of an execution that was inserted.
WorkOnRows ==
    \A w \in Workers : worker[w].pc # "idle" =>
        worker[w].exec \in ExecIds /\ exec[worker[w].exec].state # "none"

\* No execution of its family is younger than an active one.
ActiveIsLast ==
    \A i, j \in ExecIds :
        exec[i].state \in ActiveStates /\ exec[j].family = exec[i].family => j <= i

\* A flow with an active execution shows that execution's state.
FlowShowsActive ==
    \A f \in Families : flow[f].active \in ExecIds
                            => flow[f].state = exec[flow[f].active].state

\* What the scheduler is about to write is justified already.
ConsumedAnswered ==
    sched = "consumed" \/ handoff = "consumed" => \E i \in ExecIds : exec[i].state # "none"

IInv ==
    /\ TypeOK
    /\ RowsOwned
    /\ WorkOnRows
    /\ PointerIsActive
    /\ ActiveIsLast
    /\ FlowShowsActive
    /\ ConsumedAnswered

----------------------------------------------------------------------------
(* Facts about the operators.                                              *)

\* A row is active, ended or not there; being active and having ended exclude
\* each other (ACTIVE_COLLECTION_STATES and the states reconcile returns on).
LEMMA StatesDisjoint ==
    /\ ActiveStates \cap TerminalStates = {}
    /\ "none" \notin ActiveStates \cup TerminalStates
    /\ "queued" \in ActiveStates
    /\ "blocked" \in TerminalStates
BY DEF ActiveStates, TerminalStates

\* reconcile_collection_job writes an active or a terminal state.
LEMMA ReconciledStates ==
    ASSUME NEW k \in Kinds, NEW n, NEW s \in Reconciled(k, n)
    PROVE  s \in ActiveStates \cup TerminalStates
BY DEF Reconciled, Kinds, ActiveStates, TerminalStates

\* What request_collection inserts: rows that were free, behind all others, one
\* for each family.
LEMMA CreatedRows ==
    ASSUME TypeOK, NEW fs \in SUBSET Families, NEW new \in NextRows(fs)
    PROVE  /\ \A f \in fs : new[f] \in ExecIds /\ exec[new[f]].state = "none"
           /\ \A f \in fs, i \in ExecIds : exec[i].state # "none" => i < new[f]
           /\ \A f, g \in fs : new[f] = new[g] => f = g
<1>1. \A f \in fs : new[f] \in ExecIds
  BY DEF NextRows
<1>2. \A f \in fs, i \in ExecIds : exec[i].state # "none" => i < new[f]
  BY DEF NextRows
<1>3. \A f \in fs : exec[new[f]].state = "none"
  BY <1>1, <1>2 DEF ExecIds
<1>4. \A f, g \in fs : new[f] = new[g] => f = g
  <2>1. \A f, g \in fs : f < g => new[f] < new[g]
    BY DEF NextRows
  <2>2. \A f, g \in fs : f \in Nat /\ g \in Nat
    BY CollectionAssumption
  <2> QED BY <1>1, <2>1, <2>2 DEF ExecIds
<1> QED BY <1>1, <1>2, <1>3, <1>4

\* The tables after request_collection.
LEMMA CreateEffect ==
    ASSUME TypeOK, NEW fs \in SUBSET Families, Create(fs)
    PROVE  \E new \in [fs -> ExecIds] :
              /\ \A f \in fs : exec[new[f]].state = "none"
              /\ \A f \in fs, i \in ExecIds : exec[i].state # "none" => i < new[f]
              /\ \A f \in fs : exec'[new[f]].state = "queued" /\ exec'[new[f]].family = f
              /\ \A i \in ExecIds : (\A f \in fs : new[f] # i) => exec'[i] = exec[i]
              /\ \A f \in fs : flow'[f].state = "queued" /\ flow'[f].active = new[f]
              /\ \A f \in Families \ fs : flow'[f] = flow[f]
              /\ \A f \in fs : status'[new[f]] = "waiting"
              /\ \A i \in ExecIds : (\A f \in fs : new[f] # i) => status'[i] = status[i]
              /\ flow' \in [Families -> FlowRow]
              /\ exec' \in [ExecIds -> [state : ExecStates, family : Families \cup {NoFamily}]]
              /\ status' \in [ExecIds -> {"absent", "waiting", "done"}]
              /\ UNCHANGED <<holder, token, grant>>
<1>1. PICK new \in NextRows(fs) :
        /\ exec' = [i \in ExecIds |->
                       IF \E f \in fs : new[f] = i
                       THEN [state |-> "queued", family |-> CHOOSE f \in fs : new[f] = i]
                       ELSE exec[i]]
        /\ flow' = [f \in Families |->
                       IF f \in fs
                       THEN [flow[f] EXCEPT !.state = "queued", !.active = new[f],
                                            !.cooling = FALSE]
                       ELSE flow[f]]
        /\ status' = [i \in ExecIds |->
                         IF \E f \in fs : new[f] = i THEN "waiting" ELSE status[i]]
        /\ UNCHANGED <<holder, token, grant>>
  BY DEF Create
<1>2. new \in [fs -> ExecIds]
  BY DEF NextRows
<1>3. \A f \in fs : (CHOOSE g \in fs : new[g] = new[f]) = f
  BY CreatedRows
<1>4. \A f \in fs : exec'[new[f]].state = "queued" /\ exec'[new[f]].family = f
  BY <1>1, <1>2, <1>3
<1>5. \A f \in fs : exec[new[f]].state = "none"
  BY CreatedRows
<1>6. \A f \in fs, i \in ExecIds : exec[i].state # "none" => i < new[f]
  BY CreatedRows
<1>7. \A i \in ExecIds : (\A f \in fs : new[f] # i) => exec'[i] = exec[i] /\ status'[i] = status[i]
  BY <1>1
<1>8. \A f \in fs : /\ flow'[f].state = "queued" /\ flow'[f].active = new[f]
                    /\ flow'[f] \in FlowRow
  <2> TAKE f \in fs
  <2>1. flow'[f] = [flow[f] EXCEPT !.state = "queued", !.active = new[f], !.cooling = FALSE]
    BY <1>1
  <2>2. flow[f] \in FlowRow
    BY DEF TypeOK
  <2>3. new[f] \in ExecIds /\ "queued" \in {"idle"} \cup ExecStates
    BY <1>2 DEF ExecStates, ActiveStates
  <2> QED BY <2>1, <2>2, <2>3 DEF FlowRow
<1>9. \A f \in Families \ fs : flow'[f] = flow[f]
  BY <1>1
<1>10. \A f \in fs : status'[new[f]] = "waiting"
  BY <1>1, <1>2
<1>11. flow' \in [Families -> FlowRow]
  <2>1. \A f \in Families : flow'[f] \in FlowRow
    BY <1>8, <1>9 DEF TypeOK
  <2> QED BY <1>1, <2>1
<1>12. exec' \in [ExecIds -> [state : ExecStates, family : Families \cup {NoFamily}]]
  <2>1. \A i \in ExecIds : exec'[i] \in [state : ExecStates, family : Families \cup {NoFamily}]
    <3> TAKE i \in ExecIds
    <3>1. CASE \E f \in fs : new[f] = i
      <4>1. PICK f \in fs : new[f] = i
        BY <3>1
      <4>2. exec'[i] = [state |-> "queued", family |-> CHOOSE g \in fs : new[g] = i]
        BY <1>1, <3>1
      <4>3. exec'[i] = [state |-> "queued", family |-> f]
        BY <4>1, <4>2, <1>3
      <4> QED BY <4>3 DEF ExecStates, ActiveStates
    <3>2. CASE \A f \in fs : new[f] # i
      BY <3>2, <1>7 DEF TypeOK
    <3> QED BY <3>1, <3>2
  <2> QED BY <1>1, <2>1
<1>13. status' \in [ExecIds -> {"absent", "waiting", "done"}]
  BY <1>1 DEF TypeOK
<1> WITNESS new \in [fs -> ExecIds]
<1> QED BY <1>1, <1>2, <1>4, <1>5, <1>6, <1>7, <1>8, <1>9, <1>10, <1>11, <1>12, <1>13

----------------------------------------------------------------------------
(* The initial state, and the two transactions that write the tables.      *)

\* The tables of a company without collections satisfy the invariant.
LEMMA InitInvariant == Init => IInv
<1> SUFFICES ASSUME Init PROVE IInv
  OBVIOUS
<1> USE CollectionAssumption, StatesDisjoint
<1>1. TypeOK
  BY DEF Init, TypeOK, FlowRow, NewFlow, NewExec, IdleWorker, ExecStates, Jobs!Init
<1>2. RowsOwned /\ WorkOnRows /\ ActiveIsLast /\ ConsumedAnswered
  BY DEF Init, RowsOwned, WorkOnRows, ActiveIsLast, ConsumedAnswered, NewExec,
         IdleWorker, Jobs!Init
<1>3. PointerIsActive /\ FlowShowsActive
  BY DEF Init, PointerIsActive, FlowShowsActive, NewExec, NewFlow, ExecIds, NoExec
<1> QED BY <1>1, <1>2, <1>3 DEF IInv

\* The tables keep their types and the invariants that relate them.
TablesOK ==
    /\ flow \in [Families -> FlowRow]
    /\ exec \in [ExecIds -> [state : ExecStates, family : Families \cup {NoFamily}]]
    /\ status \in [ExecIds -> {"absent", "waiting", "done"}]
    /\ RowsOwned
    /\ WorkOnRows
    /\ PointerIsActive
    /\ ActiveIsLast
    /\ FlowShowsActive

\* request_collection on flows without active execution: the new rows become the
\* active executions of their flows, nothing else changes hands.
LEMMA CreateKeeps ==
    ASSUME IInv, NEW fs \in SUBSET Families, Running(fs) = {}, Create(fs), worker' = worker
    PROVE  /\ TablesOK'
           /\ UNCHANGED <<holder, token, grant>>
           /\ fs # {} => \E i \in ExecIds : exec'[i].state # "none"
<1> USE StatesDisjoint
<1>1. PICK new \in [fs -> ExecIds] :
              /\ \A f \in fs : exec[new[f]].state = "none"
              /\ \A f \in fs, i \in ExecIds : exec[i].state # "none" => i < new[f]
              /\ \A f \in fs : exec'[new[f]].state = "queued" /\ exec'[new[f]].family = f
              /\ \A i \in ExecIds : (\A f \in fs : new[f] # i) => exec'[i] = exec[i]
              /\ \A f \in fs : flow'[f].state = "queued" /\ flow'[f].active = new[f]
              /\ \A f \in Families \ fs : flow'[f] = flow[f]
              /\ \A f \in fs : status'[new[f]] = "waiting"
              /\ \A i \in ExecIds : (\A f \in fs : new[f] # i) => status'[i] = status[i]
              /\ flow' \in [Families -> FlowRow]
              /\ exec' \in [ExecIds -> [state : ExecStates, family : Families \cup {NoFamily}]]
              /\ status' \in [ExecIds -> {"absent", "waiting", "done"}]
              /\ UNCHANGED <<holder, token, grant>>
  BY CreateEffect DEF IInv
<1> TypeOK /\ RowsOwned /\ WorkOnRows /\ PointerIsActive /\ ActiveIsLast /\ FlowShowsActive
  BY DEF IInv
<1>a. \A f \in fs : /\ new[f] \in ExecIds
                    /\ exec[new[f]].state = "none"
                    /\ exec'[new[f]].state = "queued" /\ exec'[new[f]].family = f
                    /\ status'[new[f]] = "waiting"
                    /\ flow'[f].state = "queued"
                    /\ flow'[f].active = new[f]
  BY <1>1
<1>b. \A i \in ExecIds : (\A f \in fs : new[f] # i)
                             => exec'[i] = exec[i] /\ status'[i] = status[i]
  BY <1>1
<1>c. \A f \in fs, i \in ExecIds : exec[i].state # "none" => i < new[f]
  BY <1>1
<1>d. \A f \in Families \ fs : flow'[f] = flow[f]
  BY <1>1
<1>2. \A i \in ExecIds : exec[i].state # "none" => exec'[i] = exec[i]
  BY <1>a, <1>b
<1>3. \A i \in ExecIds : \/ exec'[i] = exec[i] /\ status'[i] = status[i]
                         \/ \E f \in fs : /\ new[f] = i
                                          /\ exec[i].state = "none"
                                          /\ status'[i] = "waiting"
                                          /\ exec'[i].state = "queued" /\ exec'[i].family = f
  BY <1>a, <1>b
<1>4. /\ flow' \in [Families -> FlowRow]
      /\ exec' \in [ExecIds -> [state : ExecStates, family : Families \cup {NoFamily}]]
      /\ status' \in [ExecIds -> {"absent", "waiting", "done"}]
      /\ UNCHANGED <<holder, token, grant>>
  BY <1>1
<1>7. RowsOwned'
  <2> SUFFICES ASSUME NEW i \in ExecIds
               PROVE  /\ exec'[i].state # "none" => exec'[i].family \in Families
                      /\ exec'[i].state = "none" => exec'[i].family = NoFamily
                                                       /\ status'[i] = "absent"
    BY DEF RowsOwned
  <2> QED BY <1>3 DEF RowsOwned
<1>8. WorkOnRows'
  BY <1>2 DEF WorkOnRows
<1>9. \A f \in fs, i \in ExecIds :
         ~(exec[i].family = f /\ exec[i].state \in ActiveStates)
  BY DEF PointerIsActive, Running, ExecIds, NoExec
<1>10. PointerIsActive'
  <2> SUFFICES ASSUME NEW f \in Families, NEW i \in ExecIds
               PROVE  flow'[f].active = i
                        <=> exec'[i].family = f /\ exec'[i].state \in ActiveStates
    BY DEF PointerIsActive
  <2>1. CASE f \in fs
    <3>1. flow'[f].active = new[f]
      BY <2>1, <1>a
    <3>2. CASE i = new[f]
      BY <2>1, <3>1, <3>2, <1>a
    <3>3. CASE i # new[f]
      BY <2>1, <3>1, <3>3, <1>3, <1>9
    <3> QED BY <3>2, <3>3
  <2>2. CASE f \notin fs
    <3>1. flow'[f] = flow[f]
      BY <2>2, <1>d
    <3>2. CASE exec'[i] = exec[i]
      BY <3>1, <3>2 DEF PointerIsActive
    <3>3. CASE \E g \in fs : new[g] = i /\ exec'[i].state = "queued" /\ exec'[i].family = g
      <4>1. exec'[i].family # f
        BY <3>3, <2>2
      <4>2. exec[i].state = "none"
        BY <3>3, <1>a
      <4>3. flow[f].active # i
        BY <4>2 DEF PointerIsActive
      <4> QED BY <3>1, <4>1, <4>3
    <3> QED BY <3>2, <3>3, <1>3
  <2> QED BY <2>1, <2>2
<1>11. ActiveIsLast'
  <2> SUFFICES ASSUME NEW i \in ExecIds, NEW j \in ExecIds,
                      exec'[i].state \in ActiveStates, exec'[j].family = exec'[i].family
               PROVE  j <= i
    BY DEF ActiveIsLast
  <2>1. CASE exec'[i] = exec[i] /\ exec'[j] = exec[j]
    BY <2>1 DEF ActiveIsLast
  <2>2. CASE \E f \in fs : new[f] = i /\ exec'[i].state = "queued" /\ exec'[i].family = f
    <3>1. PICK f \in fs : new[f] = i /\ exec'[i].state = "queued" /\ exec'[i].family = f
      BY <2>2
    <3>2. CASE exec'[j] = exec[j]
      <4>1. exec[j].family = f
        BY <3>1, <3>2
      <4>2. exec[j].state # "none"
        BY <4>1, CollectionAssumption DEF RowsOwned
      <4> QED BY <4>2, <3>1, <1>c DEF ExecIds
    <3>3. CASE \E g \in fs : new[g] = j /\ exec'[j].state = "queued" /\ exec'[j].family = g
      BY <3>1, <3>3 DEF ExecIds
    <3> QED BY <3>2, <3>3, <1>3
  <2>3. CASE /\ exec'[i] = exec[i]
             /\ \E g \in fs : new[g] = j /\ exec'[j].state = "queued" /\ exec'[j].family = g
    BY <2>3, <1>9
  <2> QED BY <2>1, <2>2, <2>3, <1>3
<1>12. FlowShowsActive'
  <2> SUFFICES ASSUME NEW f \in Families, flow'[f].active \in ExecIds
               PROVE  flow'[f].state = exec'[flow'[f].active].state
    BY DEF FlowShowsActive
  <2>1. CASE f \in fs
    BY <2>1, <1>a
  <2>2. CASE f \notin fs
    <3>1. flow'[f] = flow[f]
      BY <2>2, <1>d
    <3>2. exec[flow[f].active].state \in ActiveStates
      BY <3>1 DEF PointerIsActive
    <3> QED BY <3>1, <3>2, <1>2 DEF FlowShowsActive
  <2> QED BY <2>1, <2>2
<1>13. fs # {} => \E i \in ExecIds : exec'[i].state # "none"
  BY <1>a
<1> QED BY <1>4, <1>7, <1>8, <1>10, <1>11, <1>12, <1>13 DEF TablesOK

\* reconcile_collection_job, by any worker, whether it still holds the job or
\* not: an execution that ended is left alone; an active one and its flow move
\* together.
LEMMA ReconcileKeeps ==
    ASSUME IInv, NEW w \in Workers, NEW k \in Kinds, Reconcile(w, k)
    PROVE  TablesOK' /\ \A i \in ExecIds : exec[i].state # "none" => exec'[i].state # "none"
<1> USE StatesDisjoint
<1> TypeOK /\ RowsOwned /\ WorkOnRows /\ PointerIsActive /\ ActiveIsLast /\ FlowShowsActive
  BY DEF IInv
<1> DEFINE i == worker[w].exec
           f == exec[i].family
           n == worker[w].attempt
<1>1. i \in ExecIds /\ exec[i].state # "none"
  BY DEF Reconcile, WorkOnRows
<1>2. f \in Families
  BY <1>1 DEF RowsOwned
<1>3. worker' = [worker EXCEPT ![w].pc = "finalize", ![w].leave = Leaves(k, n)]
  BY DEF Reconcile
<1>4. \A x \in Workers : worker'[x].exec = worker[x].exec
                            /\ (worker'[x].pc # "idle" => worker[x].pc # "idle")
  BY <1>3 DEF TypeOK, Reconcile
<1>5. status' = status
  BY DEF Reconcile, jobs
<1>6. CASE Ended(i)
  <2>1. exec' = exec /\ flow' = flow
    BY <1>6 DEF Reconcile, rows
  <2>2. RowsOwned' /\ PointerIsActive' /\ ActiveIsLast' /\ FlowShowsActive'
    BY <2>1, <1>5 DEF RowsOwned, PointerIsActive, ActiveIsLast, FlowShowsActive
  <2>3. WorkOnRows'
    BY <2>1, <1>4 DEF WorkOnRows
  <2> QED BY <2>1, <2>2, <2>3, <1>5 DEF TablesOK, TypeOK
<1>7. CASE ~Ended(i)
  <2>1. exec[i].state \in ActiveStates
    BY <1>1, <1>7 DEF Ended, TypeOK, ExecStates
  <2>2. PICK s \in Reconciled(k, n) : /\ exec' = [exec EXCEPT ![i].state = s]
                                      /\ flow' = [flow EXCEPT ![f] = FlowAfter(f, k, s)]
    BY <1>7 DEF Reconcile
  <2>3. s \in ActiveStates \cup TerminalStates
    BY ReconciledStates
  <2>4. flow[f].active = i /\ flow[f] \in FlowRow
    BY <1>1, <1>2, <2>1 DEF PointerIsActive, TypeOK
  <2>5. FlowAfter(f, k, s) \in FlowRow
    BY <2>3, <2>4 DEF FlowAfter, FlowRow, ExecStates
  <2>6. /\ FlowAfter(f, k, s).state = s
        /\ FlowAfter(f, k, s).active = IF s \in TerminalStates THEN NoExec ELSE i
    BY <2>4 DEF FlowAfter, FlowRow
  <2>7. /\ exec' \in [ExecIds -> [state : ExecStates, family : Families \cup {NoFamily}]]
        /\ exec'[i].state = s /\ exec'[i].family = f
        /\ \A j \in ExecIds : j # i => exec'[j] = exec[j]
        /\ \A j \in ExecIds : exec'[j].family = exec[j].family
    <3>1. /\ exec \in [ExecIds -> [state : ExecStates, family : Families \cup {NoFamily}]]
          /\ s \in ExecStates
      BY <2>3 DEF TypeOK, ExecStates
    <3>2. exec'[i] = [exec[i] EXCEPT !.state = s]
      BY <3>1, <1>1, <2>2
    <3>3. exec[i] \in [state : ExecStates, family : Families \cup {NoFamily}]
      BY <3>1, <1>1
    <3>4. exec'[i].state = s /\ exec'[i].family = f
      BY <3>2, <3>3
    <3>5. \A j \in ExecIds : j # i => exec'[j] = exec[j]
      BY <3>1, <2>2
    <3>6. exec'[i] \in [state : ExecStates, family : Families \cup {NoFamily}]
      BY <3>1, <3>2, <3>3
    <3>7. \A j \in ExecIds : exec'[j] \in [state : ExecStates, family : Families \cup {NoFamily}]
      BY <3>1, <3>5, <3>6
    <3>8. exec' \in [ExecIds -> [state : ExecStates, family : Families \cup {NoFamily}]]
      BY <3>1, <3>7, <2>2
    <3> QED BY <3>4, <3>5, <3>8
  <2>8. /\ flow' \in [Families -> FlowRow]
        /\ flow'[f].state = s
        /\ flow'[f].active = IF s \in TerminalStates THEN NoExec ELSE i
        /\ \A g \in Families : g # f => flow'[g] = flow[g]
    BY <1>2, <2>2, <2>5, <2>6 DEF TypeOK
  <2>9. \A j \in ExecIds : exec[j].state # "none" => exec'[j].state # "none"
    BY <2>3, <2>7
  <2>10. RowsOwned'
    BY <1>1, <1>2, <1>5, <2>3, <2>7 DEF RowsOwned
  <2>11. WorkOnRows'
    BY <1>4, <2>9 DEF WorkOnRows
  <2>12. PointerIsActive'
    <3> SUFFICES ASSUME NEW g \in Families, NEW j \in ExecIds
                 PROVE  flow'[g].active = j
                          <=> exec'[j].family = g /\ exec'[j].state \in ActiveStates
      BY DEF PointerIsActive
    <3>1. CASE g # f
      BY <3>1, <2>7, <2>8 DEF PointerIsActive
    <3>2. CASE g = f /\ j = i
      BY <3>2, <2>3, <2>7, <2>8, <1>1 DEF ExecIds, NoExec
    <3>3. CASE g = f /\ j # i
      <4>1. ~(exec[j].family = f /\ exec[j].state \in ActiveStates)
        BY <3>3, <2>4, <1>2 DEF PointerIsActive
      <4>2. flow'[f].active # j
        BY <3>3, <2>8 DEF ExecIds, NoExec
      <4> QED BY <3>3, <4>1, <4>2, <2>7
    <3> QED BY <3>1, <3>2, <3>3
  <2>13. ActiveIsLast'
    <3> SUFFICES ASSUME NEW a \in ExecIds, NEW b \in ExecIds,
                        exec'[a].state \in ActiveStates, exec'[b].family = exec'[a].family
                 PROVE  b <= a
      BY DEF ActiveIsLast
    <3>1. exec[a].state \in ActiveStates
      BY <2>1, <2>7
    <3>2. exec[b].family = exec[a].family
      BY <2>7
    <3> QED BY <3>1, <3>2 DEF ActiveIsLast
  <2>14. FlowShowsActive'
    <3> SUFFICES ASSUME NEW g \in Families, flow'[g].active \in ExecIds
                 PROVE  flow'[g].state = exec'[flow'[g].active].state
      BY DEF FlowShowsActive
    <3>1. CASE g = f
      BY <3>1, <2>7, <2>8 DEF ExecIds, NoExec
    <3>2. CASE g # f
      <4>1. flow'[g] = flow[g]
        BY <3>2, <2>8
      <4>2. exec[flow[g].active].family = g
        BY <4>1 DEF PointerIsActive
      <4>3. flow[g].active # i
        BY <4>2, <3>2
      <4> QED BY <4>1, <4>3, <2>7 DEF FlowShowsActive
    <3> QED BY <3>1, <3>2
  <2> QED
    BY <1>5, <2>7, <2>8, <2>9, <2>10, <2>11, <2>12, <2>13, <2>14 DEF TablesOK, TypeOK
<1> QED BY <1>6, <1>7

----------------------------------------------------------------------------
(* Every step preserves the invariant.                                     *)

\* What a step that leaves executions, flows and jobs' status alone must show.
LEMMA RowsUntouched ==
    ASSUME IInv, exec' = exec, flow' = flow, status' = status, WorkOnRows'
    PROVE  TablesOK'
<1>1. RowsOwned' /\ PointerIsActive' /\ ActiveIsLast' /\ FlowShowsActive'
  BY DEF IInv, RowsOwned, PointerIsActive, ActiveIsLast, FlowShowsActive
<1> QED BY <1>1 DEF IInv, TablesOK, TypeOK

\* What a worker is doing.
WorkerRow == [pc : {"idle", "read", "reconcile", "finalize"}, exec : ExecIds \cup {NoExec},
              attempt : Nat, leave : {"waiting", "done"}]

\* The other conjuncts of the type invariant.
RestOK ==
    /\ company \in [active : BOOLEAN, certificate : BOOLEAN]
    /\ handoff \in {"queued", "consumed", "blocked"}
    /\ sched \in {"idle", "consumed", "blocked"}
    /\ worker \in [Workers -> WorkerRow]
    /\ faults \in Nat
    /\ changes \in Nat
    /\ holder \in [ExecIds -> Workers \cup {NoWorker}]
    /\ token \in [ExecIds -> Nat]
    /\ grant \in [Workers -> {<<>>} \cup (ExecIds \X Nat)]

\* The parts make up the whole.
LEMMA Assemble == /\ IInv => TablesOK /\ RestOK /\ ConsumedAnswered
                  /\ TablesOK' /\ RestOK' /\ ConsumedAnswered' => IInv'
BY DEF IInv, TablesOK, RestOK, TypeOK, WorkerRow

\* A fault is counted once.
LEMMA FaultsCounted == ASSUME RestOK, SpendFault PROVE faults' \in Nat
BY DEF RestOK, SpendFault

\* request_collection and the scheduler.
LEMMA RequestSteps ==
    ASSUME IInv,
           \/ \E fs \in SUBSET Families \ {{}}, r \in ExecIds \cup {NoExec} : Request(fs, r)
           \/ InitialRequest
           \/ MarkHandoff
           \/ SchedulerCrash
    PROVE  IInv'
<1> TablesOK /\ RestOK /\ ConsumedAnswered
  BY Assemble
<1>1. ASSUME NEW fs \in SUBSET Families, NEW r, Request(fs, r) PROVE IInv'
  <2>1. Create(fs) /\ Running(fs) = {} /\ UNCHANGED <<entry, worker, faults, changes>>
    BY <1>1 DEF Request, Accepts
  <2>2. TablesOK' /\ UNCHANGED <<holder, token, grant>>
    BY <2>1, CreateKeeps
  <2>3. \A i \in ExecIds : exec[i].state # "none" => exec'[i].state # "none"
    BY <2>1, CreateEffect DEF IInv
  <2>4. RestOK'
    BY <2>1, <2>2 DEF RestOK, entry
  <2>5. ConsumedAnswered'
    BY <2>1, <2>3 DEF ConsumedAnswered, entry
  <2> QED BY <2>2, <2>4, <2>5, Assemble
<1>2. CASE InitialRequest
  <2>1. UNCHANGED <<company, handoff, worker, faults, changes>>
        /\ sched' \in {"consumed", "blocked"}
    BY <1>2 DEF InitialRequest
  <2>2. CASE Accepts(Families, NoExec) /\ Create(Families) /\ sched' = "consumed"
    <3>1. Families \in SUBSET Families /\ Running(Families) = {}
      BY <2>2 DEF Accepts
    <3>2. /\ TablesOK' /\ UNCHANGED <<holder, token, grant>>
          /\ \E i \in ExecIds : exec'[i].state # "none"
      BY <2>1, <2>2, <3>1, CreateKeeps, CollectionAssumption
    <3>3. RestOK'
      BY <2>1, <3>2 DEF RestOK
    <3> QED BY <3>2, <3>3, Assemble DEF ConsumedAnswered
  <2>3. CASE UNCHANGED <<rows, jobs>>
                /\ ((Usable /\ Running(Families) # {}) \/ sched' = "blocked")
    <3>1. TablesOK'
      <4>1. WorkOnRows'
        BY <2>1, <2>3 DEF IInv, WorkOnRows, rows
      <4> QED BY <4>1, <2>3, RowsUntouched DEF rows, jobs
    <3>2. RestOK'
      BY <2>1, <2>3 DEF RestOK, jobs
    <3>3. ConsumedAnswered'
      <4>1. Running(Families) # {} => \E i \in ExecIds : exec[i].state # "none"
        BY StatesDisjoint DEF IInv, TypeOK, FlowRow, Running
      <4>2. exec' = exec /\ handoff' = handoff
        BY <2>1, <2>3 DEF rows
      <4> QED BY <4>1, <4>2, <2>3 DEF ConsumedAnswered
    <3> QED BY <3>1, <3>2, <3>3, Assemble
  <2> QED BY <1>2, <2>2, <2>3 DEF InitialRequest
<1>3. CASE MarkHandoff \/ SchedulerCrash
  <2>1. UNCHANGED <<company, rows, worker, changes, jobs>>
    BY <1>3 DEF MarkHandoff, SchedulerCrash
  <2>2. TablesOK'
    <3>1. WorkOnRows'
      BY <2>1 DEF IInv, WorkOnRows, rows
    <3> QED BY <3>1, <2>1, RowsUntouched DEF rows, jobs
  <2>3. faults' \in Nat
    BY <1>3, FaultsCounted DEF MarkHandoff, SchedulerCrash, RestOK
  <2>4. handoff' \in {handoff, sched} /\ sched' = "idle" /\ (handoff' = handoff \/ sched # "idle")
    BY <1>3 DEF MarkHandoff, SchedulerCrash
  <2>5. RestOK'
    BY <2>1, <2>3, <2>4 DEF RestOK, jobs
  <2>6. ConsumedAnswered'
    BY <2>1, <2>4 DEF ConsumedAnswered, rows
  <2> QED BY <2>2, <2>5, <2>6, Assemble
<1> QED BY <1>1, <1>2, <1>3

\* The company, its certificate and its flows; no pointer and no execution moves.
LEMMA CompanySteps ==
    ASSUME IInv,
           \/ \E b \in BOOLEAN : SetActive(b) \/ SetCertificate(b)
           \/ \E f \in Families : \/ CooldownPasses(f)
                                  \/ \E b \in BOOLEAN : SetFlowState(f, b)
    PROVE  IInv'
<1> TablesOK /\ RestOK /\ ConsumedAnswered
  BY Assemble
<1>1. ASSUME NEW b \in BOOLEAN, SetActive(b) \/ SetCertificate(b) PROVE IInv'
  <2>1. UNCHANGED <<rows, handoff, sched, worker, faults, jobs>> /\ changes' \in Nat
    BY <1>1 DEF SetActive, SetCertificate, Change, RestOK
  <2>2. company' \in [active : BOOLEAN, certificate : BOOLEAN]
    BY <1>1 DEF SetActive, SetCertificate, RestOK
  <2>3. WorkOnRows'
    BY <2>1 DEF IInv, WorkOnRows, rows
  <2>4. TablesOK'
    BY <2>1, <2>3, RowsUntouched DEF rows, jobs
  <2>5. RestOK' /\ ConsumedAnswered'
    BY <2>1, <2>2 DEF RestOK, ConsumedAnswered, rows, jobs
  <2> QED BY <2>4, <2>5, Assemble
<1>2. ASSUME NEW f \in Families, NEW b \in BOOLEAN, CooldownPasses(f) \/ SetFlowState(f, b)
      PROVE  IInv'
  <2>1. UNCHANGED <<exec, entry, worker, faults, jobs>> /\ changes' \in Nat
    BY <1>2 DEF CooldownPasses, SetFlowState, Change, RestOK
  <2>2. flow' = [flow EXCEPT ![f].cooling = FALSE] \/ flow' = [flow EXCEPT ![f].enabled = b]
    BY <1>2 DEF CooldownPasses, SetFlowState
  <2>3. flow' \in [Families -> FlowRow]
        /\ \A g \in Families : flow'[g].active = flow[g].active /\ flow'[g].state = flow[g].state
    <3>1. flow \in [Families -> FlowRow] /\ flow[f] \in FlowRow
      BY DEF TablesOK
    <3>2. \/ flow' = [flow EXCEPT ![f] = [flow[f] EXCEPT !.cooling = FALSE]]
          \/ flow' = [flow EXCEPT ![f] = [flow[f] EXCEPT !.enabled = b]]
      BY <2>2
    <3>3. PICK v \in FlowRow : /\ v.active = flow[f].active /\ v.state = flow[f].state
                               /\ flow' = [flow EXCEPT ![f] = v]
      BY <3>1, <3>2 DEF FlowRow
    <3> QED BY <3>1, <3>3
  <2>4. RowsOwned' /\ WorkOnRows' /\ ActiveIsLast'
    BY <2>1 DEF TablesOK, RowsOwned, WorkOnRows, ActiveIsLast, jobs
  <2>5. PointerIsActive' /\ FlowShowsActive'
    BY <2>1, <2>3 DEF TablesOK, PointerIsActive, FlowShowsActive
  <2>6. TablesOK'
    BY <2>1, <2>3, <2>4, <2>5 DEF TablesOK, jobs
  <2>7. RestOK' /\ ConsumedAnswered'
    BY <2>1 DEF RestOK, ConsumedAnswered, entry, jobs
  <2> QED BY <2>6, <2>7, Assemble
<1> QED BY <1>1, <1>2

\* The worker loop with its failures.
LEMMA WorkerSteps ==
    ASSUME IInv, NEW w \in Workers, WorkerStep(w) \/ Raise(w) \/ Crash(w)
    PROVE  IInv'
<1> TablesOK /\ RestOK /\ ConsumedAnswered
  BY Assemble
<1>1. ASSUME NEW i \in ExecIds, Claim(w, i) PROVE IInv'
  <2>1. /\ UNCHANGED <<rows, entry, changes, status>>
        /\ status[i] = "waiting"
        /\ worker' = [worker EXCEPT ![w] = [pc |-> "read", exec |-> i,
                                            attempt |-> token[i] + 1, leave |-> "waiting"]]
        /\ token' = [token EXCEPT ![i] = @ + 1]
        /\ grant' = [grant EXCEPT ![w] = <<i, token[i] + 1>>]
        /\ holder' = [Jobs!Revoked({i}) EXCEPT ![i] = w]
    BY <1>1 DEF Claim, Jobs!Grant
  <2>2. faults' \in Nat
    BY <1>1, FaultsCounted DEF Claim, RestOK
  <2>3. holder' \in [ExecIds -> Workers \cup {NoWorker}]
    BY <2>1 DEF RestOK, Jobs!Revoked
  <2>4. worker' \in [Workers -> WorkerRow]
    BY <2>1 DEF RestOK, WorkerRow
  <2>5. token' \in [ExecIds -> Nat] /\ grant' \in [Workers -> {<<>>} \cup (ExecIds \X Nat)]
    BY <2>1 DEF RestOK
  <2>6. WorkOnRows'
    <3>1. exec[i].state # "none"
      BY <2>1 DEF TablesOK, RowsOwned
    <3> QED BY <2>1, <3>1 DEF TablesOK, RestOK, WorkOnRows, rows
  <2>7. TablesOK'
    BY <2>1, <2>6, RowsUntouched DEF rows
  <2>8. RestOK' /\ ConsumedAnswered'
    BY <2>1, <2>2, <2>3, <2>4, <2>5 DEF RestOK, ConsumedAnswered, rows, entry
  <2> QED BY <2>7, <2>8, Assemble
<1>2. CASE ReadExecution(w) \/ Raise(w)
  <2>1. UNCHANGED <<rows, entry, changes, jobs>> /\ worker[w].pc # "idle"
    BY <1>2 DEF ReadExecution, Raise
  <2>2. faults' \in Nat
    BY <1>2, FaultsCounted DEF ReadExecution, Raise, RestOK
  <2>3. PICK v \in WorkerRow : v.exec = worker[w].exec /\ worker' = [worker EXCEPT ![w] = v]
    <3> DEFINE v == worker[w]
    <3>1. v \in WorkerRow
      BY DEF RestOK
    <3>2. CASE Raise(w)
      <4>1. worker' = [worker EXCEPT ![w] = [v EXCEPT !.pc = "finalize",
                                                      !.leave = Leaves("temporary", v.attempt)]]
        BY <3>2 DEF Raise, RestOK
      <4> QED BY <3>1, <4>1 DEF Leaves, WorkerRow
    <3>3. CASE ReadExecution(w) /\ Ended(worker[w].exec)
      <4>1. worker' = [worker EXCEPT ![w] = [v EXCEPT !.pc = "finalize",
                                                      !.leave = Leaves("success", v.attempt)]]
        BY <3>3 DEF ReadExecution, RestOK
      <4> QED BY <3>1, <4>1 DEF Leaves, WorkerRow
    <3>4. CASE ReadExecution(w) /\ ~Ended(worker[w].exec)
      <4>1. worker' = [worker EXCEPT ![w] = [v EXCEPT !.pc = "reconcile"]]
        BY <3>4 DEF ReadExecution, RestOK
      <4> QED BY <3>1, <4>1 DEF WorkerRow
    <3> QED BY <1>2, <3>2, <3>3, <3>4
  <2>4. worker' \in [Workers -> WorkerRow]
        /\ \A x \in Workers : worker'[x].exec = worker[x].exec
                                 /\ (worker'[x].pc # "idle" => worker[x].pc # "idle")
    BY <2>1, <2>3 DEF RestOK
  <2>5. WorkOnRows'
    BY <2>1, <2>4 DEF TablesOK, WorkOnRows, rows
  <2>6. TablesOK'
    BY <2>1, <2>5, RowsUntouched DEF rows, jobs
  <2>7. RestOK' /\ ConsumedAnswered'
    BY <2>1, <2>2, <2>4 DEF RestOK, ConsumedAnswered, rows, entry, jobs
  <2> QED BY <2>6, <2>7, Assemble
<1>3. ASSUME NEW k \in Kinds, Reconcile(w, k) PROVE IInv'
  <2>1. UNCHANGED <<entry, faults, changes, jobs>>
        /\ worker' = [worker EXCEPT ![w].pc = "finalize",
                                    ![w].leave = Leaves(k, worker[w].attempt)]
    BY <1>3 DEF Reconcile
  <2>2. TablesOK' /\ \A i \in ExecIds : exec[i].state # "none" => exec'[i].state # "none"
    BY <1>3, ReconcileKeeps
  <2>3. Leaves(k, worker[w].attempt) \in {"waiting", "done"}
    BY DEF Leaves
  <2>4. worker' \in [Workers -> WorkerRow]
    <3>1. worker[w] \in WorkerRow
      BY DEF RestOK
    <3>2. [worker[w] EXCEPT !.pc = "finalize", !.leave = Leaves(k, worker[w].attempt)]
             \in WorkerRow
      BY <3>1, <2>3 DEF WorkerRow
    <3> QED BY <2>1, <3>2 DEF RestOK
  <2>6. RestOK'
    BY <2>1, <2>4 DEF RestOK, entry, jobs
  <2>5. ConsumedAnswered'
    BY <2>1, <2>2 DEF ConsumedAnswered, entry
  <2> QED BY <2>2, <2>5, <2>6, Assemble
<1>4. CASE Finalize(w) \/ Crash(w)
  <2>1. /\ UNCHANGED <<rows, entry, changes, token>>
        /\ worker' = [worker EXCEPT ![w] = IdleWorker]
        /\ worker[w].pc # "idle"
    BY <1>4 DEF Finalize, Crash, Jobs!Settle, Jobs!Forget
  <2>2. faults' \in Nat
    BY <1>4, FaultsCounted DEF Finalize, Crash, RestOK
  <2>3. worker[w].exec \in ExecIds /\ exec[worker[w].exec].state # "none"
    BY <2>1 DEF TablesOK, WorkOnRows
  <2>4. /\ grant' = [grant EXCEPT ![w] = <<>>]
        /\ \/ status' = status /\ holder' = holder
           \/ /\ holder' = [holder EXCEPT ![worker[w].exec] = NoWorker]
              /\ status' = [status EXCEPT ![worker[w].exec] = worker[w].leave]
    BY <1>4 DEF Finalize, Crash, Jobs!Settle, Jobs!Forget
  <2>5. /\ status' \in [ExecIds -> {"absent", "waiting", "done"}]
        /\ \A i \in ExecIds : exec[i].state = "none" => status'[i] = status[i]
    <3>1. worker[w].leave \in {"waiting", "done"}
      BY DEF RestOK, WorkerRow
    <3> QED BY <2>3, <2>4, <3>1 DEF TablesOK
  <2>6. WorkOnRows'
    BY <2>1 DEF TablesOK, RestOK, WorkOnRows, IdleWorker, rows
  <2>7. RowsOwned' /\ PointerIsActive' /\ ActiveIsLast' /\ FlowShowsActive'
    BY <2>1, <2>5 DEF TablesOK, RowsOwned, PointerIsActive, ActiveIsLast, FlowShowsActive, rows
  <2>8. TablesOK'
    BY <2>1, <2>5, <2>6, <2>7 DEF TablesOK, rows
  <2>9. RestOK' /\ ConsumedAnswered'
    BY <2>1, <2>2, <2>3, <2>4 DEF RestOK, WorkerRow, ConsumedAnswered, IdleWorker, rows, entry
  <2> QED BY <2>8, <2>9, Assemble
<1> QED BY <1>1, <1>2, <1>3, <1>4 DEF WorkerStep

\* Any step, stuttering included.
LEMMA StepInvariant == IInv /\ [Next]_vars => IInv'
<1> SUFFICES ASSUME IInv, [Next]_vars PROVE IInv'
  OBVIOUS
<1>1. CASE UNCHANGED vars
  BY <1>1 DEF vars, jobs, IInv, TypeOK, RowsOwned, WorkOnRows, PointerIsActive,
        ActiveIsLast, FlowShowsActive, ConsumedAnswered
<1>2. CASE Next
  BY <1>2, RequestSteps, CompanySteps, WorkerSteps DEF Next
<1> QED BY <1>1, <1>2

----------------------------------------------------------------------------
(* The theorems.                                                           *)

\* The invariant holds in every reachable state.
THEOREM Invariance == Spec => []IInv
BY InitInvariant, StepInvariant, PTL DEF Spec

\* Every variable keeps its type.
THEOREM TypeCorrect == Spec => []TypeOK
<1>1. IInv => TypeOK
  BY DEF IInv
<1> QED BY <1>1, Invariance, PTL

\* The pointer of a flow is its active execution, exactly as long as there is one.
THEOREM PointerHolds == Spec => []PointerIsActive
<1>1. IInv => PointerIsActive
  BY DEF IInv
<1> QED BY <1>1, Invariance, PTL

\* However many workers reconcile however many jobs, with or without their
\* leases, a family never has two active executions.
THEOREM OneActive == Spec => []OneActiveExecution
<1>1. IInv => OneActiveExecution
  <2> SUFFICES ASSUME IInv, NEW i \in ExecIds, NEW j \in ExecIds,
                      exec[i].state \in ActiveStates, exec[j].state \in ActiveStates,
                      exec[i].family = exec[j].family
               PROVE  i = j
    BY DEF OneActiveExecution
  <2>1. exec[i].family \in Families
    BY StatesDisjoint DEF IInv, RowsOwned
  <2> QED BY <2>1 DEF IInv, PointerIsActive
<1> QED BY <1>1, Invariance, PTL

\* A consumed initial request was answered by some execution.
THEOREM HandoffHolds == Spec => []HandoffAnswered
<1>1. IInv => HandoffAnswered
  BY DEF IInv, ConsumedAnswered, HandoffAnswered
<1> QED BY <1>1, Invariance, PTL

\* request_collection never writes an execution that is there already.
LEMMA CreateAppends ==
    ASSUME IInv, NEW fs \in SUBSET Families, Create(fs)
    PROVE  \A i \in ExecIds : exec[i].state # "none" => exec'[i] = exec[i]
<1>1. PICK new \in [fs -> ExecIds] :
         /\ \A f \in fs : exec[new[f]].state = "none"
         /\ \A i \in ExecIds : (\A f \in fs : new[f] # i) => exec'[i] = exec[i]
  BY CreateEffect DEF IInv
<1> QED BY <1>1

\* Of all steps only a request and a reconciliation write executions and the
\* collection state of flows.
LEMMA WhoWrites ==
    ASSUME IInv, [Next]_vars
    PROVE  \/ exec' = exec /\ \A f \in Families : flow'[f].state = flow[f].state
           \/ \E fs \in SUBSET Families : Create(fs) /\ \A f \in fs : MayStart(f)
           \/ \E w \in Workers, k \in Kinds : Reconcile(w, k)
<1>1. CASE UNCHANGED <<exec, flow>>
  BY <1>1
<1>2. ASSUME NEW f \in Families, NEW b \in BOOLEAN, CooldownPasses(f) \/ SetFlowState(f, b)
      PROVE  exec' = exec /\ \A g \in Families : flow'[g].state = flow[g].state
  <2>1. exec' = exec
    BY <1>2 DEF CooldownPasses, SetFlowState
  <2>2. \/ flow' = [flow EXCEPT ![f] = [flow[f] EXCEPT !.cooling = FALSE]]
        \/ flow' = [flow EXCEPT ![f] = [flow[f] EXCEPT !.enabled = b]]
    BY <1>2 DEF CooldownPasses, SetFlowState
  <2>3. flow \in [Families -> FlowRow] /\ flow[f] \in FlowRow
    BY DEF IInv, TypeOK
  <2>4. \A g \in Families : g # f => flow'[g] = flow[g]
    BY <2>2, <2>3
  <2>5. flow'[f].state = flow[f].state
    BY <2>2, <2>3 DEF FlowRow
  <2> QED BY <2>1, <2>4, <2>5
<1> QED
  BY <1>1, <1>2 DEF Next, vars, Request, InitialRequest, Accepts, MarkHandoff, SchedulerCrash,
     SetActive, SetCertificate, WorkerStep, Claim, ReadExecution, Finalize, Raise, Crash, rows

\* An execution that has ended is never written again, by any worker.
THEOREM EndedHolds == Spec => EndedStays
<1>1. IInv /\ [Next]_vars =>
         \A i \in ExecIds : exec[i].state \in TerminalStates => exec'[i] = exec[i]
  <2> SUFFICES ASSUME IInv, [Next]_vars, NEW i \in ExecIds, exec[i].state \in TerminalStates
               PROVE  exec'[i] = exec[i]
    OBVIOUS
  <2>1. ASSUME NEW fs \in SUBSET Families, Create(fs) PROVE exec'[i] = exec[i]
    BY <2>1, CreateAppends, StatesDisjoint
  <2>2. ASSUME NEW w \in Workers, NEW k \in Kinds, Reconcile(w, k) PROVE exec'[i] = exec[i]
    <3>1. CASE Ended(worker[w].exec)
      BY <2>2, <3>1 DEF Reconcile, rows
    <3>2. CASE ~Ended(worker[w].exec)
      <4>1. worker[w].exec # i
        BY <3>2 DEF Ended
      <4> QED BY <2>2, <3>2, <4>1 DEF Reconcile, IInv, TypeOK
    <3> QED BY <3>1, <3>2
  <2> QED BY <2>1, <2>2, WhoWrites
<1> QED BY <1>1, Invariance, PTL DEF Spec, EndedStays

\* A flow that is blocked stays blocked: no request starts on it, and no worker
\* has an active execution of it left to reconcile.
THEOREM BlockedHolds == Spec => BlockedNeverIgnored
<1>1. IInv /\ [Next]_vars =>
         \A f \in Families : flow[f].state = "blocked" => flow'[f].state = "blocked"
  <2> SUFFICES ASSUME IInv, [Next]_vars, NEW f \in Families, flow[f].state = "blocked"
               PROVE  flow'[f].state = "blocked"
    OBVIOUS
  <2>1. ASSUME NEW fs \in SUBSET Families, Create(fs), \A g \in fs : MayStart(g)
        PROVE  flow'[f].state = "blocked"
    <3>1. f \notin fs
      BY <2>1 DEF MayStart
    <3>2. flow'[f] = flow[f]
      BY <2>1, <3>1 DEF Create
    <3> QED BY <3>2
  <2>2. ASSUME NEW w \in Workers, NEW k \in Kinds, Reconcile(w, k)
        PROVE  flow'[f].state = "blocked"
    <3> DEFINE i == worker[w].exec
    <3>1. CASE Ended(i)
      BY <2>2, <3>1 DEF Reconcile, rows
    <3>2. CASE ~Ended(i)
      <4>1. i \in ExecIds /\ exec[i].state # "none"
        BY <2>2 DEF Reconcile, IInv, WorkOnRows
      <4>2. exec[i].state \in ActiveStates
        BY <3>2, <4>1 DEF Ended, IInv, TypeOK, ExecStates
      <4>3. exec[i].family # f
        BY <4>1, <4>2, StatesDisjoint DEF IInv, PointerIsActive, FlowShowsActive
      <4>4. flow'[f] = flow[f]
        BY <2>2, <3>2, <4>3 DEF Reconcile, IInv, TypeOK
      <4> QED BY <4>4
    <3> QED BY <3>1, <3>2
  <2> QED BY <2>1, <2>2, WhoWrites
<1> QED BY <1>1, Invariance, PTL DEF Spec, BlockedNeverIgnored

\* A flow shows the state of its last execution: no late worker makes it show
\* an older one.
THEOREM FlowHolds == Spec => []FlowShowsLast
<1>1. Init => FlowShowsLast
  <2> SUFFICES ASSUME Init PROVE FlowShowsLast
    OBVIOUS
  <2>1. /\ \A f \in Families : flow[f].state = "idle"
        /\ \A f \in Families, i \in ExecIds : exec[i].family # f
    BY CollectionAssumption DEF Init, NewFlow, NewExec
  <2> QED BY <2>1 DEF FlowShowsLast
<1>2. IInv /\ FlowShowsLast /\ [Next]_vars => FlowShowsLast'
  <2> SUFFICES ASSUME IInv, FlowShowsLast, [Next]_vars PROVE FlowShowsLast'
    OBVIOUS
  <2>1. CASE exec' = exec /\ \A f \in Families : flow'[f].state = flow[f].state
    BY <2>1 DEF FlowShowsLast
  <2>2. ASSUME NEW fs \in SUBSET Families, Create(fs) PROVE FlowShowsLast'
    <3>1. PICK new \in [fs -> ExecIds] :
            /\ \A f \in fs : exec[new[f]].state = "none"
            /\ \A f \in fs, i \in ExecIds : exec[i].state # "none" => i < new[f]
            /\ \A f \in fs : exec'[new[f]].state = "queued" /\ exec'[new[f]].family = f
            /\ \A i \in ExecIds : (\A f \in fs : new[f] # i) => exec'[i] = exec[i]
            /\ \A f \in fs : flow'[f].state = "queued"
            /\ \A f \in Families \ fs : flow'[f] = flow[f]
      BY <2>2, CreateEffect DEF IInv
    <3> SUFFICES ASSUME NEW f \in Families
                 PROVE  /\ (\A j \in ExecIds : exec'[j].family # f) => flow'[f].state = "idle"
                        /\ \A i \in ExecIds :
                              /\ exec'[i].family = f
                              /\ \A j \in ExecIds : exec'[j].family = f => j <= i
                              => flow'[f].state = exec'[i].state
      BY DEF FlowShowsLast
    <3>2. CASE f \in fs
      <4>1. new[f] \in ExecIds /\ exec'[new[f]].family = f /\ exec'[new[f]].state = "queued"
        BY <3>1, <3>2
      <4>2. \A i \in ExecIds : exec'[i].family = f /\ i # new[f] => i < new[f]
        <5> SUFFICES ASSUME NEW i \in ExecIds, exec'[i].family = f, i # new[f]
                     PROVE  i < new[f]
          OBVIOUS
        <5>1. \A g \in fs : new[g] # i
          <6> SUFFICES ASSUME NEW g \in fs, new[g] = i PROVE FALSE
            OBVIOUS
          <6>1. exec'[i].family = g
            BY <3>1
          <6>2. g = f
            BY <6>1
          <6> QED BY <6>2
        <5>2. exec[i].family = f
          BY <5>1, <3>1
        <5>3. exec[i].state # "none"
          BY <5>2, CollectionAssumption DEF IInv, RowsOwned
        <5> QED BY <5>3, <3>1, <3>2
      <4>3. flow'[f].state = "queued"
        BY <3>1, <3>2
      <4> QED BY <4>1, <4>2, <4>3 DEF ExecIds
    <3>3. CASE f \notin fs
      <4>1. flow'[f] = flow[f]
        BY <3>1, <3>3
      <4>2. \A i \in ExecIds : exec'[i].family = f <=> exec[i].family = f
        <5> TAKE i \in ExecIds
        <5>1. CASE \A g \in fs : new[g] # i
          BY <5>1, <3>1
        <5>2. CASE \E g \in fs : new[g] = i
          <6>1. exec'[i].family # f
            BY <5>2, <3>1, <3>3
          <6>2. exec[i].family # f
            BY <5>2, <3>1, CollectionAssumption DEF IInv, RowsOwned
          <6> QED BY <6>1, <6>2
        <5> QED BY <5>1, <5>2
      <4>3. \A i \in ExecIds : exec[i].family = f => exec'[i] = exec[i]
        <5> TAKE i \in ExecIds
        <5>1. exec[i].family = f => exec[i].state # "none"
          BY CollectionAssumption DEF IInv, RowsOwned
        <5> QED BY <5>1, <3>1
      <4> QED BY <4>1, <4>2, <4>3 DEF FlowShowsLast
    <3> QED BY <3>2, <3>3
  <2>3. ASSUME NEW w \in Workers, NEW k \in Kinds, Reconcile(w, k) PROVE FlowShowsLast'
    <3> DEFINE e == worker[w].exec
    <3>1. e \in ExecIds /\ exec[e].state # "none"
      BY <2>3 DEF Reconcile, IInv, WorkOnRows
    <3>2. CASE Ended(e)
      <4>1. exec' = exec /\ flow' = flow
        BY <2>3, <3>2 DEF Reconcile, rows
      <4> QED BY <4>1 DEF FlowShowsLast
    <3>3. CASE ~Ended(e)
      <4>1. exec[e].state \in ActiveStates
        BY <3>1, <3>3 DEF Ended, IInv, TypeOK, ExecStates
      <4>2. PICK s : /\ exec' = [exec EXCEPT ![e].state = s]
                     /\ flow' = [flow EXCEPT ![exec[e].family] = FlowAfter(exec[e].family, k, s)]
        BY <2>3, <3>3 DEF Reconcile
      <4>3. exec[e].family \in Families
        BY <3>1 DEF IInv, RowsOwned
      <4>4. /\ exec'[e].state = s
            /\ \A i \in ExecIds : exec'[i].family = exec[i].family
            /\ \A i \in ExecIds : i # e => exec'[i].state = exec[i].state
        BY <3>1, <4>2 DEF IInv, TypeOK
      <4>5. flow'[exec[e].family].state = s
        BY <4>2, <4>3 DEF FlowAfter, IInv, TypeOK, FlowRow
      <4>6. \A f \in Families : f # exec[e].family => flow'[f] = flow[f]
        BY <4>2 DEF IInv, TypeOK
      <4>7. \A j \in ExecIds : exec[j].family = exec[e].family => j <= e
        BY <3>1, <4>1 DEF IInv, ActiveIsLast
      <4> SUFFICES ASSUME NEW f \in Families
                   PROVE  /\ (\A j \in ExecIds : exec'[j].family # f) => flow'[f].state = "idle"
                          /\ \A i \in ExecIds :
                                /\ exec'[i].family = f
                                /\ \A j \in ExecIds : exec'[j].family = f => j <= i
                                => flow'[f].state = exec'[i].state
        BY DEF FlowShowsLast
      <4>8. CASE f = exec[e].family
        BY <3>1, <4>4, <4>5, <4>7, <4>8 DEF ExecIds
      <4>9. CASE f # exec[e].family
        BY <4>4, <4>6, <4>9 DEF FlowShowsLast
      <4> QED BY <4>8, <4>9
    <3> QED BY <3>2, <3>3
  <2> QED BY <2>1, <2>2, <2>3, WhoWrites
<1> QED BY <1>1, <1>2, Invariance, PTL DEF Spec

----------------------------------------------------------------------------
(* Collection and the job engine.                                          *)

\* The jobs of one request are submitted together: their rows were free, so they
\* had no jobs.
LEMMA CreateSubmits ==
    ASSUME IInv, NEW fs \in SUBSET Families, Create(fs)
    PROVE  \E S \in SUBSET ExecIds : Jobs!Submit(S)
<1>1. PICK new \in NextRows(fs) :
        /\ status' = [i \in ExecIds |-> IF \E f \in fs : new[f] = i THEN "waiting" ELSE status[i]]
        /\ UNCHANGED <<holder, token, grant>>
  BY DEF Create
<1>2. \A f \in fs : new[f] \in ExecIds /\ status[new[f]] = "absent"
  BY CreatedRows DEF IInv, RowsOwned
<1>3. PICK S \in SUBSET ExecIds : \A i \in ExecIds : i \in S <=> \E f \in fs : new[f] = i
  <2>1. {i \in ExecIds : \E f \in fs : new[f] = i} \in SUBSET ExecIds
    OBVIOUS
  <2> QED BY <2>1
<1>4. \A i \in S : status[i] = "absent"
  BY <1>2, <1>3
<1>5. status' = [i \in ExecIds |-> IF i \in S THEN "waiting" ELSE status[i]]
  BY <1>1, <1>3
<1> QED BY <1>1, <1>4, <1>5 DEF Jobs!Submit

\* What every step does to the jobs.
LEMMA QueueStep == IInv /\ [Next]_vars => [Jobs!Next]_(Jobs!qvars)
<1> SUFFICES ASSUME IInv, [Next]_vars PROVE [Jobs!Next]_(Jobs!qvars)
  OBVIOUS
<1>1. CASE UNCHANGED jobs
  BY <1>1 DEF jobs, Jobs!qvars
<1>2. ASSUME NEW fs \in SUBSET Families, Create(fs) PROVE Jobs!Next
  BY <1>2, CreateSubmits DEF Jobs!Next
<1>3. ASSUME NEW w \in Workers, NEW i \in ExecIds, Claim(w, i) PROVE Jobs!Next
  <2>1. Jobs!Grant(w, i, {i}) /\ {i} \in SUBSET ExecIds
    BY <1>3 DEF Claim
  <2> QED BY <2>1 DEF Jobs!Next
<1>4. ASSUME NEW w \in Workers, Finalize(w) PROVE Jobs!Next
  <2>1. worker[w].exec \in ExecIds /\ worker[w].leave \in {"waiting", "done"}
    BY <1>4 DEF Finalize, IInv, WorkOnRows, TypeOK
  <2>2. Jobs!Settle(w, worker[w].exec, worker[w].leave) \/ Jobs!Forget(w)
    BY <1>4 DEF Finalize
  <2> QED BY <2>1, <2>2 DEF Jobs!Next
<1>5. ASSUME NEW w \in Workers, Crash(w) PROVE Jobs!Next
  BY <1>5 DEF Crash, Jobs!Next
<1>6. CASE \E fs \in SUBSET Families \ {{}}, r \in ExecIds \cup {NoExec} : Request(fs, r)
  BY <1>2, <1>6 DEF Request
<1>7. CASE InitialRequest
  BY <1>1, <1>2, <1>7 DEF InitialRequest, jobs
<1>8. CASE MarkHandoff \/ SchedulerCrash \/ \E b \in BOOLEAN : SetActive(b) \/ SetCertificate(b)
  BY <1>1, <1>8 DEF MarkHandoff, SchedulerCrash, SetActive, SetCertificate
<1>9. CASE \E f \in Families : CooldownPasses(f) \/ \E b \in BOOLEAN : SetFlowState(f, b)
  BY <1>1, <1>9 DEF CooldownPasses, SetFlowState
<1>10. ASSUME NEW w \in Workers, ReadExecution(w) \/ Raise(w) \/ \E k \in Kinds : Reconcile(w, k)
       PROVE  UNCHANGED jobs
  BY <1>10 DEF ReadExecution, Raise, Reconcile
<1>11. CASE UNCHANGED vars
  BY <1>1, <1>11 DEF vars
<1> QED
  BY <1>1, <1>3, <1>4, <1>5, <1>6, <1>7, <1>8, <1>9, <1>10, <1>11 DEF Next, WorkerStep

\* Whatever requests, workers and crashes do to the jobs of the executions are steps
\* of the abstract queue, which JobEngine implements.
THEOREM QueueUsed == Spec => UsesQueue
<1>1. Init => Jobs!Init
  BY DEF Init
<1> QED BY <1>1, QueueStep, Invariance, PTL DEF Spec, UsesQueue, Jobs!Spec

\* A worker that is about to end the job for good leaves an execution that ended.
EndsEnded ==
    \A w \in Workers :
        worker[w].pc = "finalize" /\ worker[w].leave = "done" => Ended(worker[w].exec)

\* finalize ends a job exactly when reconcile_collection_job ended its execution.
LEMMA OutcomesAgree ==
    ASSUME NEW k \in Kinds, NEW n, NEW s \in Reconciled(k, n), Leaves(k, n) = "done"
    PROVE  s \in TerminalStates
<1>1. CASE k = "success"
  BY <1>1 DEF Reconciled, TerminalStates
<1>2. CASE k # "success"
  <2>1. k = "permanent" \/ Exhausted(n)
    BY <1>2 DEF Leaves
  <2>2. Reconciled(k, n) = {"blocked"}
    BY <1>2, <2>1 DEF Reconciled
  <2> QED BY <2>2 DEF TerminalStates
<1> QED BY <1>1, <1>2

\* A step that is not a raise keeps both in step.
LEMMA ReturnsKeep ==
    ASSUME IInv, IInv', [Next]_vars, \A w \in Workers : ~Raise(w),
           \A i \in ExecIds : exec[i].state \in TerminalStates => exec'[i] = exec[i],
           EndsEnded, ActiveHasJob
    PROVE  EndsEnded' /\ ActiveHasJob'
<1> TypeOK /\ TypeOK' /\ RowsOwned /\ WorkOnRows
  BY DEF IInv
<1>s. ASSUME UNCHANGED <<exec, worker, status>> PROVE EndsEnded' /\ ActiveHasJob'
  BY <1>s DEF EndsEnded, ActiveHasJob, Ended
<1>e. \A i \in ExecIds : Ended(i) => Ended(i)'
  BY DEF Ended
<1>1. ASSUME NEW fs \in SUBSET Families, Create(fs), worker' = worker
      PROVE  EndsEnded' /\ ActiveHasJob'
  <2>1. PICK new \in NextRows(fs) :
          /\ exec' = [i \in ExecIds |->
                         IF \E f \in fs : new[f] = i
                         THEN [state |-> "queued", family |-> CHOOSE f \in fs : new[f] = i]
                         ELSE exec[i]]
          /\ status' = [i \in ExecIds |-> IF \E f \in fs : new[f] = i THEN "waiting" ELSE status[i]]
    BY <1>1 DEF Create
  <2>2. ActiveHasJob'
    <3> SUFFICES ASSUME NEW i \in ExecIds, exec'[i].state \in ActiveStates
                 PROVE  status'[i] = "waiting"
      BY DEF ActiveHasJob
    <3>1. CASE \E f \in fs : new[f] = i
      BY <2>1, <3>1
    <3>2. CASE ~\E f \in fs : new[f] = i
      <4>1. exec'[i] = exec[i] /\ status'[i] = status[i]
        BY <2>1, <3>2
      <4> QED BY <4>1 DEF ActiveHasJob
    <3> QED BY <3>1, <3>2
  <2>3. EndsEnded'
    BY <1>1, <1>e DEF EndsEnded, WorkOnRows
  <2> QED BY <2>2, <2>3
<1>2. ASSUME NEW w \in Workers, NEW i \in ExecIds, Claim(w, i) PROVE EndsEnded' /\ ActiveHasJob'
  <2>1. /\ exec' = exec /\ status' = status
        /\ worker'[w].pc = "read" /\ \A v \in Workers \ {w} : worker'[v] = worker[v]
    BY <1>2 DEF Claim, Jobs!Grant, rows, TypeOK
  <2> QED BY <2>1 DEF EndsEnded, ActiveHasJob, Ended
<1>3. ASSUME NEW w \in Workers, ReadExecution(w) PROVE EndsEnded' /\ ActiveHasJob'
  <2>1. /\ exec' = exec /\ status' = status
        /\ worker'[w].pc = "finalize" => Ended(worker[w].exec) /\ worker'[w].exec = worker[w].exec
        /\ \A v \in Workers \ {w} : worker'[v] = worker[v]
    BY <1>3 DEF ReadExecution, rows, jobs, TypeOK
  <2> QED BY <2>1 DEF EndsEnded, ActiveHasJob, Ended
<1>4. ASSUME NEW w \in Workers, NEW k \in Kinds, Reconcile(w, k) PROVE EndsEnded' /\ ActiveHasJob'
  <2>0. PICK e, n : e = worker[w].exec /\ n = worker[w].attempt
    OBVIOUS
  <2>1. e \in ExecIds /\ exec[e].state # "none"
    BY <1>4, <2>0 DEF Reconcile, WorkOnRows
  <2>2. /\ status' = status
        /\ worker'[w].exec = e /\ worker'[w].leave = Leaves(k, n)
        /\ \A v \in Workers \ {w} : worker'[v] = worker[v]
    BY <1>4, <2>0 DEF Reconcile, jobs, TypeOK
  <2>3. CASE Ended(e)
    <3>1. exec' = exec
      BY <1>4, <2>0, <2>3 DEF Reconcile, rows
    <3> QED BY <2>2, <2>3, <3>1 DEF EndsEnded, ActiveHasJob, Ended
  <2>4. CASE ~Ended(e)
    <3>1. PICK s \in Reconciled(k, n) : exec' = [exec EXCEPT ![e].state = s]
      BY <1>4, <2>0, <2>4 DEF Reconcile
    <3>2. exec'[e].state = s /\ \A i \in ExecIds \ {e} : exec'[i] = exec[i]
      BY <2>1, <3>1 DEF TypeOK
    <3>3. exec[e].state \in ActiveStates
      BY <2>1, <2>4 DEF Ended, TypeOK, ExecStates
    <3>4. ActiveHasJob'
      BY <2>1, <2>2, <3>2, <3>3 DEF ActiveHasJob
    <3>5. Leaves(k, n) = "done" => Ended(e)'
      BY <3>2, OutcomesAgree DEF Ended
    <3>6. EndsEnded'
      BY <1>e, <2>2, <3>5 DEF EndsEnded, WorkOnRows
    <3> QED BY <3>4, <3>6
  <2> QED BY <2>3, <2>4
<1>5. ASSUME NEW w \in Workers, Finalize(w) \/ Crash(w) PROVE EndsEnded' /\ ActiveHasJob'
  <2>1. /\ exec' = exec
        /\ worker'[w].pc = "idle" /\ \A v \in Workers \ {w} : worker'[v] = worker[v]
    BY <1>5 DEF Finalize, Crash, IdleWorker, rows, TypeOK
  <2>2. EndsEnded'
    BY <2>1 DEF EndsEnded, Ended
  <2>3. worker[w].exec \in ExecIds
    BY <1>5 DEF Finalize, Crash, WorkOnRows
  <2>4. CASE status' = status
    BY <2>1, <2>2, <2>4 DEF ActiveHasJob
  <2>5. CASE status' # status
    <3>1. Jobs!Settle(w, worker[w].exec, worker[w].leave) /\ worker[w].pc = "finalize"
      BY <1>5, <2>5 DEF Finalize, Crash, Jobs!Forget
    <3>2. worker[w].leave = "done" => Ended(worker[w].exec)
      BY <3>1 DEF EndsEnded
    <3>3. /\ status'[worker[w].exec] = worker[w].leave
          /\ \A i \in ExecIds \ {worker[w].exec} : status'[i] = status[i]
      BY <2>3, <3>1 DEF Jobs!Settle, TypeOK
    <3>4. worker[w].leave \in {"waiting", "done"}
      BY DEF TypeOK
    <3> QED BY <2>1, <2>2, <3>2, <3>3, <3>4, StatesDisjoint DEF ActiveHasJob, Ended
  <2> QED BY <2>2, <2>4, <2>5
<1>6. CASE \E fs \in SUBSET Families \ {{}}, r \in ExecIds \cup {NoExec} : Request(fs, r)
  BY <1>1, <1>6 DEF Request
<1>7. CASE InitialRequest
  BY <1>1, <1>s, <1>7 DEF InitialRequest, rows, jobs
<1>8. CASE MarkHandoff \/ SchedulerCrash \/ \E b \in BOOLEAN : SetActive(b) \/ SetCertificate(b)
  BY <1>s, <1>8 DEF MarkHandoff, SchedulerCrash, SetActive, SetCertificate, rows, jobs
<1>9. CASE \E f \in Families : CooldownPasses(f) \/ \E b \in BOOLEAN : SetFlowState(f, b)
  BY <1>s, <1>9 DEF CooldownPasses, SetFlowState, jobs
<1>10. CASE UNCHANGED vars
  BY <1>s, <1>10 DEF vars, jobs
<1> QED
  BY <1>2, <1>3, <1>4, <1>5, <1>6, <1>7, <1>8, <1>9, <1>10 DEF Next, WorkerStep

\* Only a handler that raises can leave an execution active without a job: races of
\* requests, overrun leases, crashes of workers and of the scheduler, retries and
\* blocks never do.
THEOREM JobKeptUnlessRaised == Spec /\ HandlersReturn => []ActiveHasJob
<1> DEFINE Returns == \A w \in Workers : ~Raise(w)
           Kept == \A i \in ExecIds : exec[i].state \in TerminalStates => exec'[i] = exec[i]
<1>1. Init => EndsEnded /\ ActiveHasJob
  BY StatesDisjoint DEF Init, EndsEnded, ActiveHasJob, IdleWorker, NewExec
<1>2. IInv /\ IInv' /\ [Next]_vars /\ [Returns]_vars /\ [Kept]_vars /\ EndsEnded /\ ActiveHasJob
        => EndsEnded' /\ ActiveHasJob'
  <2> SUFFICES ASSUME IInv, IInv', [Next]_vars, [Returns]_vars, [Kept]_vars, EndsEnded, ActiveHasJob
               PROVE  EndsEnded' /\ ActiveHasJob'
    OBVIOUS
  <2>1. CASE UNCHANGED vars
    BY <2>1 DEF vars, jobs, EndsEnded, ActiveHasJob, Ended
  <2>2. CASE Returns /\ Kept
    BY <2>2, ReturnsKeep
  <2> QED BY <2>1, <2>2
<1>3. Spec => [][Kept]_vars
  BY EndedHolds DEF EndedStays
<1>4. HandlersReturn => [][Returns]_vars
  BY DEF HandlersReturn
<1> HIDE DEF Returns, Kept
<1> QED BY <1>1, <1>2, <1>3, <1>4, Invariance, PTL DEF Spec

============================================================================
