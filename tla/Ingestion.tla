----------------------------- MODULE Ingestion -----------------------------
(***************************************************************************)
(* Durable ingestion of the pages of one company, family and flow          *)
(* (nfx.collection.ingestion).  A worker requests the page at a position,  *)
(* registers the answer and each unit in it, archives a unit's bytes,      *)
(* persists its document, and finishes the page, which moves the           *)
(* checkpoint.  Every transaction and every storage call is one step; a    *)
(* worker may die between two, and two may work on one flow when a job     *)
(* outlives its lease.  An operator may run the reconciliation.            *)
(***************************************************************************)
EXTENDS Documents, Sequences, Functions

CONSTANTS
    Families,       \* families explored: "nfe" (cursor) and "adn" (NSU)
    MaxPosition,    \* bound: positions of the source; 0 is the empty position
    Answers,        \* what the source may answer at each position
    Workers,
    MaxIngests,     \* bound: pages requested
    MaxReconciles,  \* bound: units and pages reconciled
    MaxFaults       \* bound: crashes, storage and database failures

Positions == 0..MaxPosition

\* FiscalOutcome values, and the ones answered without looking at units.
FailureOutcomes ==
    {"no_coverage", "unavailable", "timeout", "cooldown", "blocked", "conflict",
     "malformed", "event_without_parent", "repeated_cursor"}
FiscalOutcomes == FailureOutcomes \cup {"success", "duplicate", "empty", "partial", "unknown"}

ASSUME IngestionAssumption ==
    /\ Families \subseteq {"nfe", "adn"}
    /\ MaxPosition \in Nat
    /\ \A p \in Positions : \A r \in Answers[p] :
         /\ r.outcome \in FiscalOutcomes
         /\ r.next \in Positions
         /\ r.units \in Seq([id : Ids, hash : Hashes])
    /\ MaxIngests \in Nat /\ MaxReconciles \in Nat /\ MaxFaults \in Nat

VARIABLES
    family,
    checkpoint, \* IngestionCheckpoint.cursor or .nsu
    page,       \* nfx_ingestion_page, by requested position (its page_key); its field
                \* answer is history: the units of the answer the row records
    unit,       \* nfx_received_unit, by page and identity
    run,        \* what each worker is doing
    ingests, reconciles, faults,
    passed      \* history: of each page the checkpoint left behind, the units of the
                \* recorded answer and the identities of the rows

vars == <<family, checkpoint, page, unit, run, ingests, reconciles, faults, docs, artifact,
          passed>>

PageStates == {"none", "pending", "complete", "empty", "no_coverage", "unavailable", "retry",
               "cooldown", "blocked", "partial", "failed"}
UnitStates == {"none", "pending", "persisted", "replay", "quarantine", "conflict", "failed"}
Outcomes == {"success", "valid_empty", "no_coverage", "unavailable", "temporary_failure",
             "cooldown", "permanent_failure", "malformed", "unknown", "partial", "quarantine",
             "conflict"}
Recoveries == {"none", "retry", "cooldown", "blocked", "quarantine", "conflict_review",
               "reconcile"}
TerminalUnits == {"persisted", "replay", "quarantine", "conflict"}
Finished == {"complete", "empty"}
FailedPages == {"failed", "no_coverage", "unavailable", "retry", "cooldown", "blocked"}

NoPage == [state |-> "none", outcome |-> "unknown", recovery |-> "none", adapter |-> "unknown",
           next |-> 0, count |-> 0, final |-> FALSE, answer |-> {}]
NoUnit == [state |-> "none", hash |-> CHOOSE h \in Hashes : TRUE, missing |-> FALSE]

\* A classification: page state, outcome and recovery.
Class(s, o, r) == [state |-> s, outcome |-> o, recovery |-> r]

Idle == [pc |-> "idle", pos |-> 0, units |-> <<>>, outcome |-> "unknown", next |-> 0,
         seen |-> {}, treat |-> "pending", class |-> Class("pending", "unknown", "none"),
         repair |-> FALSE, report |-> "none"]

Init ==
    /\ family \in Families
    /\ checkpoint = 0
    /\ page = [p \in Positions |-> NoPage]
    /\ unit = [p \in Positions |-> [i \in Ids |-> NoUnit]]
    /\ run = [w \in Workers |-> Idle]
    /\ ingests = 0 /\ reconciles = 0 /\ faults = 0
    /\ DocsInit /\ artifact = {}
    /\ passed = {}

----------------------------------------------------------------------------
(* Classification.                                                         *)

\* classify_page_response: what an answer with or without units means.
ClassifyPage(o, some) ==
    CASE o \in {"success", "duplicate"} /\ some -> Class("complete", "success", "none")
      [] o = "empty" \/ (o \in {"success", "duplicate"} /\ ~some) ->
            Class("empty", "valid_empty", "none")
      [] o = "no_coverage"     -> Class("no_coverage", "no_coverage", "none")
      [] o = "unavailable"     -> Class("unavailable", "unavailable", "retry")
      [] o = "timeout"         -> Class("retry", "temporary_failure", "retry")
      [] o = "repeated_cursor" -> Class("retry", "temporary_failure", "reconcile")
      [] o = "cooldown"        -> Class("cooldown", "cooldown", "cooldown")
      [] o = "blocked"         -> Class("blocked", "permanent_failure", "blocked")
      [] o = "partial"         -> Class("partial", "partial", "retry")
      [] o = "event_without_parent" -> Class("failed", "quarantine", "quarantine")
      [] o = "malformed"       -> Class("failed", "malformed", "quarantine")
      [] o = "conflict"        -> Class("failed", "conflict", "conflict_review")
      [] OTHER                 -> Class("failed", "unknown", "reconcile")

\* classify_unit_treatments: the worst treatment of a page's units decides.
ClassifyUnits(seen) ==
    IF seen \cap {"pending", "failed"} # {} THEN Class("partial", "partial", "retry")
    ELSE IF "conflict" \in seen THEN Class("complete", "conflict", "conflict_review")
    ELSE IF "quarantine" \in seen THEN Class("complete", "quarantine", "quarantine")
    ELSE Class("complete", "success", "none")

\* ingest_collection_response: the job outcome of a page outcome.
JobOutcome(o) ==
    CASE o \in {"success", "valid_empty"} -> "success"
      [] o = "cooldown"          -> "cooldown"
      [] o = "permanent_failure" -> "permanent"
      [] o = "partial"           -> "partial"
      [] OTHER                   -> "temporary"

----------------------------------------------------------------------------

Rows(p) == {i \in Ids : unit[p][i].state # "none"}
AllTerminal(p) == \A i \in Rows(p) : unit[p][i].state \in TerminalUnits

Go(w, next) == run' = [run EXCEPT ![w].pc = next]
SpendFault == faults < MaxFaults /\ faults' = faults + 1

\* After the page is registered: an answer that failed is finished at once.
AfterPage(w) ==
    run' = [run EXCEPT ![w] = [@ EXCEPT
        !.pc = IF run[w].outcome \in FailureOutcomes THEN "finish" ELSE "units",
        !.class = ClassifyPage(run[w].outcome, run[w].units # <<>>)]]

\* A worker asks for the page at the checkpoint, or again for an earlier one, and
\* gets an answer.  _validate_response_position has accepted its kind of position.
Request(w, p, r) ==
    /\ run[w].pc = "idle"
    /\ ingests < MaxIngests
    /\ p = checkpoint \/ page[p] # NoPage
    /\ ingests' = ingests + 1
    /\ run' = [run EXCEPT ![w] = [Idle EXCEPT !.pc = "register", !.pos = p, !.units = r.units,
                                              !.outcome = r.outcome, !.next = r.next]]
    /\ UNCHANGED <<family, checkpoint, page, unit, reconciles, faults, docs, artifact, passed>>

\* _can_resume_page, of the page as _register_page read it.
CanResume(w, pg) ==
    /\ pg.state \notin Finished
    /\ pg.recovery \in {"retry", "reconcile", "none"}
    /\ pg.adapter # run[w].outcome

\* _register_page: a page is created once; one that exists is resumed or answered
\* as it is.  The answer to a position that is not the checkpoint's fails.
RegisterPage(w) ==
    LET p == run[w].pos
        class == ClassifyPage(run[w].outcome, run[w].units # <<>>)
        new == [state |-> "pending", outcome |-> class.outcome, recovery |-> class.recovery,
                adapter |-> run[w].outcome, next |-> run[w].next,
                count |-> Len(run[w].units), final |-> FALSE, answer |-> Range(run[w].units)] IN
    /\ run[w].pc = "register"
    /\ \/ /\ page[p] # NoPage
          /\ run' = [run EXCEPT ![w] = [@ EXCEPT
                !.pc = IF CanResume(w, page[p]) THEN "prepare" ELSE "done",
                !.report = JobOutcome(page[p].outcome)]]
          /\ UNCHANGED page
       \/ /\ page[p] = NoPage
          /\ checkpoint # p
          /\ page' = [page EXCEPT ![p] = [new EXCEPT !.state = "failed",
                            !.outcome = "temporary_failure", !.recovery = "reconcile"]]
          /\ run' = [run EXCEPT ![w] = [@ EXCEPT !.pc = "done", !.report = "temporary"]]
       \/ /\ page[p] = NoPage
          /\ checkpoint = p
          /\ page' = [page EXCEPT ![p] = new]
          /\ AfterPage(w)
    /\ UNCHANGED <<family, checkpoint, unit, ingests, reconciles, faults, docs, artifact, passed>>

\* _prepare_page_retry overwrites the page with the new answer.
PrepareRetry(w) ==
    LET class == ClassifyPage(run[w].outcome, run[w].units # <<>>) IN
    /\ run[w].pc = "prepare"
    /\ page' = [page EXCEPT ![run[w].pos] =
                  [state |-> "pending", outcome |-> class.outcome, recovery |-> class.recovery,
                   adapter |-> run[w].outcome, next |-> run[w].next,
                   count |-> Len(run[w].units), final |-> FALSE, answer |-> Range(run[w].units)]]
    /\ AfterPage(w)
    /\ UNCHANGED <<family, checkpoint, unit, ingests, reconciles, faults, docs, artifact, passed>>

----------------------------------------------------------------------------
(* The units of a page.                                                    *)

Cur(w) == Head(run[w].units)

\* The worker is through with its unit.  A repair of one unit goes on to its page.
NextUnit(w, t) ==
    run' = [run EXCEPT ![w] = [@ EXCEPT !.pc = IF run[w].pc = "treat" /\ run[w].repair
                                               THEN "settle" ELSE "units",
                                        !.units = Tail(run[w].units),
                                        !.seen = run[w].seen \cup {t}]]

\* Whether _process_unit returns the treatment of row u for content h as it is.
Treated(u, h) == u.state \in TerminalUnits /\ u.hash = h /\ ~(u.state = "quarantine" /\ u.missing)

\* _register_unit: a row per page and identity; other content makes it pending
\* again, and the row keeps the hash it was created with.
RegisterUnit(w) ==
    LET p == run[w].pos
        c == Cur(w)
        old == unit[p][c.id]
        row == IF old.state = "none"
               THEN [state |-> "pending", hash |-> c.hash, missing |-> FALSE]
               ELSE IF old.hash # c.hash
               THEN [old EXCEPT !.state = "pending", !.missing = FALSE]
               ELSE old IN
    /\ run[w].pc = "units"
    /\ run[w].units # <<>>
    /\ unit' = [unit EXCEPT ![p][c.id] = row]
    /\ IF Treated(row, c.hash) THEN NextUnit(w, row.state) ELSE Go(w, "archive")
    /\ UNCHANGED <<family, checkpoint, page, ingests, reconciles, faults, docs, artifact, passed>>

\* Mutant: the document is persisted before its bytes are archived.
EnsureArtifact_Skipped(w) ==
    /\ run[w].pc = "archive"
    /\ Go(w, "persist")
    /\ UNCHANGED <<family, checkpoint, page, unit, ingests, reconciles, faults, docs, artifact, passed>>

\* _ensure_artifact: the bytes are archived and verified before anything else.
EnsureArtifact(w) ==
    /\ run[w].pc = "archive"
    /\ artifact' = artifact \cup {<<Cur(w).id, Cur(w).hash>>}
    /\ Go(w, "persist")
    /\ UNCHANGED <<family, checkpoint, page, unit, ingests, reconciles, faults, docs, passed>>

\* persist_document, whose status is the unit's treatment.
PersistUnit(w) ==
    LET c == Cur(w) IN
    /\ run[w].pc = "persist"
    /\ PersistDocument(c.id, c.hash)
    /\ run' = [run EXCEPT ![w] = [@ EXCEPT !.pc = "treat", !.treat = PersistStatus(c.id, c.hash)]]
    /\ UNCHANGED <<family, checkpoint, page, unit, ingests, reconciles, faults, artifact, passed>>

\* Object storage, or the transaction of the document, fails.
UnitFails(w) ==
    /\ run[w].pc \in {"archive", "persist"}
    /\ SpendFault
    /\ run' = [run EXCEPT ![w] = [@ EXCEPT !.pc = "treat", !.treat = "failed"]]
    /\ UNCHANGED <<family, checkpoint, page, unit, ingests, reconciles, docs, artifact, passed>>

\* _finish_unit and _fail_unit write the treatment whatever the row says by then.
FinishUnit(w) ==
    LET t == run[w].treat
        state == IF t \in {"invalid", "parent_missing"} THEN "quarantine" ELSE t IN
    /\ run[w].pc = "treat"
    /\ unit' = [unit EXCEPT ![run[w].pos][Cur(w).id] =
                  [@ EXCEPT !.state = state, !.missing = (t = "parent_missing")]]
    /\ NextUnit(w, state)
    /\ UNCHANGED <<family, checkpoint, page, ingests, reconciles, faults, docs, artifact, passed>>

\* The last unit is treated: the answer, or the treatments, classify the page.
UnitsDone(w) ==
    LET class == IF run[w].outcome = "partial" THEN Class("partial", "partial", "retry")
                 ELSE IF run[w].seen # {}
                 THEN ClassifyUnits(run[w].seen)
                 ELSE ClassifyPage(run[w].outcome, FALSE) IN
    /\ run[w].pc = "units"
    /\ run[w].units = <<>>
    /\ run' = [run EXCEPT ![w] = [@ EXCEPT !.pc = "finish", !.class = class]]
    /\ UNCHANGED <<family, checkpoint, page, unit, ingests, reconciles, faults, docs, artifact, passed>>

----------------------------------------------------------------------------
(* The end of a page.                                                      *)

\* Where the checkpoint goes when page pg, requested at p, is finished, or -1 when
\* its continuation is refused.  A cursor without continuation stays.  An NSU that
\* repeats or decreases is refused; a missing one is stored like any other.
Advance(p, pg) ==
    IF family = "nfe"
    THEN IF pg.next = 0 THEN p ELSE IF pg.next = p THEN -1 ELSE pg.next
    ELSE IF p = 0 /\ pg.next = 0 THEN 0
    ELSE IF pg.next = p \/ (p # 0 /\ pg.next # 0 /\ pg.next < p) THEN -1
    ELSE pg.next

\* Mutant: the durable states of the units are not looked at again.
FinishResult_Unchecked(p, class) ==
    LET finished == [page[p] EXCEPT !.state = class.state, !.outcome = class.outcome,
                               !.recovery = class.recovery, !.final = TRUE] IN
    IF class.state \notin Finished \/ checkpoint # p
    THEN [page |-> page[p], checkpoint |-> checkpoint]
    ELSE [page |-> finished, checkpoint |-> Advance(p, page[p])]

\* Mutant: a page that is only partial moves the checkpoint when its units are treated.
FinishResult_Partial(p, class) ==
    LET left == [page[p] EXCEPT !.state = class.state, !.outcome = class.outcome,
                                !.recovery = class.recovery] IN
    [page |-> left,
     checkpoint |-> IF page[p].state \in FailedPages \/ ~AllTerminal(p) \/ checkpoint # p
                       \/ Cardinality(Rows(p)) # page[p].count \/ Advance(p, page[p]) = -1
                    THEN checkpoint ELSE Advance(p, page[p])]

\* The page a worker's _finish_page leaves, and where it leaves the checkpoint.
FinishResult(p, class) ==
    LET pg == page[p]
        refused == [pg EXCEPT !.state = "failed", !.outcome = "temporary_failure",
                              !.recovery = "reconcile"]
        finished == [pg EXCEPT !.state = class.state, !.outcome = class.outcome,
                               !.recovery = class.recovery, !.final = TRUE] IN
    IF pg.state \in FailedPages THEN [page |-> pg, checkpoint |-> checkpoint]
    ELSE IF class.state \notin Finished
    THEN [page |-> [finished EXCEPT !.final = pg.final], checkpoint |-> checkpoint]
    ELSE IF pg.count # Cardinality(Rows(p)) \/ ~AllTerminal(p)
    THEN [page |-> [pg EXCEPT !.state = "partial", !.outcome = "partial", !.recovery = "retry"],
          checkpoint |-> checkpoint]
    ELSE IF checkpoint # p THEN [page |-> [pg EXCEPT !.state = "failed"], checkpoint |-> checkpoint]
    ELSE IF Advance(p, pg) = -1 THEN [page |-> refused, checkpoint |-> checkpoint]
    ELSE [page |-> finished, checkpoint |-> Advance(p, pg)]

\* _finish_page, in one transaction.
FinishPage(w) ==
    LET p == run[w].pos
        r == FinishResult(p, run[w].class) IN
    /\ run[w].pc = "finish"
    /\ page' = [page EXCEPT ![p] = r.page]
    /\ checkpoint' = r.checkpoint
    /\ run' = [run EXCEPT ![w] = [@ EXCEPT !.pc = "done", !.report = JobOutcome(r.page.outcome)]]
    /\ passed' = IF checkpoint' = checkpoint THEN passed
                 ELSE passed \cup {[answer |-> page[p].answer, rows |-> Rows(p)]}
    /\ UNCHANGED <<family, unit, ingests, reconciles, faults, docs, artifact>>

\* reconcile_collection_job gets the outcome of the page.
Report(w) ==
    /\ run[w].pc = "done"
    /\ run' = [run EXCEPT ![w] = Idle]
    /\ UNCHANGED <<family, checkpoint, page, unit, ingests, reconciles, faults, docs, artifact, passed>>

\* The worker process dies, and what it keeps in memory with it.
Crash(w) ==
    /\ run[w].pc # "idle"
    /\ SpendFault
    /\ run' = [run EXCEPT ![w] = Idle]
    /\ UNCHANGED <<family, checkpoint, page, unit, ingests, reconciles, docs, artifact, passed>>

----------------------------------------------------------------------------
(* reconcile.                                                              *)

\* A unit that is pending, failed or quarantined for its parent is processed again
\* with the content its row names.
ReconcileUnit(w, p, i) ==
    LET u == unit[p][i] IN
    /\ run[w].pc = "idle"
    /\ reconciles < MaxReconciles
    /\ u.state \in {"pending", "failed"} \/ (u.state = "quarantine" /\ u.missing)
    /\ reconciles' = reconciles + 1
    /\ run' = [run EXCEPT ![w] = [Idle EXCEPT !.pc = "archive", !.pos = p, !.repair = TRUE,
                                              !.units = <<[id |-> i, hash |-> u.hash]>>]]
    /\ UNCHANGED <<family, checkpoint, page, unit, ingests, faults, docs, artifact, passed>>

\* A page whose units are all treated is finished, unless its answer was partial.
\* The loop over units looks at partial pages, the one over pages at pending ones too.
Settle(w, p) ==
    LET pg == page[p]
        ready == AllTerminal(p) /\ pg.adapter # "partial"
        seen == {unit[p][i].state : i \in Rows(p)}
        class == [ClassifyUnits(seen) EXCEPT !.state = IF pg.count = 0 THEN "empty" ELSE "complete"] IN
    /\ \/ /\ run[w].pc = "settle"
          /\ p = run[w].pos
          /\ run' = [run EXCEPT ![w] = IF pg.state = "partial" /\ Rows(p) # {} /\ ready
                                       THEN [@ EXCEPT !.pc = "finish", !.class = class] ELSE Idle]
          /\ UNCHANGED reconciles
       \/ /\ run[w].pc = "idle"
          /\ reconciles < MaxReconciles
          /\ reconciles' = reconciles + 1
          /\ pg.state \in {"pending", "partial"}
          /\ ready
          /\ pg.count = 0 \/ Cardinality(Rows(p)) = pg.count
          /\ run' = [run EXCEPT ![w] = [Idle EXCEPT !.pc = "finish", !.pos = p, !.class = class,
                                                    !.repair = TRUE]]
    /\ UNCHANGED <<family, checkpoint, page, unit, ingests, faults, docs, artifact, passed>>

----------------------------------------------------------------------------

Step(w) ==
    \/ RegisterPage(w) \/ PrepareRetry(w) \/ RegisterUnit(w) \/ EnsureArtifact(w)
    \/ PersistUnit(w) \/ FinishUnit(w) \/ UnitsDone(w) \/ FinishPage(w) \/ Report(w)

Next ==
    \/ \E w \in Workers, p \in Positions : \E r \in Answers[p] : Request(w, p, r)
    \/ \E w \in Workers : Step(w) \/ UnitFails(w) \/ Crash(w)
    \/ \E w \in Workers, p \in Positions, i \in Ids : ReconcileUnit(w, p, i)
    \/ \E w \in Workers, p \in Positions : Settle(w, p)

Spec == Init /\ [][Next]_vars

----------------------------------------------------------------------------
(* Properties.                                                             *)

\* Every variable keeps its type.
TypeOK ==
    /\ family \in Families
    /\ checkpoint \in Positions
    /\ page \in [Positions -> [state : PageStates, outcome : Outcomes, recovery : Recoveries,
                               adapter : FiscalOutcomes, next : Positions, count : Nat,
                               final : BOOLEAN, answer : SUBSET [id : Ids, hash : Hashes]]]
    /\ unit \in [Positions -> [Ids -> [state : UnitStates, hash : Hashes, missing : BOOLEAN]]]
    /\ \A w \in Workers : run[w].pos \in Positions /\ run[w].seen \subseteq UnitStates
    /\ DocsTypeOK
    /\ artifact \subseteq Ids \X Hashes

\* The variables keep their types, and bytes come before rows: whatever a document or
\* an event has as evidence was archived and verified first (_ensure_artifact runs
\* before persist_document).
IngestionInv ==
    /\ TypeOK
    /\ \A i \in Ids : {i} \X docs[i].evidence \subseteq artifact

\* The identities of a set of units.
Named(units) == {u.id : u \in units}

\* No registered unit is skipped: every one the checkpoint left behind has its bytes
\* archived and its document persisted, or it waits in quarantine; a failed or
\* interrupted unit holds the checkpoint back, whoever finishes the page.  And a unit
\* of the recorded answer is registered, unless the page has the row of a unit that
\* only an earlier answer named: unit_count takes the one for the other.
NothingSkipped ==
    \A s \in passed :
        /\ \A i \in s.rows :
             /\ \E h \in Hashes : <<i, h>> \in artifact
             /\ Exists(i) \/ i \in Invalid \/ i \in Events
        /\ s.rows \subseteq Named(s.answer) => Named(s.answer) \subseteq s.rows

\* What issue 0009 asks for: the checkpoint advances only after every unit of the page
\* was treated, and retries and restarts lose none, so the content of every unit in the
\* recorded answer is archived.
AnswerKept ==
    \A s \in passed : \A u \in s.answer : <<u.id, u.hash>> \in artifact

\* Two contents of one identity are both kept and the document is in conflict,
\* whichever workers stored them and whatever was retried in between; a unit that was
\* treated as a conflict stays visible as one in its document.
ConflictVisible ==
    \A i \in Ids :
        /\ (Cardinality(docs[i].evidence) > 1) <=> (docs[i].state = "conflict")
        /\ (\E p \in Positions : unit[p][i].state = "conflict") => docs[i].state = "conflict"

\* The checkpoint only moves to where a finished page of the position it leaves points.
CheckpointFollowsPages ==
    [][checkpoint' # checkpoint =>
          /\ page'[checkpoint].final
          /\ page'[checkpoint].next = checkpoint'
          /\ AllTerminal(checkpoint)]_vars

============================================================================
