-------------------------- MODULE Ingestion_proofs --------------------------
(***************************************************************************)
(* Theorems about Ingestion: for every source, any number of workers,      *)
(* pages, units, contents, faults and reconciliations.                     *)
(***************************************************************************)
EXTENDS Ingestion, FiniteSetTheorems, SequenceTheorems, TLAPS

----------------------------------------------------------------------------
(* The inductive invariant.                                                *)

Units == [id : Ids, hash : Hashes]
Classes == [state : PageStates, outcome : Outcomes, recovery : Recoveries]
Reports == {"none", "success", "cooldown", "permanent", "partial", "temporary"}
Pages == [state : PageStates, outcome : Outcomes, recovery : Recoveries,
          adapter : FiscalOutcomes, next : Positions, count : Nat, final : BOOLEAN,
          answer : SUBSET Units]
Passed == [answer : SUBSET Units, rows : SUBSET Ids]
UnitRows == [state : UnitStates, hash : Hashes, missing : BOOLEAN]

\* What a worker keeps in memory.
Work == [pc : {"idle", "register", "prepare", "units", "archive", "persist", "treat",
               "settle", "finish", "done"},
         pos : Positions, units : Seq(Units), outcome : FiscalOutcomes, next : Positions,
         seen : SUBSET UnitStates,
         treat : {"pending", "persisted", "replay", "conflict", "failed", "invalid",
                  "parent_missing"},
         class : Classes, repair : BOOLEAN, report : Reports]

\* What the terminal treatment t of a unit of identity i promises.
Told(i, t) ==
    /\ \E h \in Hashes : <<i, h>> \in artifact
    /\ Exists(i) \/ i \in Invalid \/ i \in Events
    /\ t = "conflict" => docs[i].state = "conflict"

\* A worker persists a document after its bytes, and is about to write only a
\* treatment that holds.
WorkOf(r) ==
    /\ r.pc \in {"archive", "persist", "treat"} => r.units # <<>>
    /\ r.pc = "persist" => <<Head(r.units).id, Head(r.units).hash>> \in artifact
    /\ r.pc = "treat" /\ r.treat # "failed" => Told(Head(r.units).id, r.treat)

Working == \A w \in Workers : WorkOf(run[w])

\* The treatment of every unit holds, and so does that of every unit left behind.
UnitsTold ==
    \A p \in Positions, i \in Ids :
        unit[p][i].state \in TerminalUnits => Told(i, unit[p][i].state)

\* The state of a document follows from the number of its contents.
DocOK(i) ==
    /\ IsFiniteSet(docs[i].evidence)
    /\ docs[i].state = "none" => docs[i].evidence = {}
    /\ docs[i].state = "persisted" => \E h \in Hashes : docs[i].evidence = {h}
    /\ docs[i].state = "conflict" => \E g, h \in docs[i].evidence : g # h
    /\ {i} \X docs[i].evidence \subseteq artifact

Documented == \A i \in Ids : DocOK(i)

\* A page counts at least as many units as its recorded answer names.
CountOK(pg) ==
    /\ IsFiniteSet(Named(pg.answer))
    /\ Cardinality(Named(pg.answer)) <= pg.count

Counted == \A p \in Positions : CountOK(page[p])

IInv ==
    /\ TypeOK
    /\ run \in [Workers -> Work]
    /\ passed \subseteq Passed
    /\ Working
    /\ UnitsTold
    /\ Documented
    /\ Counted
    /\ NothingSkipped

\* The types of everything but the workers.
TablesTyped ==
    /\ family \in Families
    /\ checkpoint \in Positions
    /\ page \in [Positions -> Pages]
    /\ unit \in [Positions -> [Ids -> UnitRows]]
    /\ DocsTypeOK
    /\ artifact \subseteq Ids \X Hashes
    /\ passed \subseteq Passed

\* Documents and archived bytes are never taken back.
Onward ==
    /\ artifact \subseteq artifact'
    /\ \A i \in Ids : /\ Exists(i) => Exists(i)'
                      /\ docs[i].state = "conflict" => docs'[i].state = "conflict"

----------------------------------------------------------------------------
(* Facts about the operators.                                              *)

\* The two ways of saying that the variables have their types.
LEMMA Types ==
    ASSUME run \in [Workers -> Work], passed \subseteq Passed
    PROVE  TypeOK <=> TablesTyped
<1>1. \A w \in Workers : run[w].pos \in Positions /\ run[w].seen \subseteq UnitStates
  BY DEF Work
<1>2. QED
  BY <1>1 DEF TypeOK, TablesTyped, Pages, UnitRows, Units

\* The same of the next state.
LEMMA TypesNext ==
    ASSUME run' \in [Workers -> Work], TablesTyped'
    PROVE  TypeOK'
<1>1. \A w \in Workers : run'[w].pos \in Positions /\ run'[w].seen \subseteq UnitStates
  BY DEF Work
<1>2. QED
  BY <1>1 DEF TypeOK, TablesTyped, Pages, UnitRows, Units

\* classify_page_response answers a classification.
LEMMA PageClass ==
    ASSUME NEW o \in FiscalOutcomes, NEW b \in BOOLEAN
    PROVE  ClassifyPage(o, b) \in Classes
BY DEF ClassifyPage, Class, Classes, PageStates, Outcomes, Recoveries, FiscalOutcomes,
       FailureOutcomes

\* So does classify_unit_treatments.
LEMMA UnitsClass ==
    ASSUME NEW seen
    PROVE  ClassifyUnits(seen) \in Classes
BY DEF ClassifyUnits, Class, Classes, PageStates, Outcomes, Recoveries

\* Every page outcome has a job outcome.
LEMMA ReportTyped ==
    ASSUME NEW o
    PROVE  JobOutcome(o) \in Reports
BY DEF JobOutcome, Reports

\* A worker without work is a worker.
LEMMA IdleTyped == Idle \in Work
<1>1. Class("pending", "unknown", "none") \in Classes
  BY DEF Class, Classes, PageStates, Outcomes, Recoveries
<1>2. 0 \in Positions
  BY IngestionAssumption DEF Positions
<1>3. <<>> \in Seq(Units)
  OBVIOUS
<1>4. QED
  BY <1>1, <1>2, <1>3 DEF Idle, Work, FiscalOutcomes, Reports

\* What was told stays true.
LEMMA ToldStays ==
    ASSUME Onward, NEW i \in Ids, NEW t, Told(i, t)
    PROVE  Told(i, t)'
BY DEF Onward, Told

\* What a worker relies on survives every step of the others.
LEMMA WorkStays ==
    ASSUME Onward, NEW r \in Work, WorkOf(r)
    PROVE  WorkOf(r)'
<1>1. r.units # <<>> => Head(r.units) \in Units
  BY DEF Work
<1>2. r.units # <<>> => Head(r.units).id \in Ids
  BY <1>1 DEF Units
<1>3. ASSUME r.pc = "treat" /\ r.treat # "failed"
      PROVE  Told(Head(r.units).id, r.treat)'
  <2>1. Told(Head(r.units).id, r.treat) /\ Head(r.units).id \in Ids
    BY <1>2, <1>3 DEF WorkOf
  <2>2. PICK i \in Ids : i = Head(r.units).id
    BY <2>1
  <2>3. Told(i, r.treat)'
    BY <2>1, <2>2, ToldStays
  <2>4. QED
    BY <2>2, <2>3
<1>4. QED
  BY <1>3 DEF WorkOf, Onward

----------------------------------------------------------------------------
(* What every step has in common.                                          *)

\* One worker moves; whatever is written meanwhile keeps the tables in order.
LEMMA WorkerStep ==
    ASSUME IInv, NEW w \in Workers, NEW r \in Work, run' = [run EXCEPT ![w] = r],
           Onward, WorkOf(r)', TablesTyped', UnitsTold', Documented', Counted', NothingSkipped'
    PROVE  IInv'
<1>1. run' \in [Workers -> Work]
  BY DEF IInv
<1>2. TypeOK'
  BY <1>1, TypesNext
<1>3. ASSUME NEW x \in Workers PROVE WorkOf(run[x])'
  <2>1. CASE x = w
    <3>1. run'[x] = r
      BY <2>1 DEF IInv
    <3>2. QED
      BY <3>1 DEF WorkOf
  <2>2. CASE x # w
    <3>1. PICK q \in Work : q = run[x]
      BY DEF IInv
    <3>2. run'[x] = q
      BY <2>2, <3>1 DEF IInv
    <3>3. WorkOf(q)
      BY <3>1 DEF IInv, Working
    <3>4. WorkOf(q)'
      BY <3>3, WorkStays
    <3>5. QED
      BY <3>2, <3>4 DEF WorkOf
  <2>3. QED
    BY <2>1, <2>2
<1>4. Working'
  BY <1>3 DEF Working
<1>5. passed' \subseteq Passed
  BY DEF TablesTyped
<1>6. QED
  BY <1>1, <1>2, <1>4, <1>5 DEF IInv

\* Nothing but the worker changes.
LEMMA QuietStep ==
    ASSUME IInv, NEW w \in Workers, NEW r \in Work, run' = [run EXCEPT ![w] = r], WorkOf(r),
           UNCHANGED <<family, checkpoint, page, unit, docs, artifact, passed>>
    PROVE  IInv'
<1>1. Onward
  BY DEF Onward, Exists
<1>2. TablesTyped /\ TablesTyped'
  BY Types DEF IInv, TablesTyped, DocsTypeOK
<1>3. UnitsTold' /\ Documented' /\ Counted' /\ NothingSkipped'
  BY DEF IInv, UnitsTold, Told, Exists, Documented, DocOK, Counted, NothingSkipped
<1>4. WorkOf(r)'
  BY <1>1, WorkStays
<1>5. QED
  BY <1>1, <1>2, <1>3, <1>4, WorkerStep

\* One page is written, and counts its answer.
LEMMA CountWritten ==
    ASSUME IInv, TablesTyped, NEW p \in Positions, NEW pg, CountOK(pg),
           page' = [page EXCEPT ![p] = pg]
    PROVE  Counted'
<1> SUFFICES ASSUME NEW q \in Positions PROVE CountOK(page'[q])
  BY DEF Counted, CountOK
<1>1. CASE q = p
  <2>1. page'[q] = pg
    BY <1>1 DEF TablesTyped
  <2>2. QED
    BY <2>1
<1>2. CASE q # p
  <2>1. page'[q] = page[q]
    BY <1>2 DEF TablesTyped
  <2>2. QED
    BY <2>1 DEF IInv, Counted
<1>3. QED
  BY <1>1, <1>2

\* The worker writes its page, which no unit depends on.
LEMMA PageStep ==
    ASSUME IInv, NEW w \in Workers, NEW r \in Work, run' = [run EXCEPT ![w] = r], WorkOf(r),
           NEW p \in Positions, NEW pg \in Pages, CountOK(pg), page' = [page EXCEPT ![p] = pg],
           UNCHANGED <<family, checkpoint, unit, docs, artifact, passed>>
    PROVE  IInv'
<1>1. Onward
  BY DEF Onward, Exists
<1>2. TablesTyped
  BY Types DEF IInv
<1>3. TablesTyped'
  BY <1>2 DEF TablesTyped, DocsTypeOK
<1>4. UnitsTold' /\ Documented' /\ NothingSkipped'
  BY DEF IInv, UnitsTold, Told, Exists, Documented, DocOK, NothingSkipped
<1>5. Counted'
  BY <1>2, CountWritten
<1>6. WorkOf(r)'
  BY <1>1, WorkStays
<1>7. QED
  BY <1>1, <1>3, <1>4, <1>5, <1>6, WorkerStep

\* The worker writes the row of a unit.
LEMMA UnitStep ==
    ASSUME IInv, NEW w \in Workers, NEW r \in Work, run' = [run EXCEPT ![w] = r], WorkOf(r),
           NEW p \in Positions, NEW i \in Ids, NEW u \in UnitRows,
           unit' = [unit EXCEPT ![p][i] = u],
           u.state \in TerminalUnits => Told(i, u.state),
           UNCHANGED <<family, checkpoint, page, docs, artifact, passed>>
    PROVE  IInv'
<1>1. Onward
  BY DEF Onward, Exists
<1>2. TablesTyped
  BY Types DEF IInv
<1>3. unit \in [Positions -> [Ids -> UnitRows]]
  BY <1>2 DEF TablesTyped
<1>4. unit' \in [Positions -> [Ids -> UnitRows]]
  BY <1>3
<1>5. TablesTyped'
  BY <1>2, <1>4 DEF TablesTyped, DocsTypeOK
<1>6. Documented' /\ Counted' /\ NothingSkipped'
  BY DEF IInv, Exists, Documented, DocOK, Counted, NothingSkipped
<1>7. UnitsTold'
  <2> SUFFICES ASSUME NEW q \in Positions, NEW j \in Ids, NEW t \in TerminalUnits,
                      t = unit'[q][j].state
               PROVE  Told(j, t)'
    BY DEF UnitsTold, Told
  <2>1. CASE q = p /\ j = i
    <3>1. unit'[q][j] = u
      BY <1>3, <2>1
    <3>2. Told(j, t)
      BY <2>1, <3>1
    <3>3. QED
      BY <1>1, <3>2, ToldStays
  <2>2. CASE ~(q = p /\ j = i)
    <3>1. unit'[q][j] = unit[q][j]
      BY <1>3, <2>2
    <3>2. Told(j, t)
      BY <3>1 DEF IInv, UnitsTold
    <3>3. QED
      BY <1>1, <3>2, ToldStays
  <2>3. QED
    BY <2>1, <2>2
<1>8. WorkOf(r)'
  BY <1>1, WorkStays
<1>9. QED
  BY <1>1, <1>5, <1>6, <1>7, <1>8, WorkerStep

----------------------------------------------------------------------------
(* Each step keeps the invariant.                                          *)

\* A page is asked for: only the worker knows.
LEMMA RequestKeeps ==
    ASSUME IInv, NEW w \in Workers, NEW p \in Positions, NEW a \in Answers[p], Request(w, p, a)
    PROVE  IInv'
<1>1. a.units \in Seq(Units) /\ a.outcome \in FiscalOutcomes /\ a.next \in Positions
  BY IngestionAssumption DEF Units
<1>2. PICK r : r = [Idle EXCEPT !.pc = "register", !.pos = p, !.units = a.units,
                                !.outcome = a.outcome, !.next = a.next]
  OBVIOUS
<1>3. r \in Work /\ r.pc = "register"
  BY <1>1, <1>2, IdleTyped DEF Work
<1>4. run' = [run EXCEPT ![w] = r]
  BY <1>2 DEF Request
<1>5. WorkOf(r)
  BY <1>3 DEF WorkOf
<1>6. UNCHANGED <<family, checkpoint, page, unit, docs, artifact, passed>>
  BY DEF Request
<1>7. QED
  BY <1>3, <1>4, <1>5, <1>6, QuietStep

\* The worker forgets what it did.
LEMMA IdleStep ==
    ASSUME IInv, NEW w \in Workers, run' = [run EXCEPT ![w] = Idle],
           UNCHANGED <<family, checkpoint, page, unit, docs, artifact, passed>>
    PROVE  IInv'
<1>1. WorkOf(Idle)
  BY DEF WorkOf, Idle
<1>2. QED
  BY <1>1, IdleTyped, QuietStep

\* What AfterPage leaves in memory.
LEMMA AfterPageWork ==
    ASSUME IInv, NEW w \in Workers, AfterPage(w)
    PROVE  \E r \in Work : run' = [run EXCEPT ![w] = r] /\ WorkOf(r)
<1>1. run[w] \in Work
  BY DEF IInv
<1>2. PICK c : c = ClassifyPage(run[w].outcome, run[w].units # <<>>)
  OBVIOUS
<1>3. c \in Classes
  <2>1. run[w].outcome \in FiscalOutcomes /\ (run[w].units # <<>>) \in BOOLEAN
    BY <1>1 DEF Work
  <2>2. QED
    BY <1>2, <2>1, PageClass
<1>4. PICK r : r = [run[w] EXCEPT
        !.pc = IF run[w].outcome \in FailureOutcomes THEN "finish" ELSE "units", !.class = c]
  OBVIOUS
<1>5. r \in Work /\ r.pc \in {"finish", "units"}
  BY <1>1, <1>3, <1>4 DEF Work
<1>6. run' = [run EXCEPT ![w] = r]
  BY <1>2, <1>4 DEF AfterPage
<1>7. WorkOf(r)
  BY <1>5 DEF WorkOf
<1>8. QED
  BY <1>5, <1>6, <1>7

\* An answer has at least as many units as it names identities.
LEMMA AnswerCounted ==
    ASSUME NEW us \in Seq(Units)
    PROVE  /\ Range(us) \in SUBSET Units
           /\ IsFiniteSet(Named(Range(us))) /\ Cardinality(Named(Range(us))) <= Len(us)
<1>1. Len(us) \in Nat /\ DOMAIN us = 1..Len(us) /\ \A k \in 1..Len(us) : us[k] \in Units
  OBVIOUS
<1>2. Range(us) = {us[k] : k \in 1..Len(us)}
  BY <1>1 DEF Range
<1>3. Named(Range(us)) = {us[k].id : k \in 1..Len(us)}
  BY <1>2 DEF Named
<1> DEFINE f == [k \in 1..Len(us) |-> us[k].id]
<1>4. f \in Surjection(1..Len(us), Named(Range(us)))
  BY <1>3 DEF Surjection
<1>5. IsFiniteSet(1..Len(us)) /\ Cardinality(1..Len(us)) = Len(us)
  <2>1. PICK n \in Nat : n = Len(us)
    BY <1>1
  <2>2. n \in Int /\ 1 \in Int
    BY <2>1
  <2>3. IsFiniteSet(1..n) /\ Cardinality(1..n) = IF 1 > n THEN 0 ELSE n - 1 + 1
    BY <2>2, FS_Interval
  <2>4. QED
    BY <2>1, <2>3
<1> HIDE DEF f
<1>6. IsFiniteSet(Named(Range(us))) /\ Cardinality(Named(Range(us))) <= Cardinality(1..Len(us))
  BY <1>4, <1>5, FS_Surjection
<1>7. QED
  BY <1>1, <1>2, <1>5, <1>6

\* The page an answer creates.
LEMMA NewPageTyped ==
    ASSUME NEW q \in Work, NEW c \in Classes, NEW s \in PageStates, NEW o \in Outcomes,
           NEW y \in Recoveries,
           NEW pg, pg = [state |-> s, outcome |-> o, recovery |-> y, adapter |-> q.outcome,
                         next |-> q.next, count |-> Len(q.units), final |-> FALSE,
                         answer |-> Range(q.units)]
    PROVE  pg \in Pages /\ CountOK(pg)
<1>1. q.outcome \in FiscalOutcomes /\ q.next \in Positions /\ q.units \in Seq(Units)
  BY DEF Work
<1>2. Len(q.units) \in Nat
  BY <1>1
<1>3. /\ Range(q.units) \in SUBSET Units /\ IsFiniteSet(Named(Range(q.units)))
      /\ Cardinality(Named(Range(q.units))) <= Len(q.units)
  BY <1>1, AnswerCounted
<1>4. pg \in Pages
  BY <1>1, <1>2, <1>3 DEF Pages
<1>5. pg.answer = Range(q.units) /\ pg.count = Len(q.units)
  OBVIOUS
<1>6. QED
  BY <1>3, <1>4, <1>5 DEF CountOK

\* _register_page: the page is resumed, refused or created.
LEMMA RegisterPageKeeps ==
    ASSUME IInv, NEW w \in Workers, RegisterPage(w)
    PROVE  IInv'
<1>1. run[w] \in Work
  BY DEF IInv
<1>2. PICK p \in Positions : p = run[w].pos
  BY <1>1 DEF Work
<1>3. page \in [Positions -> Pages]
  BY Types DEF IInv, TablesTyped
<1>4. UNCHANGED <<family, checkpoint, unit, docs, artifact, passed>>
  BY DEF RegisterPage
<1>5. PICK c : c = ClassifyPage(run[w].outcome, run[w].units # <<>>)
  OBVIOUS
<1>6. c \in Classes
  <2>1. run[w].outcome \in FiscalOutcomes /\ (run[w].units # <<>>) \in BOOLEAN
    BY <1>1 DEF Work
  <2>2. QED
    BY <1>5, <2>1, PageClass
<1>7. PICK new : new = [state |-> "pending", outcome |-> c.outcome, recovery |-> c.recovery,
                        adapter |-> run[w].outcome, next |-> run[w].next,
                        count |-> Len(run[w].units), final |-> FALSE,
                        answer |-> Range(run[w].units)]
  OBVIOUS
<1>8. new \in Pages /\ CountOK(new)
  <2>1. c.outcome \in Outcomes /\ c.recovery \in Recoveries /\ "pending" \in PageStates
    BY <1>6 DEF Classes, PageStates
  <2>2. QED
    BY <1>1, <1>6, <1>7, <2>1, NewPageTyped
<1>9. CASE page[p] # NoPage
  <2>1. PICK r : r = [run[w] EXCEPT
                         !.pc = IF CanResume(w, page[p]) THEN "prepare" ELSE "done",
                         !.report = JobOutcome(page[p].outcome)]
    OBVIOUS
  <2>2. r \in Work /\ r.pc \in {"prepare", "done"}
    BY <1>1, <2>1, ReportTyped DEF Work
  <2>3. run' = [run EXCEPT ![w] = r] /\ UNCHANGED page
    BY <1>2, <1>9, <2>1 DEF RegisterPage
  <2>4. WorkOf(r)
    BY <2>2 DEF WorkOf
  <2>5. QED
    BY <1>4, <2>2, <2>3, <2>4, QuietStep
<1>10. CASE page[p] = NoPage /\ checkpoint # p
  <2>1. PICK r : r = [run[w] EXCEPT !.pc = "done", !.report = "temporary"]
    OBVIOUS
  <2>2. r \in Work /\ r.pc = "done"
    BY <1>1, <2>1 DEF Work, Reports
  <2>3. PICK pg : pg = [new EXCEPT !.state = "failed", !.outcome = "temporary_failure",
                                   !.recovery = "reconcile"]
    OBVIOUS
  <2>4. pg \in Pages /\ CountOK(pg)
    <3>1. pg \in Pages /\ pg.answer = new.answer /\ pg.count = new.count
      BY <1>8, <2>3 DEF Pages, PageStates, Outcomes, Recoveries
    <3>2. QED
      BY <1>8, <3>1 DEF CountOK
  <2>5. run' = [run EXCEPT ![w] = r] /\ page' = [page EXCEPT ![p] = pg]
    BY <1>2, <1>5, <1>7, <1>10, <2>1, <2>3 DEF RegisterPage
  <2>6. WorkOf(r)
    BY <2>2 DEF WorkOf
  <2>7. QED
    BY <1>4, <2>2, <2>4, <2>5, <2>6, PageStep
<1>11. CASE page[p] = NoPage /\ checkpoint = p
  <2>1. AfterPage(w) /\ page' = [page EXCEPT ![p] = new]
    BY <1>2, <1>5, <1>7, <1>11 DEF RegisterPage
  <2>2. PICK r \in Work : run' = [run EXCEPT ![w] = r] /\ WorkOf(r)
    BY <2>1, AfterPageWork
  <2>3. QED
    BY <1>4, <1>8, <2>1, <2>2, PageStep
<1>12. QED
  BY <1>9, <1>10, <1>11

\* _prepare_page_retry: the page is overwritten with the new answer.
LEMMA PrepareRetryKeeps ==
    ASSUME IInv, NEW w \in Workers, PrepareRetry(w)
    PROVE  IInv'
<1>1. run[w] \in Work
  BY DEF IInv
<1>2. PICK p \in Positions : p = run[w].pos
  BY <1>1 DEF Work
<1>3. PICK c : c = ClassifyPage(run[w].outcome, run[w].units # <<>>)
  OBVIOUS
<1>4. c \in Classes
  <2>1. run[w].outcome \in FiscalOutcomes /\ (run[w].units # <<>>) \in BOOLEAN
    BY <1>1 DEF Work
  <2>2. QED
    BY <1>3, <2>1, PageClass
<1>5. PICK new : new = [state |-> "pending", outcome |-> c.outcome, recovery |-> c.recovery,
                        adapter |-> run[w].outcome, next |-> run[w].next,
                        count |-> Len(run[w].units), final |-> FALSE,
                        answer |-> Range(run[w].units)]
  OBVIOUS
<1>6. new \in Pages /\ CountOK(new)
  <2>1. c.outcome \in Outcomes /\ c.recovery \in Recoveries /\ "pending" \in PageStates
    BY <1>4 DEF Classes, PageStates
  <2>2. QED
    BY <1>1, <1>4, <1>5, <2>1, NewPageTyped
<1>7. AfterPage(w) /\ page' = [page EXCEPT ![p] = new]
  BY <1>2, <1>3, <1>5 DEF PrepareRetry
<1>8. PICK r \in Work : run' = [run EXCEPT ![w] = r] /\ WorkOf(r)
  BY <1>7, AfterPageWork
<1>9. UNCHANGED <<family, checkpoint, unit, docs, artifact, passed>>
  BY DEF PrepareRetry
<1>10. QED
  BY <1>6, <1>7, <1>8, <1>9, PageStep

\* A worker that has units left has a unit of the source at hand.
LEMMA CurTyped ==
    ASSUME IInv, NEW w \in Workers, run[w].units # <<>>
    PROVE  Cur(w) \in Units /\ Cur(w).id \in Ids /\ Cur(w).hash \in Hashes
<1>1. run[w].units \in Seq(Units)
  BY DEF IInv, Work
<1>2. Cur(w) \in Units
  BY <1>1 DEF Cur
<1>3. QED
  BY <1>2 DEF Units

\* What NextUnit leaves in memory.
LEMMA NextUnitWork ==
    ASSUME IInv, NEW w \in Workers, run[w].units # <<>>, NEW t \in UnitStates, NextUnit(w, t)
    PROVE  \E r \in Work : run' = [run EXCEPT ![w] = r] /\ WorkOf(r)
<1>1. run[w] \in Work
  BY DEF IInv
<1>2. run[w].units \in Seq(Units) /\ run[w].units # <<>> /\ run[w].seen \in SUBSET UnitStates
  BY <1>1 DEF Work
<1>3. PICK rest \in Seq(Units) : rest = Tail(run[w].units)
  BY <1>2, HeadTailProperties
<1>4. PICK s \in SUBSET UnitStates : s = run[w].seen \cup {t}
  BY <1>2
<1>5. PICK c \in {"settle", "units"} :
           c = IF run[w].pc = "treat" /\ run[w].repair THEN "settle" ELSE "units"
  OBVIOUS
<1>6. PICK r : r = [run[w] EXCEPT !.pc = c, !.units = rest, !.seen = s]
  OBVIOUS
<1>7. r \in Work /\ r.pc = c
  BY <1>1, <1>6 DEF Work
<1>8. run' = [run EXCEPT ![w] = r]
  BY <1>3, <1>4, <1>5, <1>6 DEF NextUnit
<1>9. WorkOf(r)
  BY <1>7 DEF WorkOf
<1>10. QED
  BY <1>7, <1>8, <1>9

\* _register_unit: a row that stays terminal keeps what it was told.
LEMMA RegisterUnitKeeps ==
    ASSUME IInv, NEW w \in Workers, RegisterUnit(w)
    PROVE  IInv'
<1>1. run[w] \in Work
  BY DEF IInv
<1>2. PICK p \in Positions : p = run[w].pos
  BY <1>1 DEF Work
<1>3. run[w].units # <<>>
  BY DEF RegisterUnit
<1>4. PICK c \in Units : c = Cur(w) /\ c.id \in Ids /\ c.hash \in Hashes
  BY <1>3, CurTyped
<1>5. unit \in [Positions -> [Ids -> UnitRows]]
  BY Types DEF IInv, TablesTyped
<1>6. PICK old \in UnitRows : old = unit[p][c.id]
  BY <1>4, <1>5
<1>7. PICK row : row = IF old.state = "none"
               THEN [state |-> "pending", hash |-> c.hash, missing |-> FALSE]
               ELSE IF old.hash # c.hash
               THEN [old EXCEPT !.state = "pending", !.missing = FALSE]
               ELSE old
  OBVIOUS
<1>8. row \in UnitRows /\ (row = old \/ row.state = "pending")
  BY <1>4, <1>6, <1>7 DEF UnitRows, UnitStates
<1>9. row.state \in UnitStates
  BY <1>8 DEF UnitRows
<1>10. unit' = [unit EXCEPT ![p][c.id] = row]
  BY <1>2, <1>4, <1>6, <1>7 DEF RegisterUnit
<1>11. row.state \in TerminalUnits => Told(c.id, row.state)
  BY <1>4, <1>6, <1>8 DEF IInv, UnitsTold, TerminalUnits
<1>12. NextUnit(w, row.state) \/ Go(w, "archive")
  BY <1>2, <1>4, <1>6, <1>7 DEF RegisterUnit
<1>13. \E r \in Work : run' = [run EXCEPT ![w] = r] /\ WorkOf(r)
  <2>1. CASE NextUnit(w, row.state)
    BY <1>3, <1>9, <2>1, NextUnitWork
  <2>2. CASE Go(w, "archive")
    <3>1. PICK r : r = [run[w] EXCEPT !.pc = "archive"]
      OBVIOUS
    <3>2. r \in Work /\ r.pc = "archive" /\ r.units # <<>>
      BY <1>1, <1>3, <3>1 DEF Work
    <3>3. run' = [run EXCEPT ![w] = r]
      BY <2>2, <3>1 DEF Go
    <3>4. WorkOf(r)
      BY <3>2 DEF WorkOf
    <3>5. QED
      BY <3>2, <3>3, <3>4
  <2>3. QED
    BY <1>12, <2>1, <2>2
<1>14. UNCHANGED <<family, checkpoint, page, docs, artifact, passed>>
  BY DEF RegisterUnit
<1>15. QED
  BY <1>4, <1>8, <1>10, <1>11, <1>13, <1>14, UnitStep

\* _ensure_artifact: the bytes the document will need are there.
LEMMA EnsureArtifactKeeps ==
    ASSUME IInv, NEW w \in Workers, EnsureArtifact(w)
    PROVE  IInv'
<1>1. run[w] \in Work /\ run[w].units # <<>>
  BY DEF IInv, Working, WorkOf, EnsureArtifact
<1>2. PICK c \in Units : c = Cur(w) /\ c.id \in Ids /\ c.hash \in Hashes
  BY <1>1, CurTyped
<1>3. artifact' = artifact \cup {<<c.id, c.hash>>}
  BY <1>2 DEF EnsureArtifact
<1>4. UNCHANGED <<family, checkpoint, page, unit, docs, passed>>
  BY DEF EnsureArtifact
<1>5. Onward
  BY <1>3, <1>4 DEF Onward, Exists
<1>6. TablesTyped'
  <2>1. TablesTyped
    BY Types DEF IInv
  <2>2. QED
    BY <1>2, <1>3, <1>4, <2>1 DEF TablesTyped, DocsTypeOK
<1>7. UnitsTold'
  <2> SUFFICES ASSUME NEW p \in Positions, NEW i \in Ids, NEW t \in TerminalUnits,
                      t = unit'[p][i].state
               PROVE  Told(i, t)'
    BY DEF UnitsTold, Told
  <2>1. Told(i, t)
    BY <1>4 DEF IInv, UnitsTold
  <2>2. QED
    BY <1>5, <2>1, ToldStays
<1>8. Documented'
  BY <1>3, <1>4 DEF IInv, Documented, DocOK
<1>9. Counted' /\ NothingSkipped'
  BY <1>3, <1>4 DEF IInv, Counted, NothingSkipped, Exists
<1>10. PICK r : r = [run[w] EXCEPT !.pc = "persist"]
  OBVIOUS
<1>11. r \in Work /\ r.pc = "persist" /\ r.units = run[w].units
  BY <1>1, <1>10 DEF Work
<1>12. run' = [run EXCEPT ![w] = r]
  BY <1>10 DEF EnsureArtifact, Go
<1>13. Head(r.units) = c
  BY <1>2, <1>11 DEF Cur
<1>14. WorkOf(r)'
  BY <1>1, <1>3, <1>11, <1>13 DEF WorkOf
<1>15. QED
  BY <1>5, <1>6, <1>7, <1>8, <1>9, <1>11, <1>12, <1>14, WorkerStep

\* What persist_document may answer.
LEMMA StatusTyped ==
    ASSUME NEW i \in Ids, NEW h \in Hashes
    PROVE  /\ PersistStatus(i, h) \in {"persisted", "replay", "conflict", "invalid",
                                       "parent_missing"}
           /\ PersistStatus(i, h) = "invalid" => i \in Invalid
           /\ PersistStatus(i, h) = "parent_missing" => i \in Events
           /\ PersistStatus(i, h) = "persisted" => ~Exists(i)
           /\ PersistStatus(i, h) = "replay" => Exists(i)
           /\ PersistStatus(i, h) = "conflict" => Exists(i) /\ h \notin docs[i].evidence
BY DEF PersistStatus, EventStatus, ContentStatus

\* persist_document keeps every content, and says so.
LEMMA PersistKeepsDocs ==
    ASSUME IInv, NEW i \in Ids, NEW h \in Hashes, <<i, h>> \in artifact,
           PersistDocument(i, h), UNCHANGED artifact, NEW s, s = PersistStatus(i, h)
    PROVE  DocsTypeOK' /\ Documented' /\ Onward /\ Told(i, s)'
<1>1. docs \in [Ids -> [state : {"none", "persisted", "conflict"}, evidence : SUBSET Hashes]]
  BY DEF IInv, TypeOK, DocsTypeOK
<1>2. DocOK(i)
  BY DEF IInv, Documented
<1>3. PICK old \in [state : {"none", "persisted", "conflict"}, evidence : SUBSET Hashes] :
           old = docs[i]
  BY <1>1
<1>4. PICK d : d = CASE s = "persisted" -> [state |-> "persisted", evidence |-> {h}]
                     [] s = "conflict" -> [state |-> "conflict", evidence |-> old.evidence \cup {h}]
                     [] OTHER -> old
  OBVIOUS
<1>5. docs' = [docs EXCEPT ![i] = d]
  BY <1>3, <1>4 DEF PersistDocument
<1>6. /\ s = "persisted" => d = [state |-> "persisted", evidence |-> {h}]
      /\ s = "conflict" => d = [state |-> "conflict", evidence |-> old.evidence \cup {h}]
      /\ s \notin {"persisted", "conflict"} => d = old
  BY <1>4
<1>7. d \in [state : {"none", "persisted", "conflict"}, evidence : SUBSET Hashes]
  BY <1>3, <1>6
<1>8. docs'[i] = d /\ \A j \in Ids \ {i} : docs'[j] = docs[j]
  BY <1>1, <1>5
<1>9. DocsTypeOK'
  BY <1>1, <1>5, <1>7 DEF DocsTypeOK
<1>10. /\ s = "persisted" => old.state = "none"
       /\ s = "replay" => old.state # "none"
       /\ s = "conflict" => old.state # "none" /\ h \notin old.evidence
  BY <1>3, StatusTyped DEF Exists
<1>11. Onward
  BY <1>3, <1>6, <1>8, <1>10 DEF Onward, Exists
<1>12. /\ IsFiniteSet(d.evidence)
       /\ d.state = "none" => d.evidence = {}
       /\ d.state = "persisted" => \E g \in Hashes : d.evidence = {g}
       /\ d.state = "conflict" => \E f, g \in d.evidence : f # g
       /\ {i} \X d.evidence \subseteq artifact
  <2>1. CASE s = "persisted"
    <3>1. IsFiniteSet({h})
      BY FS_Singleton
    <3>2. d.evidence = {h} /\ d.state = "persisted"
      BY <1>6, <2>1
    <3>3. QED
      BY <3>1, <3>2
  <2>2. CASE s = "conflict"
    <3>1. d.evidence = old.evidence \cup {h} /\ d.state = "conflict"
      BY <1>6, <2>2
    <3>2. IsFiniteSet(old.evidence)
      BY <1>2, <1>3 DEF DocOK
    <3>3. IsFiniteSet(d.evidence)
      BY <3>1, <3>2, FS_AddElement
    <3>4. \E g \in old.evidence : TRUE
      BY <1>2, <1>3, <1>10, <2>2 DEF DocOK
    <3>5. \E f, g \in d.evidence : f # g
      BY <1>10, <2>2, <3>1, <3>4
    <3>6. {i} \X d.evidence \subseteq artifact
      BY <1>2, <1>3, <3>1 DEF DocOK
    <3>7. QED
      BY <3>1, <3>3, <3>5, <3>6
  <2>3. CASE s \notin {"persisted", "conflict"}
    <3>1. d = docs[i]
      BY <1>3, <1>6, <2>3
    <3>2. QED
      BY <1>2, <3>1 DEF DocOK
  <2>4. QED
    BY <2>1, <2>2, <2>3
<1>13. DocOK(i)'
  BY <1>8, <1>12 DEF DocOK
<1>14. ASSUME NEW j \in Ids \ {i} PROVE DocOK(j)'
  BY <1>8 DEF IInv, Documented, DocOK
<1>15. Documented'
  BY <1>13, <1>14 DEF Documented
<1>16. Told(i, s)'
  <2>1. s = "conflict" => docs'[i].state = "conflict"
    BY <1>6, <1>8
  <2>2. Exists(i)' \/ i \in Invalid \/ i \in Events
    <3>1. s \in {"persisted", "replay", "conflict", "invalid", "parent_missing"}
      BY StatusTyped
    <3>2. s = "invalid" => i \in Invalid
      BY StatusTyped
    <3>3. s = "parent_missing" => i \in Events
      BY StatusTyped
    <3>4. s \in {"persisted", "replay", "conflict"} => d.state # "none"
      BY <1>6, <1>10
    <3>5. QED
      BY <1>8, <3>1, <3>2, <3>3, <3>4 DEF Exists
  <2>3. QED
    BY <2>1, <2>2 DEF Told
<1>17. QED
  BY <1>9, <1>11, <1>15, <1>16

\* persist_document: the treatment holds when the worker is about to write it.
LEMMA PersistUnitKeeps ==
    ASSUME IInv, NEW w \in Workers, PersistUnit(w)
    PROVE  IInv'
<1>1. run[w] \in Work /\ run[w].units # <<>> /\ run[w].pc = "persist"
  BY DEF IInv, Working, WorkOf, PersistUnit
<1>2. PICK c \in Units : c = Cur(w) /\ c.id \in Ids /\ c.hash \in Hashes
  BY <1>1, CurTyped
<1>3. <<c.id, c.hash>> \in artifact
  BY <1>1, <1>2 DEF IInv, Working, WorkOf, Cur
<1>4. PICK i \in Ids, h \in Hashes : i = c.id /\ h = c.hash
  BY <1>2
<1>5. PICK s : s = PersistStatus(i, h)
  OBVIOUS
<1>6. PersistDocument(i, h) /\ UNCHANGED artifact
  BY <1>2, <1>4 DEF PersistUnit
<1>7. DocsTypeOK' /\ Documented' /\ Onward /\ Told(i, s)'
  BY <1>3, <1>4, <1>5, <1>6, PersistKeepsDocs
<1>8. UNCHANGED <<family, checkpoint, page, unit, artifact, passed>>
  BY DEF PersistUnit
<1>9. TablesTyped'
  <2>1. TablesTyped
    BY Types DEF IInv
  <2>2. QED
    BY <1>7, <1>8, <2>1 DEF TablesTyped
<1>10. UnitsTold'
  <2> SUFFICES ASSUME NEW p \in Positions, NEW j \in Ids, NEW t \in TerminalUnits,
                      t = unit'[p][j].state
               PROVE  Told(j, t)'
    BY DEF UnitsTold, Told
  <2>1. Told(j, t)
    BY <1>8 DEF IInv, UnitsTold
  <2>2. QED
    BY <1>7, <2>1, ToldStays
<1>11. Counted' /\ NothingSkipped'
  <2>1. \A x \in passed : x.rows \subseteq Ids
    BY DEF IInv, Passed
  <2>2. QED
    BY <1>7, <1>8, <2>1 DEF IInv, Counted, NothingSkipped, Onward
<1>12. PICK r : r = [run[w] EXCEPT !.pc = "treat", !.treat = s]
  OBVIOUS
<1>13. r \in Work /\ r.pc = "treat" /\ r.units = run[w].units /\ r.treat = s
  BY <1>1, <1>5, <1>12, StatusTyped DEF Work
<1>14. run' = [run EXCEPT ![w] = r]
  BY <1>2, <1>4, <1>5, <1>12 DEF PersistUnit
<1>15. Head(r.units).id = i
  BY <1>2, <1>4, <1>13 DEF Cur
<1>16. WorkOf(r)'
  <2>1. Told(Head(r.units).id, r.treat)'
    BY <1>7, <1>13, <1>15
  <2>2. QED
    BY <1>1, <1>13, <2>1 DEF WorkOf
<1>17. QED
  BY <1>7, <1>9, <1>10, <1>11, <1>13, <1>14, <1>16, WorkerStep

\* A failed unit promises nothing.
LEMMA UnitFailsKeeps ==
    ASSUME IInv, NEW w \in Workers, UnitFails(w)
    PROVE  IInv'
<1>1. run[w] \in Work /\ run[w].units # <<>>
  BY DEF IInv, Working, WorkOf, UnitFails
<1>2. PICK r : r = [run[w] EXCEPT !.pc = "treat", !.treat = "failed"]
  OBVIOUS
<1>3. r \in Work /\ r.pc = "treat" /\ r.treat = "failed" /\ r.units = run[w].units
  BY <1>1, <1>2 DEF Work
<1>4. run' = [run EXCEPT ![w] = r]
  BY <1>2 DEF UnitFails
<1>5. WorkOf(r)
  BY <1>1, <1>3 DEF WorkOf
<1>6. UNCHANGED <<family, checkpoint, page, unit, docs, artifact, passed>>
  BY DEF UnitFails
<1>7. QED
  BY <1>3, <1>4, <1>5, <1>6, QuietStep

\* _finish_unit: the treatment holds, though the row may have changed meanwhile.
LEMMA FinishUnitKeeps ==
    ASSUME IInv, NEW w \in Workers, FinishUnit(w)
    PROVE  IInv'
<1>1. run[w] \in Work /\ run[w].units # <<>> /\ run[w].pc = "treat"
  BY DEF IInv, Working, WorkOf, FinishUnit
<1>2. PICK p \in Positions : p = run[w].pos
  BY <1>1 DEF Work
<1>3. PICK i \in Ids : i = Cur(w).id
  BY <1>1, CurTyped
<1>4. PICK t : t = run[w].treat
  OBVIOUS
<1>5. PICK s : s = IF t \in {"invalid", "parent_missing"} THEN "quarantine" ELSE t
  OBVIOUS
<1>6. s \in UnitStates /\ (s = "conflict" => t = "conflict") /\ (t = "failed" => s = "failed")
  BY <1>1, <1>4, <1>5 DEF Work, UnitStates
<1>7. unit \in [Positions -> [Ids -> UnitRows]]
  BY Types DEF IInv, TablesTyped
<1>8. PICK old \in UnitRows : old = unit[p][i]
  BY <1>7
<1>9. PICK b \in BOOLEAN : b = (t = "parent_missing")
  OBVIOUS
<1>10. PICK row : row = [old EXCEPT !.state = s, !.missing = b]
  OBVIOUS
<1>11. row \in UnitRows /\ row.state = s
  BY <1>6, <1>8, <1>10 DEF UnitRows
<1>12. unit' = [unit EXCEPT ![p][i] = row]
  BY <1>2, <1>3, <1>4, <1>5, <1>8, <1>9, <1>10 DEF FinishUnit
<1>13. row.state \in TerminalUnits => Told(i, row.state)
  <2>1. t # "failed" => Told(i, t)
    BY <1>1, <1>3, <1>4 DEF IInv, Working, WorkOf, Cur
  <2>2. QED
    BY <1>6, <1>11, <2>1 DEF Told, TerminalUnits
<1>14. NextUnit(w, s)
  BY <1>4, <1>5 DEF FinishUnit
<1>15. PICK r \in Work : run' = [run EXCEPT ![w] = r] /\ WorkOf(r)
  BY <1>1, <1>6, <1>14, NextUnitWork
<1>16. UNCHANGED <<family, checkpoint, page, docs, artifact, passed>>
  BY DEF FinishUnit
<1>17. QED
  BY <1>11, <1>12, <1>13, <1>15, <1>16, UnitStep

\* The page is classified.
LEMMA UnitsDoneKeeps ==
    ASSUME IInv, NEW w \in Workers, UnitsDone(w)
    PROVE  IInv'
<1>1. run[w] \in Work
  BY DEF IInv
<1>2. PICK c : c = IF run[w].outcome = "partial" THEN Class("partial", "partial", "retry")
                   ELSE IF run[w].seen # {} THEN ClassifyUnits(run[w].seen)
                   ELSE ClassifyPage(run[w].outcome, FALSE)
  OBVIOUS
<1>3. c \in Classes
  <2>1. Class("partial", "partial", "retry") \in Classes
    BY DEF Class, Classes, PageStates, Outcomes, Recoveries
  <2>2. ClassifyUnits(run[w].seen) \in Classes
    BY UnitsClass
  <2>3. run[w].outcome \in FiscalOutcomes
    BY <1>1 DEF Work
  <2>4. ClassifyPage(run[w].outcome, FALSE) \in Classes
    BY <2>3, PageClass
  <2>5. QED
    BY <1>2, <2>1, <2>2, <2>4
<1>4. PICK r : r = [run[w] EXCEPT !.pc = "finish", !.class = c]
  OBVIOUS
<1>5. r \in Work /\ r.pc = "finish"
  BY <1>1, <1>3, <1>4 DEF Work
<1>6. run' = [run EXCEPT ![w] = r]
  BY <1>2, <1>4 DEF UnitsDone
<1>7. WorkOf(r)
  BY <1>5 DEF WorkOf
<1>8. UNCHANGED <<family, checkpoint, page, unit, docs, artifact, passed>>
  BY DEF UnitsDone
<1>9. QED
  BY <1>5, <1>6, <1>7, <1>8, QuietStep

\* The checkpoint moves to a position of the source, or is refused.
LEMMA AdvanceTyped ==
    ASSUME NEW p \in Positions, NEW pg \in Pages
    PROVE  /\ Advance(p, pg) \in Positions \cup {-1}
           /\ Advance(p, pg) \notin {p, -1} => Advance(p, pg) = pg.next
<1>1. pg.next \in Positions /\ 0 \in Positions
  BY IngestionAssumption DEF Pages, Positions
<1>2. QED
  BY <1>1 DEF Advance

\* What _finish_page writes, and when it moves the checkpoint.
LEMMA FinishResultOK ==
    ASSUME IInv, NEW p \in Positions, NEW c \in Classes,
           NEW r, r = FinishResult(p, c)
    PROVE  /\ r.page \in Pages /\ r.checkpoint \in Positions
           /\ r.page.answer = page[p].answer /\ r.page.count = page[p].count
           /\ r.checkpoint # checkpoint => /\ checkpoint = p
                                           /\ AllTerminal(p)
                                           /\ page[p].count = Cardinality(Rows(p))
                                           /\ r.page.final
                                           /\ r.page.next = r.checkpoint
<1>1. PICK pg \in Pages : pg = page[p]
  BY Types DEF IInv, TablesTyped
<1>2. checkpoint \in Positions
  BY DEF IInv, TypeOK
<1> DEFINE Kept(x) == x \in Pages /\ x.answer = pg.answer /\ x.count = pg.count
<1>3. PICK ref : ref = [pg EXCEPT !.state = "failed", !.outcome = "temporary_failure",
                                  !.recovery = "reconcile"]
  OBVIOUS
<1>4. PICK fin : fin = [pg EXCEPT !.state = c.state, !.outcome = c.outcome,
                                  !.recovery = c.recovery, !.final = TRUE]
  OBVIOUS
<1>5. Kept(fin) /\ fin.final /\ fin.next = pg.next
  BY <1>4 DEF Pages, Classes
<1>6. PICK late : late = [fin EXCEPT !.final = pg.final]
  OBVIOUS
<1>7. PICK part : part = [pg EXCEPT !.state = "partial", !.outcome = "partial", !.recovery = "retry"]
  OBVIOUS
<1>8. PICK fail : fail = [pg EXCEPT !.state = "failed"]
  OBVIOUS
<1>9. PICK a : a = Advance(p, pg)
  OBVIOUS
<1>10. a \in Positions \cup {-1} /\ (a \notin {p, -1} => a = pg.next)
  BY <1>9, AdvanceTyped
<1>11. Kept(ref) /\ Kept(part) /\ Kept(fail)
  BY <1>3, <1>7, <1>8 DEF Pages, PageStates, Outcomes, Recoveries
<1>12. Kept(late)
  BY <1>5, <1>6 DEF Pages
<1>13. \/ r.page \in {pg, ref, late, part, fail} /\ r.checkpoint = checkpoint
       \/ /\ r = [page |-> fin, checkpoint |-> a]
          /\ a # -1 /\ checkpoint = p /\ AllTerminal(p) /\ pg.count = Cardinality(Rows(p))
  BY <1>1, <1>3, <1>4, <1>6, <1>7, <1>8, <1>9 DEF FinishResult
<1>14. QED
  BY <1>1, <1>2, <1>5, <1>10, <1>11, <1>12, <1>13

\* _finish_page: the checkpoint leaves terminal units only.
LEMMA FinishPageKeeps ==
    ASSUME IInv, NEW w \in Workers, FinishPage(w)
    PROVE  /\ IInv'
           /\ checkpoint' # checkpoint =>
                /\ page'[checkpoint].final
                /\ page'[checkpoint].next = checkpoint'
                /\ AllTerminal(checkpoint)
<1>1. run[w] \in Work
  BY DEF IInv
<1>2. PICK p \in Positions, c \in Classes : p = run[w].pos /\ c = run[w].class
  BY <1>1 DEF Work
<1>3. PICK res : res = FinishResult(p, c)
  OBVIOUS
<1>4. /\ res.page \in Pages /\ res.checkpoint \in Positions
      /\ res.page.answer = page[p].answer /\ res.page.count = page[p].count
      /\ res.checkpoint # checkpoint => /\ checkpoint = p
                                        /\ AllTerminal(p)
                                        /\ page[p].count = Cardinality(Rows(p))
                                        /\ res.page.final
                                        /\ res.page.next = res.checkpoint
  BY <1>3, FinishResultOK
<1>5. /\ page' = [page EXCEPT ![p] = res.page]
      /\ checkpoint' = res.checkpoint
      /\ passed' = IF checkpoint' = checkpoint THEN passed
                    ELSE passed \cup {[answer |-> page[p].answer, rows |-> Rows(p)]}
  BY <1>2, <1>3 DEF FinishPage
<1>6. UNCHANGED <<family, unit, docs, artifact>>
  BY DEF FinishPage
<1>7. TablesTyped
  BY Types DEF IInv
<1>8. TablesTyped'
  <2>1. [answer |-> page[p].answer, rows |-> Rows(p)] \in Passed
    BY <1>7 DEF TablesTyped, Pages, Passed, Rows
  <2>2. passed' \subseteq Passed
    BY <1>5, <1>7, <2>1 DEF TablesTyped
  <2>3. page' \in [Positions -> Pages]
    BY <1>4, <1>5, <1>7 DEF TablesTyped
  <2>4. QED
    BY <1>4, <1>5, <1>6, <1>7, <2>2, <2>3 DEF TablesTyped, DocsTypeOK
<1>9. Onward
  BY <1>6 DEF Onward, Exists
<1>10. UnitsTold' /\ Documented'
  BY <1>6 DEF IInv, UnitsTold, Told, Exists, Documented, DocOK
<1>11. NothingSkipped'
  <2> SUFFICES ASSUME NEW s \in passed'
               PROVE  /\ \A i \in s.rows : /\ \E h \in Hashes : <<i, h>> \in artifact
                                           /\ Exists(i) \/ i \in Invalid \/ i \in Events
                      /\ s.rows \subseteq Named(s.answer) => Named(s.answer) \subseteq s.rows
    BY <1>6 DEF NothingSkipped, Exists
  <2>1. CASE s \in passed
    BY <2>1 DEF IInv, NothingSkipped
  <2>2. CASE s \notin passed
    <3>1. AllTerminal(p) /\ page[p].count = Cardinality(Rows(p))
      BY <1>4, <1>5, <2>2
    <3>2. s.rows = Rows(p) /\ s.answer = page[p].answer
      BY <1>5, <2>2
    <3>3. ASSUME NEW i \in Rows(p)
          PROVE  /\ \E h \in Hashes : <<i, h>> \in artifact
                 /\ Exists(i) \/ i \in Invalid \/ i \in Events
      <4>1. i \in Ids /\ unit[p][i].state \in TerminalUnits
        BY <3>1 DEF AllTerminal, Rows
      <4>2. Told(i, unit[p][i].state)
        BY <4>1 DEF IInv, UnitsTold
      <4>3. QED
        BY <4>2 DEF Told
    <3>4. ASSUME Rows(p) \subseteq Named(page[p].answer)
          PROVE  Rows(p) = Named(page[p].answer)
      <4>1. /\ IsFiniteSet(Named(page[p].answer))
            /\ Cardinality(Named(page[p].answer)) <= Cardinality(Rows(p))
        BY <3>1 DEF IInv, Counted, CountOK
      <4>2. IsFiniteSet(Rows(p)) /\ Cardinality(Rows(p)) <= Cardinality(Named(page[p].answer))
        BY <3>4, <4>1, FS_Subset
      <4>3. Cardinality(Named(page[p].answer)) \in Nat /\ Cardinality(Rows(p)) \in Nat
        BY <4>1, <4>2, FS_CardinalityType
      <4>4. Cardinality(Named(page[p].answer)) = Cardinality(Rows(p))
        BY <4>1, <4>2, <4>3
      <4>5. QED
        BY <3>4, <4>1, <4>4, FS_Subset
    <3>5. QED
      BY <3>2, <3>3, <3>4
  <2>3. QED
    BY <2>1, <2>2
<1>12. PICK r : r = [run[w] EXCEPT !.pc = "done", !.report = JobOutcome(res.page.outcome)]
  OBVIOUS
<1>13. r \in Work /\ r.pc = "done"
  BY <1>1, <1>12, ReportTyped DEF Work
<1>14. run' = [run EXCEPT ![w] = r]
  BY <1>2, <1>3, <1>12 DEF FinishPage
<1>15. WorkOf(r)'
  BY <1>13 DEF WorkOf
<1>16. IInv'
  <2>1. CountOK(page[p])
    BY DEF IInv, Counted
  <2>2. CountOK(res.page)
    BY <1>4, <2>1 DEF CountOK
  <2>3. Counted'
    BY <1>5, <1>7, <2>2, CountWritten
  <2>4. QED
    BY <1>8, <1>9, <1>10, <1>11, <1>13, <1>14, <1>15, <2>3, WorkerStep
<1>17. checkpoint' # checkpoint =>
                /\ page'[checkpoint].final
                /\ page'[checkpoint].next = checkpoint'
                /\ AllTerminal(checkpoint)
  <2>1. page'[p] = res.page
    BY <1>5, <1>7 DEF TablesTyped
  <2>2. QED
    BY <1>4, <1>5, <2>1
<1>18. QED
  BY <1>16, <1>17

\* reconcile begins again with the bytes of the unit.
LEMMA ReconcileUnitKeeps ==
    ASSUME IInv, NEW w \in Workers, NEW p \in Positions, NEW i \in Ids, ReconcileUnit(w, p, i)
    PROVE  IInv'
<1>1. PICK h \in Hashes : h = unit[p][i].hash
  BY Types DEF IInv, TablesTyped, UnitRows
<1>2. PICK us \in Seq(Units) : us = <<[id |-> i, hash |-> h]>>
  <2>1. PICK c \in Units : c = [id |-> i, hash |-> h]
    BY DEF Units
  <2>2. <<c>> \in Seq(Units)
    OBVIOUS
  <2>3. QED
    BY <2>1, <2>2
<1>3. us # <<>>
  BY <1>2
<1>4. PICK r : r = [Idle EXCEPT !.pc = "archive", !.pos = p, !.repair = TRUE, !.units = us]
  OBVIOUS
<1>5. r \in Work /\ r.pc = "archive" /\ r.units = us
  BY <1>4, IdleTyped DEF Work
<1>6. run' = [run EXCEPT ![w] = r]
  BY <1>1, <1>2, <1>4 DEF ReconcileUnit
<1>7. WorkOf(r)
  BY <1>3, <1>5 DEF WorkOf
<1>8. UNCHANGED <<family, checkpoint, page, unit, docs, artifact, passed>>
  BY DEF ReconcileUnit
<1>9. QED
  BY <1>5, <1>6, <1>7, <1>8, QuietStep

\* reconcile finishes a page, or leaves it.
LEMMA SettleKeeps ==
    ASSUME IInv, NEW w \in Workers, NEW p \in Positions, Settle(w, p)
    PROVE  IInv'
<1>1. run[w] \in Work
  BY DEF IInv
<1>2. PICK seen : seen = {unit[p][i].state : i \in Rows(p)}
  OBVIOUS
<1>3. PICK c : c = [ClassifyUnits(seen) EXCEPT
                       !.state = IF page[p].count = 0 THEN "empty" ELSE "complete"]
  OBVIOUS
<1>4. c \in Classes
  <2>1. ClassifyUnits(seen) \in Classes
    BY UnitsClass
  <2>2. QED
    BY <1>3, <2>1 DEF Classes, PageStates
<1>5. UNCHANGED <<family, checkpoint, page, unit, docs, artifact, passed>>
  BY DEF Settle
<1>6. PICK r : r = [run[w] EXCEPT !.pc = "finish", !.class = c]
  OBVIOUS
<1>7. r \in Work /\ r.pc = "finish"
  BY <1>1, <1>4, <1>6 DEF Work
<1>8. PICK q : q = [Idle EXCEPT !.pc = "finish", !.pos = p, !.class = c, !.repair = TRUE]
  OBVIOUS
<1>9. q \in Work /\ q.pc = "finish"
  BY <1>4, <1>8, IdleTyped DEF Work
<1>10. \/ run' = [run EXCEPT ![w] = r]
       \/ run' = [run EXCEPT ![w] = Idle]
       \/ run' = [run EXCEPT ![w] = q]
  BY <1>2, <1>3, <1>6, <1>8 DEF Settle
<1>11. WorkOf(r) /\ WorkOf(q)
  BY <1>7, <1>9 DEF WorkOf
<1>12. CASE run' = [run EXCEPT ![w] = r]
  BY <1>5, <1>7, <1>11, <1>12, QuietStep
<1>13. CASE run' = [run EXCEPT ![w] = Idle]
  BY <1>5, <1>13, IdleStep
<1>14. CASE run' = [run EXCEPT ![w] = q]
  BY <1>5, <1>9, <1>11, <1>14, QuietStep
<1>15. QED
  BY <1>10, <1>12, <1>13, <1>14

\* Nothing is received at first.
LEMMA InitHolds == Init => IInv
<1> SUFFICES ASSUME Init PROVE IInv
  OBVIOUS
<1>1. run \in [Workers -> Work]
  BY IdleTyped DEF Init
<1>2. passed \subseteq Passed
  BY DEF Init
<1>3. TypeOK
  <2>1. NoPage \in Pages
    BY IngestionAssumption DEF NoPage, Pages, PageStates, Outcomes, Recoveries, FiscalOutcomes,
                               Positions
  <2>2. NoUnit \in UnitRows
    <3>1. (CHOOSE h \in Hashes : TRUE) \in Hashes
      BY IdAssumption
    <3>2. QED
      BY <3>1 DEF NoUnit, UnitRows, UnitStates
  <2>3. checkpoint \in Positions
    BY IngestionAssumption DEF Init, Positions
  <2>4. page \in [Positions -> Pages] /\ unit \in [Positions -> [Ids -> UnitRows]]
    BY <2>1, <2>2 DEF Init
  <2>5. DocsTypeOK
    BY DEF Init, DocsInit, DocsTypeOK, NoDoc
  <2>6. TablesTyped
    BY <1>2, <2>3, <2>4, <2>5 DEF Init, TablesTyped
  <2>7. QED
    BY <1>1, <1>2, <2>6, Types
<1>4. Working
  <2>1. WorkOf(Idle)
    BY DEF WorkOf, Idle
  <2>2. \A w \in Workers : run[w] = Idle
    BY DEF Init
  <2>3. QED
    BY <2>1, <2>2 DEF Working
<1>5. UnitsTold
  BY DEF Init, UnitsTold, NoUnit, TerminalUnits
<1>6. Documented
  <2> SUFFICES ASSUME NEW i \in Ids PROVE DocOK(i)
    BY DEF Documented
  <2>1. docs[i] = NoDoc
    BY DEF Init, DocsInit
  <2>2. docs[i].evidence = {} /\ docs[i].state = "none"
    BY <2>1 DEF NoDoc
  <2>3. IsFiniteSet(docs[i].evidence)
    BY <2>2, FS_EmptySet
  <2>4. QED
    BY <2>2, <2>3 DEF DocOK
<1>7. NothingSkipped
  BY DEF Init, NothingSkipped
<1>8. Counted
  <2>1. Named({}) = {}
    BY DEF Named
  <2>2. IsFiniteSet({}) /\ Cardinality({}) = 0
    BY FS_EmptySet
  <2>3. NoPage.answer = {} /\ NoPage.count = 0 /\ \A p \in Positions : page[p] = NoPage
    BY DEF Init, NoPage
  <2>4. CountOK(NoPage)
    BY <2>1, <2>2, <2>3 DEF CountOK
  <2>5. QED
    BY <2>3, <2>4 DEF Counted
<1>9. QED
  BY <1>1, <1>2, <1>3, <1>4, <1>5, <1>6, <1>7, <1>8 DEF IInv

\* What a step says of the checkpoint.
Followed ==
    checkpoint' # checkpoint =>
        /\ page'[checkpoint].final
        /\ page'[checkpoint].next = checkpoint'
        /\ AllTerminal(checkpoint)

\* Every step keeps the invariant, and moves the checkpoint only from a finished page.
LEMMA NextKeeps ==
    ASSUME IInv, [Next]_vars
    PROVE  IInv' /\ Followed
<1>1. CASE UNCHANGED vars
  <2>1. Onward /\ Followed
    BY <1>1 DEF Onward, Exists, Followed, vars
  <2>2. QED
    BY <1>1, <2>1 DEF vars, IInv, TypeOK, DocsTypeOK, Working, WorkOf, UnitsTold, Told, Exists,
                      Documented, DocOK, Counted, NothingSkipped
<1>2. ASSUME NEW w \in Workers, NEW p \in Positions, NEW a \in Answers[p], Request(w, p, a)
      PROVE  IInv' /\ Followed
  BY <1>2, RequestKeeps DEF Request, Followed
<1>3. ASSUME NEW w \in Workers, Step(w)
      PROVE  IInv' /\ Followed
  <2>1. CASE RegisterPage(w)
    BY <2>1, RegisterPageKeeps DEF RegisterPage, Followed
  <2>2. CASE PrepareRetry(w)
    BY <2>2, PrepareRetryKeeps DEF PrepareRetry, Followed
  <2>3. CASE RegisterUnit(w)
    BY <2>3, RegisterUnitKeeps DEF RegisterUnit, Followed
  <2>4. CASE EnsureArtifact(w)
    BY <2>4, EnsureArtifactKeeps DEF EnsureArtifact, Followed
  <2>5. CASE PersistUnit(w)
    BY <2>5, PersistUnitKeeps DEF PersistUnit, Followed
  <2>6. CASE FinishUnit(w)
    BY <2>6, FinishUnitKeeps DEF FinishUnit, Followed
  <2>7. CASE UnitsDone(w)
    BY <2>7, UnitsDoneKeeps DEF UnitsDone, Followed
  <2>8. CASE FinishPage(w)
    BY <2>8, FinishPageKeeps DEF Followed
  <2>9. CASE Report(w)
    BY <2>9, IdleStep DEF Report, Followed
  <2>10. QED
    BY <1>3, <2>1, <2>2, <2>3, <2>4, <2>5, <2>6, <2>7, <2>8, <2>9 DEF Step
<1>4. ASSUME NEW w \in Workers, UnitFails(w)
      PROVE  IInv' /\ Followed
  BY <1>4, UnitFailsKeeps DEF UnitFails, Followed
<1>5. ASSUME NEW w \in Workers, Crash(w)
      PROVE  IInv' /\ Followed
  BY <1>5, IdleStep DEF Crash, Followed
<1>6. ASSUME NEW w \in Workers, NEW p \in Positions, NEW i \in Ids, ReconcileUnit(w, p, i)
      PROVE  IInv' /\ Followed
  BY <1>6, ReconcileUnitKeeps DEF ReconcileUnit, Followed
<1>7. ASSUME NEW w \in Workers, NEW p \in Positions, Settle(w, p)
      PROVE  IInv' /\ Followed
  BY <1>7, SettleKeeps DEF Settle, Followed
<1>8. QED
  BY <1>1, <1>2, <1>3, <1>4, <1>5, <1>6, <1>7 DEF Next

----------------------------------------------------------------------------
(* The theorems.                                                           *)

\* The invariant holds whatever the source answers and whoever works, dies or
\* repairs in between.
THEOREM InvariantHolds == Spec => []IInv
<1>1. Init => IInv
  BY InitHolds
<1>2. IInv /\ [Next]_vars => IInv'
  BY NextKeeps
<1>3. QED
  BY <1>1, <1>2, PTL DEF Spec

\* Every document and event has its bytes archived first (_ensure_artifact before
\* persist_document).
THEOREM IngestionInvHolds == Spec => []IngestionInv
<1>1. IInv => IngestionInv
  BY DEF IInv, IngestionInv, Documented, DocOK
<1>2. QED
  BY <1>1, InvariantHolds, PTL

\* The checkpoint leaves no registered unit behind that is neither persisted nor
\* quarantined, and no unit of the recorded answer unregistered unless the page has a
\* row that only an earlier answer named (_finish_page and its comparison of unit_count
\* with the rows).
THEOREM NothingSkippedHolds == Spec => []NothingSkipped
<1>1. IInv => NothingSkipped
  BY DEF IInv
<1>2. QED
  BY <1>1, InvariantHolds, PTL

\* A document is in conflict exactly when two contents were received for it, and a
\* unit treated as a conflict stays visible (_persist_document, _finish_unit).
THEOREM ConflictVisibleHolds == Spec => []ConflictVisible
<1>1. ASSUME IInv PROVE ConflictVisible
  <2> SUFFICES ASSUME NEW i \in Ids
               PROVE  /\ (Cardinality(docs[i].evidence) > 1) <=> (docs[i].state = "conflict")
                      /\ (\E p \in Positions : unit[p][i].state = "conflict")
                            => docs[i].state = "conflict"
    BY DEF ConflictVisible
  <2>1. DocOK(i)
    BY <1>1 DEF IInv, Documented
  <2>2. docs[i].state \in {"none", "persisted", "conflict"}
    BY <1>1 DEF IInv, TypeOK, DocsTypeOK
  <2>3. (\E p \in Positions : unit[p][i].state = "conflict") => docs[i].state = "conflict"
    BY <1>1 DEF IInv, UnitsTold, Told, TerminalUnits
  <2>4. CASE docs[i].state = "none"
    <3>1. docs[i].evidence = {}
      BY <2>1, <2>4 DEF DocOK
    <3>2. Cardinality(docs[i].evidence) = 0
      BY <3>1, FS_EmptySet
    <3>3. QED
      BY <2>3, <2>4, <3>2
  <2>5. CASE docs[i].state = "persisted"
    <3>1. PICK h : docs[i].evidence = {h}
      BY <2>1, <2>5 DEF DocOK
    <3>2. Cardinality(docs[i].evidence) = 1
      BY <3>1, FS_Singleton
    <3>3. QED
      BY <2>3, <2>5, <3>2
  <2>6. CASE docs[i].state = "conflict"
    <3>1. PICK g, h \in docs[i].evidence : g # h
      BY <2>1, <2>6 DEF DocOK
    <3>2. IsFiniteSet({h}) /\ Cardinality({h}) = 1 /\ g \notin {h}
      BY <3>1, FS_Singleton
    <3>3. Cardinality({h} \cup {g}) = Cardinality({h}) + 1
      BY <3>2, FS_AddElement
    <3>4. IsFiniteSet(docs[i].evidence) /\ {h} \cup {g} \subseteq docs[i].evidence
      BY <2>1, <3>1 DEF DocOK
    <3>5. Cardinality({h} \cup {g}) <= Cardinality(docs[i].evidence)
      BY <3>4, FS_Subset
    <3>6. Cardinality(docs[i].evidence) \in Nat
      BY <3>4, FS_CardinalityType
    <3>7. Cardinality(docs[i].evidence) > 1
      BY <3>2, <3>3, <3>5, <3>6
    <3>8. QED
      BY <2>6, <3>7
  <2>7. QED
    BY <2>2, <2>4, <2>5, <2>6
<1>2. QED
  BY <1>1, InvariantHolds, PTL

\* The checkpoint moves only to where the finished page it leaves points, when all
\* units of that page are treated (_finish_page).
THEOREM CheckpointHolds == Spec => CheckpointFollowsPages
<1>1. IInv /\ [Next]_vars => [Followed]_vars
  BY NextKeeps
<1>2. QED
  BY <1>1, InvariantHolds, PTL DEF Spec, CheckpointFollowsPages, Followed

====
