# NFX: TLA+ models, checks and proofs

NFX collects fiscal documents (NF-e, NFS-e) for companies, keeps them as evidence, renders and
exports them, and deletes them after their retention period. It is a Django application: HTTP
views, a worker process that runs durable jobs from a PostgreSQL table, a scheduler process, and
an object store for artifacts. This directory models the parts of `src/backend/nfx` whose
correctness depends on the order in which those processes act, on crashes between two
transactions and on leases that run out. Every definition is written from the code; the table
`map` of `PROJECT.json` gives the lines.

How to run: `tlc -config MCJobEngine_safety.cfg MCJobEngine` (one cfg per run, listed under
`runs`) and `tlapm JobEngine_proofs.tla` (one for each of the eight `*_proofs` modules).

## 1. Inventory

| Part (`nfx/…`) | State | Operations | Talks to | What is hard | What makes it correct |
|---|---|---|---|---|---|
| job engine `jobs/services.py` | `nfx_job` rows: state, due time, lease owner and expiry, attempts, cooldown, reason | enqueue, claim, renew, complete, finalize, fail, reclaim, recover, process_one | every producer of work; handlers | two workers and one row, clocks, crashes, leases that run out under a live handler, racing enqueues | one unfinished row per key; only the lease holder finishes; retries within the policy; cooldowns kept; every job ends |
| policy selection `jobs/policy.py` | `nfx_job_policy` | create_policy, select_policy | collection, engine | overlapping validity, equal specificity | at most one policy is chosen, the most specific valid one |
| worker, scheduler `management/commands` | heartbeat row | the two loops | engine, collection | process death | restart resumes the work |
| collection `collection/services.py` | executions, flow rows, initial requests | request, retry, initial handoff, reconcile, handler | companies, certificates, engine | two transactions where one is meant; workers without lease that still write | one active execution per family; flow row = last execution; ended results stay; blocks are not bypassed |
| ingestion `collection/ingestion.py` | checkpoint, pages, units | ingest, reconcile | adapters, artifacts, documents | crash between units, stale cursor, changed answer to an old page | the checkpoint passes no unit untreated; replay is harmless |
| artifact storage `artifacts/storage.py` | artifact rows, objects | begin, transmit, finalize, open/read verified, delete, reconcile | object store | row and object change separately | a finalized row has the bytes that were sent; one per logical key |
| deletion `retention/deletion.py` | operations, items | preview, request, resume, execute | retention, artifacts, documents, engine, audit | a saga over two stores, executed at least once, sometimes twice at a time | success is truthful; one decision at a time; only previewed bytes go |
| retention eligibility `retention/services.py` | dates and evidence of a document | decision, scope hash | documents | month arithmetic, local dates, missing evidence | never eligible early, nor with unsound evidence |
| exports `exports/services.py` | exports, items, ZIP artifact | request, compose, cleanup, download | documents, artifacts, engine | expiry during composition | an available export has its ZIP; an expired one is not revived |
| documents `documents/services.py` | documents, events, evidence | persist, attach, quarantine | ingestion | replay and conflict | first evidence wins, conflicts are visible |
| rendering `documents/rendering.py` | render rows, PDF artifacts | request, job, serve | artifacts, engine | two workers, a late failure | a served PDF stays; one PDF per render |
| companies, certificates | rows with versions and states, initial requests | create, update, activate, pause; add and replace a certificate | collection, artifacts | an upload between two transactions, racing uploads and edits | one current, decryptable certificate; never a gap; one initial request |
| identity | users, sessions, throttle | bootstrap, login, logout, resolve, administer users | every view, audit | demotions of each other, a login that races a reset | the last administrator stays; cut sessions are dead |
| audit | hash chain | append, verify | everything | concurrent appends, rollbacks | the chain verifies and explains every account |
| backup | sets, manifests, archives | create, expire, restore | database, object store | the archive changes while it is copied | a sealed set covers what stayed; the newest one restores |
| NF-e follow-up `adapters/nfe.py` | manifestations, jobs, evidence | science, complete XML, manifestation | documents, artifacts, engine | three jobs that depend on each other | XML only after a permitted science; settled manifestations stay |
| other adapters, enrichment, dashboard, infrastructure, frontend, deployment | none of their own, or read only | parsing, HTTP, aggregation | — | — | outside these models |

`hazards` in `PROJECT.json` lists what is hard to test, line by line, with the properties that
cover it, or the reason why none does yet.

## 2. Modules

| Module | Models |
|---|---|
| `LeaseQueue` | abstract: what the engine promises a client, without clocks, rows or policies |
| `JobEngine` | `jobs/services.py` with `process_one`; shown to implement `LeaseQueue` |
| `Collection` | `collection/services.py`, composed with `LeaseQueue` for its jobs |
| `Documents` | `documents/services.py`: persistence of documents and events |
| `Ingestion` | `collection/ingestion.py`, extends `Documents` |
| `WriteOnceStore` | abstract: what artifact storage promises its callers |
| `ArtifactStorage` | `artifacts/storage.py`; shown to implement `WriteOnceStore` |
| `Backup` | `backup/services.py` over the archive of `ArtifactStorage` |
| `DeletionSaga` | `retention/deletion.py` with the job that drives it, storage and concurrent ingestion |
| `JobRun` | the job engine as a handler meets it |
| `Exports`, `Rendering`, `FollowUp` | the handlers of `exports/services.py`, `documents/rendering.py`, `adapters/nfe.py`, each over `JobRun` |
| `AuditTrail` | `audit/services.py` |
| `Access` | `identity/services.py` and its views, extends `AuditTrail` |
| `Registry` | `companies/services.py`, `certificates/services.py` |
| `JobEngine_proofs`, `Collection_proofs`, `Ingestion_proofs`, `DeletionSaga_proofs`, `Access_proofs` | the theorems of the module they are named after |
| `Registry_proofs` | the theorems of `Registry` and `Rules` |
| `Backup_proofs` | the theorems of `ArtifactStorage` and `Backup` |
| `Deliverables_proofs` | the theorems of `Exports`, `Rendering` and `FollowUp` |
| `Rules` | pure computations: retention of a document, certificate status, policy selection, CNPJ validation |
| `MC*` | instances for TLC; `MCDeliverables` and `MCAdministration` put parts that share no state side by side, and a behaviour is about one of them |

The parts of those two have specifications of their own, which the theorems are about: `ExportSpec`,
`RenderSpec`, `FollowSpec` (science, XML and manifestation of one document interleaved, where the run
takes them one at a time), `AccessSpec`, `RegistrySpec`, `RulesSpec`.

Definitions with a suffix (`Holds_NoOwner`) are mutants: plausible mistakes in the code they
stand next to. They are used by no specification; each shows that a property would notice that
mistake (`mutants` in `PROJECT.json`).

### JobEngine

`job` is the table, one record per row with the columns that decide anything; `proc` is where each
worker is in `process_one` (`handling`, or `failing` in the `except Exception` branch); `call`
where each caller is in `enqueue`; `now` the clock. `lost` counts the leases that expired under
each job (history) and `refused` the keys for which a call ended in `JobEngineError`.

- *enqueue*: `EnqueueBegin`, `EnqueueLookup`, `EnqueueInsert`, `EnqueueConflict`. The lookup and
  the insert are separate because two callers can interleave there; the unique constraint decides.
- *claim*: `Claim` returns every expired lease to the queue and takes the first due row in the
  code's order, in one transaction. `skip_locked` is not modelled: a locked row is one another
  transaction is about to change, and transactions are atomic steps here.
- *process_one*: `Finish`, `DropLostLease`, `Raise`, `FailRaised`, `FailUnregistered`, `Escape`
  (InvalidTransition escapes both handlers and ends the process), `Unavailable`
  (OperationalError).
- *the rest*: `Recover` (scheduler), `Renew` (interface only: nothing in `src/backend` calls it),
  `Crash`, `Restart`, `Tick`.

`Spec` is the program. `ApiSpec` adds `Renew`; its behaviours include those of `Spec`, so what
holds of it holds of both.

Bounds: `MaxJobs` rows, `MaxFaults` crashes, outages, overruns and renewals. `Tick` moves only
while a due time or an expiry lies ahead. A restarted worker keeps its name; the code draws a new
one, which can only make a stale lease easier to recognise. Priorities are a function of the key:
no caller passes one today. A quiescent queue has no step left, so deadlock is not checked.

### Collection

One company. `flow` and `exec` are the two tables, `handoff` its `InitialCollectionRequest`,
`sched` what the scheduler is about to write on it, `worker` where each worker is between claim
and finalize, and `status`, `holder`, `token`, `grant` are the jobs, by the actions of
`LeaseQueue`. Families are numbers because `request_collection` goes through them in order and the
first that may not start decides the error. `Init` is a company whose first certificate has just
been added.

- `Request` is the transaction of `request_collection` for manual and retry requests. A request
  that is refused or answered with the active execution changes nothing and has no action.
- `InitialRequest`, `MarkHandoff`: the scheduler makes the request in one transaction and updates
  the handoff in the next; `SchedulerCrash` falls between them.
- `Claim`, `ReadExecution`, `Reconcile`, `Finalize`: the worker. The handler's outcome is any of
  the five kinds: today `request_collection` writes `valid_empty` into the payload and ingestion
  passes the others. `Raise` and `Crash` are what can go wrong; `Reconcile` checks no lease,
  exactly as the code does not.
- `SetActive`, `SetCertificate`, `SetFlowState`, `CooldownPasses`: what changes under the feet of
  a request.

Not in the model: policies are always found (`PolicyNotFound` only refuses), authorisation, audit
rows, progress and error texts, the duplicate answer's contents. `RetryAllowed` is in the model
and no retry is ever accepted in it: `failed` is never assigned, and a `partial` execution is
active, so its request is answered as a duplicate. This follows from `PointerIsActive`.

### DeletionSaga

One document with its evidence, artifacts and objects; `op` the operations with their items;
`job` the job of each; `run` where each executor is in `execute_deletion`. Every transaction and
every storage call is a step: `RequestDeletion`, `ResumeDeletion`, `Start`, `Begin`, `Revalidate`,
`ClaimItem`, `DeleteObject`, `Checkpoint`, `FinalizeRelational`, `MarkOutcome`, `Report`, and the
failures `DeleteObjectFails`, `FinalizeBlocked`, `Fails`, `Crash`. `Attach` is ingestion attaching
evidence meanwhile. `RestoreObject` is an operator who puts an object back so that an operation in
recovery can go on, while no executor runs; it is external to the code. `remover` records which
operation took an object away and `restored` which objects came back (history).

The scope hash is the set it hashes. Eligibility depends only on the scope, because the dates of a
document do not change and time only makes it older. All artifacts are finalized:
`ArtifactStorageService.reconcile`, the only code that would mark them otherwise here, has no
caller. The job is delivered at least once and, when a lease runs out, to two executors.

### Documents and Ingestion

One company, family and flow. `checkpoint` is the position, `page` and `unit` the two tables,
`docs` and `artifact` what is persisted and archived, `run` where each worker is. A position is a
number, 0 the empty one; a unit is an identity with a digest; an identity may be an event of
another or one that validation rejects. What the source answers at each position is the constant
`Answers`: every test of the classification is over a `FiscalOutcome`.

- `Request`, `RegisterPage`, `CanResume`, `PrepareRetry`: a response for the position it was
  requested with; an answer to a known page is resumed only if the page is unfinished and the
  adapter's outcome changed.
- `RegisterUnit`, `EnsureArtifact`, `PersistUnit`, `FinishUnit`, `UnitFails`: one transaction or
  storage call each.
- `FinishPage`, with `FinishResult` and `Advance`: counts the units again, compares the position
  with the checkpoint and moves it. `Report` is the execution's outcome.
- `ReconcileUnit`, `Settle`: the reconciliation, which only an operator calls. `Crash` falls anywhere.

`page[p].answer` is what the recorded response named: `unit_count` is its size, and the code keeps
no more of it. `passed` (history) records, of each page the checkpoint left behind, that answer and
the units registered. `NothingSkipped` says what became of the registered ones, and that the answer
has no others unless the page also has the row of a unit that only an earlier answer named; `AnswerKept`
says that no unit of the answer is lost, which is what the documents promise and the code does not keep.

### ArtifactStorage and Backup

`row` and `object` are the two stores. An upload is `Lookup` (only callers that reuse a key),
`BeginArtifact`, `CheckPending`, `WriteObject`, `VerifyObject`, `FinalizeArtifact`, `Return`; it may
fail or die between any two. `sha256` is the metadata an uploader sends with an object: `head`
returns it with the size and never looks at the bytes, so `HeadMatches` cannot tell an object altered
to as many bytes. `VerifyObject`, `Reconcile` and `DeleteForDeletion` ask for the head; only
`OpenVerified` (and a backup) reads the bytes. `MarkProblem` is what the two that complain write, `Damage`
an object lost, truncated or altered behind its metadata. `DeleteTemporary` and `DeleteForDeletion` (then
`RemoveRow`) are the two removals.

`Backup` adds `backup`, the sets: `CreateBackup` (row and dump), `ListArtifacts`, `CaptureObject`
one by one, `SealBackup`, `BackupFails`, `Expire`, and what `restore` answers. A copy is compared with
the row as it was listed: one whose row or object went in between fails the set. `CorruptArchive` is
the disk.

### JobRun, Exports, Rendering, FollowUp

`JobRun` hands a job to a worker, again when its lease ran out, and lets only the last worker end
it. `overrun` records that a lease ran out under a live handler: a few properties hold only
without that, and say so.

- `Exports`: one export. Composing is `ReadExport`, `ComposeExpired` or `MarkProcessing`, `AddItem`
  for each item, `FinishPartial` or `StoreZip` and `PublishZip`, `EndExportJob`; cleaning is
  `ListExpired`, `MarkExpired`, `Unlink`, `DeleteZip`, `Relink`. Every unconditional `update` of the
  code is unconditional here.
- `Rendering`: `RequestRender`, `ReadRender`, `DrawPdf`, `StorePdf`, `FinishRender`, the failures
  with what they write, and what `current_render` serves. Drawing has the outcomes of the renderer,
  not its layout.
- `FollowUp`: the science job and the XML job it enqueues, and the manifestation job. The worker's
  transport lives in its process, answers once and repeats that answer; another process may get
  another one. `Withdraw` is company, flow, certificate or document losing what the handlers check.

### AuditTrail, Access, Registry, Rules

- `AuditTrail`: the chain row is locked from `LockChain` to the end of the caller's transaction
  (`CommitEvent` or `ReleaseChain`). The hash is an injective function of predecessor and payload.
- `Access`: a request resolves its session (`Request`, `RevokeStale`, `Touch`), locks its target
  (`LockTarget`), lists and locks the administrators one by one (`ListAdministrators`,
  `LockAdministrator`), appends (`AppendEvent`) and commits (`CommitUser`, `CommitAuth`) or is rolled
  back (`Abort`). Row locks are explicit, so requests wait for each other. In READ COMMITTED the list
  of administrators is read before the locks are granted, and rows that changed meanwhile are tested
  again, as the model does.
- `Registry`: every company operation is one transaction. `CheckPfx`, `CreatePending`, `Transmit`,
  `Activate` are the steps of `add_certificate`; `UploadDies` falls between them.
- `Rules`: a state is one question (a document, a certificate's ends, a pair of policies and an
  instant, a CNPJ); the properties compare the code's answer with a reference. A document has its
  family, state, the two timestamps (perhaps null) and the evidence rows of itself and its events;
  `Decision` is the state `decision_for_document` returns for a day, not the wording of its reason. A
  moment is a UTC date and hour and how far Sao Paulo is behind, and `CivilDate` its local date
  (`USE_TZ` is on, so that timestamps are aware). Instants are numbers and
  `Never` stands for a null `valid_until`; what matters of them is their order.

## 3. Runs

| Run | Instance | Shows | Distinct states |
|---|---|---|---|
| `job_engine_safety` | 2 workers, 2 keys (one with policy, one without), 2 faults, lease 2 | the lease fences stale workers, retries and cooldowns are kept; the inductive invariant of the proofs | 839 k |
| `job_engine_queue` | 2 callers, 2 workers, 2 keys of different priority, cooldown, fairness | at most one unfinished row per key; refinement of `LeaseQueue`; every job completes or is blocked | 406 k |
| `collection_requests` | 1 family, 2 executions, 2 workers, retry limit 1, 2 faults, 1 change, fairness | tables consistent, ended results final, blocks kept, every execution worked off | 487 k |
| `ingestion_safety` | both families, 3 positions, 2 workers, 3 responses, 1 fault, 1 reconciliation | no registered unit is skipped, bytes before rows, conflicts visible, the checkpoint follows finished pages | 2.0 M |
| `archive` | 2 uploads, 2 keys, 2 rows, 1 fault, 2 backups, the newest kept | bytes as sent, honest answers, blame only for damage, refinement of `WriteOnceStore`, backups cover the archive | 1.3 M |
| `deletion_safety` | 2 operations, 2 executors, 2 faults, 1 resume, 1 restore | checkpoints and completion truthful, one decision, only previewed bytes | 1.8 M |
| `deletion_recovery` | 1 operation, 1 executor, 2 faults, 2 resumes, 1 restore, fairness | a request is executed, a stale preview never completes | 12 k |
| `deliverables` | 2 workers, 3 attempts, 1 fault; 2 items, 2 cleaners, 2 ZIPs; 2 sources, 2 PDFs | what is offered is complete, served PDFs stay, XML follows science, manifestations settle once | 1.2 M |
| `administration` | 2 users, 2 requests, 2 sessions, up to 5 events; 2 companies, 2 uploads, 3 certificates; documents with 18 moments and 4 sets of evidence rows, 64 half days before and after now, pairs of policies over 4 instants, 11 000 CNPJs | an administrator remains, the trail verifies and explains, dead sessions, certificates without a gap, rules exact | 1.6 M |
| `ingestion_answer_lost` | violation, 1 worker, 1 crash | the checkpoint passes a unit of the answer that was never stored | |
| `collection_job_lost` | violation | an execution stays active although its job is blocked | |
| `xml_before_science` | violation, without faults | the XML job runs before its science job is completed and is refused for good | |

Why the bounds are enough: the properties relate two actors on one row, so two workers, callers,
executors, uploads, cleaners, requests or operations are the smallest instances in which they can
fail. Two faults allow an overrun followed by a crash of the second worker. A retry limit of 1 gives
a first, a last and an exhausted attempt. Two executions of one family let a late worker of the first
meet the second. Families do not interact except in the request itself, so the run uses one. What
these bounds leave open the theorems close, for every safety property.

Particular to a run:

- `ingestion_safety`: the first page can come in full, in part, with other content or not at all;
  the second carries a document after its event and one that is invalid; the third ends the flow or
  leads back. Three responses let one worker resume or overtake another on a page and reach the last.
- `archive`: racing uploads with one backup, or one upload at a time with overlapping backups
  (`racing`); both at once are out of TLC's reach.
- `administration`: the operations on users come in three groups (`Offer`): changes of roles and
  states, sessions and passwords, and accounts that are closed and opened again. All of them together
  are out of reach; each property needs operations of one group only. The moments are
  the end of February in leap years and others and the turn of the year, each before, at and after
  midnight in Sao Paulo; the half days reach past both ends of the 30 days' warning.
- `deletion_recovery` uses one executor because `RequestIsExecuted` is about that case: with two, a
  late one leaves an operation executing whose job has ended.

Type invariants are conjuncts of one invariant per module: `IInv`, `SagaInv`, `IngestionInv`,
`StorageInv`, `NewestRestorable`, `DownloadIsComplete`, `RenderInv`, `XmlNeedsScience`, `AccessInv`,
`RegistryInv`. `RulesExact` has four named parts: `RetentionExact`, `StatusAgreesWithDays`,
`PoliciesHandOver`, `ValidatorDelimited`. In `Collection` types are proved (`TypeCorrect`).

Symmetry (`archive`, `deliverables`, `administration`) permutes callers, workers, cleaners, requests
or companies, which no definition tells apart; these runs check no liveness. Deadlock is not checked:
every system here may come to rest when its bounds are spent.

### Fairness

- `JobEngine`: weak fairness of each worker's step, of its restart (`restart: unless-stopped` in
  `docker-compose.runtime.yml`) and of time. Nothing is asked of the scheduler: claim reclaims
  expired leases itself. Handlers return or raise: `process_one` has no timeout of its own.
- `Collection`: weak fairness of each worker's step and of `MarkHandoff`, which follows the request
  in the same loop. Nobody owes a request, a change or a fault.
- `DeletionSaga`: weak fairness of executor steps; strong fairness of `Start`, since claim takes
  the job that is due first and a job retried for ever is due later each time.

## 4. Proofs

Every safety property of the passing runs is also a theorem, for every number of workers, callers,
keys, rows, documents, users, faults and so on. Each module has the same plan: an inductive invariant,
one lemma or step per action, and the properties from it. The invariants are stronger than the
properties because these are about tables, while what a step writes is decided by what a process
remembers from an earlier transaction; the strengthening says what can be relied on of that memory.

`JobEngine_proofs`: `IInv` adds to `Fencing` and the others that a row has an owner exactly while it
runs (`RowsCoherent`), that a queued row with a policy can still afford an attempt
(`QueuedWithinLimit`) and that a schedule never precedes the cooldown it serves (`CooldownKept`). From
`Invariance` follow `TypeCorrect`, `UniqueKey`, `FencingHolds`, `RetryBudgetHolds`, the action
properties `OnlyHolderFinishes`, `TerminalStays`, `CooldownPrevails`, and `Refinement`: every step of
the engine is a step of `LeaseQueue` or a stutter. `BlockedKeyHolds` says what blocking a job costs:
its idempotency key is closed for good, because a terminal row stays and the unique constraint counts it.

`Collection_proofs`: the pointer of a flow can only be trusted if workers write rows that exist, rows
have families and an active execution is the youngest of its family (`RowsOwned`, `WorkOnRows`,
`ActiveIsLast`, `FlowShowsActive`, `ConsumedAnswered`). Only two transactions write the tables:
`CreateKeeps` and `ReconcileKeeps` treat them. `OneActive` shows that the code keeps one active
execution per family by its locks and the pointer alone: the unique constraint in the database never
has to refuse. `BlockedHolds` needs `FlowShowsActive`: a worker that still reconciles has an active
execution, hence a flow that does not show blocked. `FlowHolds` is a second induction on top of `IInv`.
`QueueUsed` closes the gap between the two modules: the jobs of `Collection` change only by steps of
`LeaseQueue`, several submissions in one transaction included, so that what it assumes of the queue is
what `JobEngine` was shown to implement. `JobKeptUnlessRaised` delimits a finding: if no handler raises
(`HandlersReturn`), every active execution has a job that will run it.

`Ingestion_proofs`: `NothingSkipped` is about units the checkpoint left; the registered ones were left
because they were treated, and a page is left only if it has as many rows as its answer has units, so
that rows which are all of the answer are all of it. `UnitsTold` says what each treatment promises: archived bytes, and a
document, an event or a quarantine. `Working` says that of the treatment a worker has yet to write,
and that it persists only what it has archived. `Documented` ties a document's state to the number of
its contents, which gives `ConflictVisible`. `CheckpointHolds` is the action property.

`Backup_proofs`: first the archive, `StorageIInv`. A row has a key (`RowsKeyed`), a key one finalized row
(`OneOwner`), an object the bytes its row describes unless damaged (`ObjectsTrue`), metadata that agree
with bytes nobody altered (`HeadsTrue`), and an
upload the row it believes to have (`UploadsOK`); two uploads share a row only under a reused key,
whose content is one (`SharedRows`). Then the sets: what the dump names and is still finalized is
copied or still to be copied (`Capturing`), and the files of a complete set are given up only for a
younger complete one (`Sealed`). That rows only age (`RowsAge`) carries `BackupCoversArchive`.
`WriteOnceHolds` is the refinement of `WriteOnceStore`, for storage and backups together.

`DeletionSaga_proofs`: `CompletedMeansGone` and `OneActiveDecision` are inductive only with what
executors hold: an executor works on an operation that was requested, on items of its scope, and past
an item only if its checkpoint is there (`WorkRequested`, `JobRequested`, `ScopeFixed`,
`RemoverRequested`, `CheckpointTruth`). `StalePreviewHolds` is a second induction, from the state in
which the document has left the preview: evidence is only added and a conflict stays until the
document is gone (`ScopeMovesOn`), so that no revalidation succeeds (`OutdatedStays`).
Two theorems say what is lost when a lease runs out under a live executor. As long as no operation has
two executors (`Solitary`), a completed operation stays completed (`CompletedStaysAlone`, from
`Settled`: whoever still works for it has not begun or only reports). If in addition no operation is
resumed under its executor (`ResumedAtRest`), one that is pending or executing always has an active job,
through crashes and failures (`WorkIsQueuedAlone`, from `Backed`: an executor's job is active, and it
reports only on what is not to be executed). That is the safety half of `RequestIsExecuted`.

`Registry_proofs`: an upload between its two transactions has a pending row of its own, with its own
company and file (`UploadsOK`, `RowsApart`). `UsedOnce` then survives `Activate`, and
`NeverWithoutCertificate` holds because the old certificate is replaced in the same transaction.
`RulesExactHolds` is about `Rules`, for all documents, moments, instants and policies: 132 months keep
the month and cut the day to its length (`ElevenYears`), which happens on the 29th of February only,
since no year eleven years after a leap year is one (`ElevenYearsDay`); the day before a day is earlier
and its next day is that day (`PrevDayIsEarlier`), which gives local dates and the last day on which a
document is retained; two windows that meet are never in force together or both
out of force (`WindowsMeet`), `select_policy` returns the more specific of two (`SelectOfTwo`).
`EligibilityKeepsOrder` is about all dates: no document is eligible before an earlier one.
`CheckDigitWrongAtEleven` and `ValidatorRightElsewhere` delimit the finding about CNPJs: the digit is
wrong exactly for the multiples of 11; on 14 digits without such a sum the validator is right, and with
one it refuses every CNPJ.

`Access_proofs`: `AccessInv` says that an administrator remains. Two demotions that cross are safe
because each holds the row lock of another administrator when it commits (`Spare` in `RequestsOK`).
A dead session stays dead because credentials that were read earlier are never newer than the
account, and equal in version only if equal in password (`Fresh`). `TrailsOK` counts the events of
an account and follows its context through them; `AuditOK` says that the holder of the chain row
knows the last event.

`Deliverables_proofs`: `ExportIInv` (a composing worker has collected what it will publish, its ZIP is
nobody else's, a cleaner works only on a late export), `RenderIInv` (without an overrun lease one
worker draws, and then nothing is served yet), `FollowIInv` (an XML worker has passed the gate of a
permitted science; without an overrun lease one worker acts per job, and sends only what is not
settled). The update that publishes a ZIP is unconditional; what it publishes is complete all the same,
because the selection is fixed at the request and a composer that missed an item ends partial.
`XmlArrivesAfterScience` delimits the finding about the follow-up: a retrieval that only runs once the
science job is completed, in the process whose transport was asked (`XmlFollowsScience`), is never
refused without a fault or a withdrawal (`XmlIInv`).

Assumptions. The theorems rest on the named `ASSUME`s of the modules: bounds are naturals, model
values for "nobody" differ from the real ones, and users, sessions, sources and artifacts are numbered
where the code orders them, finite where it counts them. Those that say something about the program:
`StorageAssumption`, that callers who reuse a key derive it from the content (`ContentOf`);
`BackupAssumption`, that at least one set is kept; `RulesAssumption`, that documents are older than the
end of Python's calendar less eleven years and that Sao Paulo is two or three hours behind UTC; `IngestionAssumption`, that an adapter answers with a
`FiscalOutcome`, a position and units; `AccessAssumption`, that there are administrators and viewers.
The audit hash is an injective function, and so is the scope hash.

Only model-checked: the liveness properties `EveryJobFinishes`, `ExecutionSettles` and
`RequestIsExecuted`, because they need fairness and `ENABLED`; and the three violations, which are
counterexamples.

## 5. What the code does not do

`findings` in `PROJECT.json` has the four disagreements that a run shows. A theorem says how far each
goes (`JobKeptUnlessRaised`, `NothingSkippedHolds`, `XmlArrivesAfterScience`, `CheckDigitWrongAtEleven`):

- an execution whose handler raises on its last attempt stays active for good, and every later
  request of its family is answered as a duplicate;
- a page answered in part keeps its first unit's row; when the retry is answered with another unit and
  dies before it registers that, the reconciliation takes the one row for the other and moves the
  checkpoint past a unit that nobody stored;
- the XML job of the NF-e follow-up can be claimed before the science job that enqueued it is
  completed, and then ends for good;
- the CNPJ validator takes the check digit 1 for a remainder of 0, where the rule says 0, and lets
  every value with a letter pass (`ValidatorDelimited`, a part of `RulesExact`, states it as the code
  does it).

Known limits. The models contain the behaviour (unless said otherwise), and the properties are
stated so that they are true in spite of it.

*Jobs.* Leases are never renewed while a handler runs, so that a slow handler runs twice at a time
(`jobs/services.py:434`; `ARCHITECTURE.md:196` says that leases prevent it, `:398` that they are
renewed). A key whose job is blocked can never be enqueued again: the lookup skips blocked rows, the
constraint does not (`:128`, `:147`; `BlockedKeyHolds`).

*Collection.* After a scheduler crash whose first set of initial executions has already ended a second
set is made; a handoff can be consumed with only one family collected; no retry is ever accepted.

*Ingestion.* A page whose worker died right after registering it, answered alike again, is not resumed
and reports success (`collection/ingestion.py:551`, against `issues/0012:70`); the reconciliation
finishes a pending page without units as empty, also one that recorded a failure (`:451`, against
`issues/0012:71`); an ADN page without a next NSU sends the flow back to the beginning (`:900`,
against `issues/0012:127`); a second worker may turn a complete page into a partial one (`:804`); a
unit row keeps its first digest (`:587`). In none of these does the checkpoint pass a registered unit
that was not treated; that it can pass one that was never registered is the finding above.

*Storage, backup.* Verification compares size and the metadata the uploader sent
(`artifacts/storage.py:227`, and so do `:379` and `:404`): an object altered to as many bytes is
finalized, reconciled and deleted as if it were whole, and only a read or a backup notices. An artifact marked missing under a reused key can never be uploaded again
(`artifacts/storage.py:220`). A backup's dump may name an artifact that was deleted before
the artifacts were listed; one deleted after that fails the set. A used idempotency key returns its set even if that failed or still runs
(`backup/services.py:281`).

*Deletion.* Two executors of one operation (an overrun lease) may overwrite completed with
`recovery_required`, because `_mark_outcome` does not look at the state it replaces
(`retention/deletion.py:459`), or leave it executing without a job (`:645`). A resume between the
handler's outcome and the end of its job reuses that job and is lost (`:310`). `CompletedStaysAlone` and
`WorkIsQueuedAlone` show that nothing else does either. A worker that dies between removing an object
and its checkpoint leaves an operation whose retry reports its own object missing (`:544`); evidence
attached after the revalidation leaves an artifact that nothing refers to (`:589`); bytes restored for
one operation survive another that had already checkpointed them. The documents ask for idempotent,
resumable steps and no orphan (`specs/p9-controlled-deletion.md:23`, `:31`).

*Exports.* A ZIP is left behind when a worker dies before publishing it or a second one publishes
over it (`exports/services.py:375`); a temporary failure blocks the job, which has no policy, and
leaves the export processing (`:416`); a worker that overran its lease writes available over what the
cleanup has expired (`:375`).

*Rendering, follow-up.* A render may stay pending with a blocked job (`documents/rendering.py:484`,
`:533`); after a crash the fixed key `render:<id>` may refuse the next PDF (`:623`). An overlapping
worker may overwrite a manifestation (`adapters/nfe.py:1550`); one that dies between the answer and its
record asks the authority again (`:1653`).

*Companies, certificates.* Nothing calls `mark_first_collection` (`companies/services.py:450`), so
that a CNPJ with documents can change, against `PRD.md:90`, and its certificate then carries
another. A certificate added before the company is activated asks for no initial collection, and
nothing does later.

*Identity, audit.* Demotions of each other make the database abort one of them with an error that
nothing catches. The actor's role is not read again before the commit. Not modelled: the login
throttle counts parallel failures once (`identity/services.py:161`), and the audit list and the list
of users skip one row per page, because the next page starts after the first row that did not fit
(`audit/services.py:176`).

## 6. Plan

1. Compose `Ingestion` with `Collection`: the outcome of a page is the execution's.
2. The login throttle with a clock; heartbeats as freshness predicates.

## 7. Not modelled

PDF and ZIP layout, XML parsing, PFX parsing and cryptography, HTTP, redaction and configuration:
transformations of data without a protocol. Consultation, retention lists, job observability and the
dashboard: they read and change nothing. Public enrichment: one HTTP lookup. The frontend keeps no
authoritative state. Migrations: the constraints that matter are in the models. Build and deployment,
but for the restart policy of the worker.
