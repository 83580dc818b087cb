------------------------------ MODULE FollowUp ------------------------------
(***************************************************************************)
(* NF-e follow-up of one document (nfx.adapters.nfe): Ciencia da Operacao, *)
(* the retrieval of the complete XML that a permitted Ciencia enqueues,    *)
(* and a manifestation.  Each is a job of its own.  The transport the      *)
(* worker is configured with answers a request once and replays that       *)
(* answer for as long as its process lives.                                *)
(***************************************************************************)
EXTENDS JobRun

CONSTANTS
    Fixed       \* bound: TRUE when company, flow, certificate and document do not change

ASSUME FollowUpAssumption == Fixed \in BOOLEAN

VARIABLES
    act,        \* what each worker is doing in a handler
    answer,     \* per process: what its transport answered to science and manifest
    permit,     \* safe_result of the completed science job permits the retrieval
    evidence,   \* evidence attached to the document
    manifest,   \* state of nfx_nfe_manifestation
    allowed     \* what _validate_document_context and _validate_manifestation_company check

followVars == <<act, answer, permit, evidence, manifest, allowed>>

\* FiscalOutcome values a transport may give; blocked stands for denied as well.
Replies == {"success", "cooldown", "unavailable", "blocked", "conflict", "malformed"}

IdleAct == [pc |-> "idle", j |-> "none", kind |-> "none", reply |-> "none"]
Unasked == [science |-> "none", manifest |-> "none"]

FollowInit ==
    /\ act = [w \in Workers |-> IdleAct]
    /\ answer = [w \in Workers |-> Unasked]
    /\ permit = FALSE
    /\ evidence = {}
    /\ manifest = "none"
    /\ allowed = TRUE

----------------------------------------------------------------------------

At(w, pc) == act' = [act EXCEPT ![w].pc = pc]
EndAct(w, kind) == act' = [act EXCEPT ![w].pc = "end", ![w].kind = kind]
ActiveOn(j) == {w \in Workers : act[w].pc # "idle" /\ act[w].j = j}

\* NFeScienceResult.as_job_outcome.
ScienceOutcome(r) ==
    CASE r = "success"     -> "success"
      [] r = "cooldown"    -> "cooldown"
      [] r = "unavailable" -> "temporary"
      [] r = "blocked"     -> "permanent"
      [] OTHER             -> "partial"

\* enqueue_science; another correlation id is another instance of this module.
EnqueueScience ==
    /\ allowed
    /\ job["science"].state = "none"
    /\ Enqueue("science")
    /\ UNCHANGED <<act, answer, permit, evidence, manifest, allowed, faults, overrun>>

\* enqueue_manifestation: row and job in one transaction; the same key is answered
\* with the same job.
EnqueueManifestation ==
    /\ allowed
    /\ manifest = "none"
    /\ manifest' = "queued"
    /\ Enqueue("manifest")
    /\ UNCHANGED <<act, answer, permit, evidence, allowed, faults, overrun>>

ClaimFollowUp(w, j) ==
    /\ act[w].pc = "idle"
    /\ Claim(w, j, ActiveOn(j))
    /\ act' = [act EXCEPT ![w] = [IdleAct EXCEPT !.pc = j, !.j = j]]
    /\ UNCHANGED <<answer, permit, evidence, manifest, allowed, faults>>

\* The transport of this process answers, the second time what it answered first.
Ask(w, op, r) ==
    /\ answer[w][op] \in {"none", r}
    /\ answer' = [answer EXCEPT ![w][op] = r]

\* handle_science_job.
HandleScience(w) ==
    /\ act[w].pc = "science"
    /\ \/ /\ ~allowed
          /\ EndAct(w, "permanent")
          /\ UNCHANGED answer
       \/ /\ allowed
          /\ \E r \in Replies :
                /\ Ask(w, "science", r)
                /\ IF r = "success" THEN At(w, "enqueue") ELSE EndAct(w, ScienceOutcome(r))
    /\ UNCHANGED <<permit, evidence, manifest, allowed, job, faults, overrun>>

\* The retrieval is enqueued before the science job is completed; a blocked key
\* makes enqueue, and with it the handler, raise.
EnqueueXml(w) ==
    /\ act[w].pc = "enqueue"
    /\ \/ /\ job["xml"].state = "blocked"
          /\ EndAct(w, "raised")
          /\ UNCHANGED job
       \/ /\ job["xml"].state # "blocked"
          /\ Enqueue("xml")
          /\ EndAct(w, "success")
    /\ UNCHANGED <<answer, permit, evidence, manifest, allowed, faults, overrun>>

\* Mutant: the retrieval does not ask for a completed, permitted science job.
HandleXml_Ungated(w) ==
    /\ act[w].pc = "xml"
    /\ IF allowed THEN At(w, "original") ELSE EndAct(w, "permanent")
    /\ UNCHANGED <<answer, permit, evidence, manifest, allowed, job, faults, overrun>>

\* handle_xml_job: the science job is completed and permits, the context is valid,
\* and this process's transport knows of the permission.
HandleXml(w) ==
    /\ act[w].pc = "xml"
    /\ IF job["science"].state = "completed" /\ permit /\ allowed /\ answer[w]["science"] = "success"
       THEN At(w, "original") ELSE EndAct(w, "permanent")
    /\ UNCHANGED <<answer, permit, evidence, manifest, allowed, job, faults, overrun>>

\* The original is archived and attached before the XML is even parsed.  A failure
\* of storage, like an XML that does not parse, ends the job for good.
StoreOriginal(w) ==
    /\ act[w].pc = "original"
    /\ \/ evidence' = evidence \cup {"original"} /\ At(w, "parse") /\ UNCHANGED faults
       \/ SpendFault /\ EndAct(w, "permanent") /\ UNCHANGED evidence
    /\ UNCHANGED <<answer, permit, manifest, allowed, job, overrun>>

StoreXml(w) ==
    /\ act[w].pc = "parse"
    /\ \/ evidence' = evidence \cup {"xml"} /\ EndAct(w, "success") /\ UNCHANGED faults
       \/ SpendFault /\ EndAct(w, "permanent") /\ UNCHANGED evidence
    /\ UNCHANGED <<answer, permit, manifest, allowed, job, overrun>>

Settled == {"denied", "blocked", "quarantined", "conflict"}

\* Mutant: an accepted manifestation is sent again when its job is run again.
ReadManifestation_Resend(w) ==
    /\ act[w].pc = "manifest"
    /\ IF manifest \in Settled THEN EndAct(w, "permanent") ELSE At(w, "send")
    /\ UNCHANGED <<answer, permit, evidence, manifest, allowed, job, faults, overrun>>

\* handle_manifestation_job: what is settled is answered from the row.
ReadManifestation(w) ==
    /\ act[w].pc = "manifest"
    /\ IF manifest = "accepted" THEN EndAct(w, "success")
       ELSE IF manifest \in Settled THEN EndAct(w, "permanent")
       ELSE At(w, "send")
    /\ UNCHANGED <<answer, permit, evidence, manifest, allowed, job, faults, overrun>>

SendManifestation(w) ==
    /\ act[w].pc = "send"
    /\ \/ /\ ~allowed
          /\ \E r \in {"rejected", "orphan"} :
                act' = [act EXCEPT ![w].pc = "save", ![w].reply = r]
          /\ UNCHANGED answer
       \/ /\ allowed
          /\ \E r \in Replies :
                /\ Ask(w, "manifest", r)
                /\ act' = [act EXCEPT ![w].pc = "save", ![w].reply = r]
    /\ UNCHANGED <<permit, evidence, manifest, allowed, job, faults, overrun>>

ManifestState(r) ==
    CASE r = "success"     -> "accepted"
      [] r = "cooldown"    -> "cooldown"
      [] r = "unavailable" -> "retry"
      [] r = "blocked"     -> "denied"
      [] r = "rejected"    -> "blocked"
      [] r = "conflict"    -> "conflict"
      [] OTHER             -> "quarantined"

\* _save_manifestation_state writes the row whatever it says by now.
SaveManifestation(w) ==
    LET r == act[w].reply IN
    /\ act[w].pc = "save"
    /\ manifest' = ManifestState(r)
    /\ EndAct(w, CASE r = "success"     -> "success"
                   [] r = "cooldown"    -> "cooldown"
                   [] r = "unavailable" -> "temporary"
                   [] r = "malformed"   -> "partial"
                   [] OTHER             -> "permanent")
    /\ UNCHANGED <<answer, permit, evidence, allowed, job, faults, overrun>>

\* The outcome, and with it the result that permits the retrieval.
EndFollowUp(w) ==
    LET j == act[w].j IN
    /\ act[w].pc = "end"
    /\ EndJob(w, j, act[w].kind)
    /\ permit' = (permit \/ (j = "science" /\ job'[j].state = "completed" /\ job[j].holder = w))
    /\ act' = [act EXCEPT ![w] = IdleAct]
    /\ UNCHANGED <<answer, evidence, manifest, allowed, faults, overrun>>

\* The process dies with its transport's memory.
FollowUpDies(w) ==
    /\ act[w].pc # "idle"
    /\ SpendFault
    /\ act' = [act EXCEPT ![w] = IdleAct]
    /\ answer' = [answer EXCEPT ![w] = Unasked]
    /\ UNCHANGED <<permit, evidence, manifest, allowed, job, overrun>>

\* The company, its flow or its certificate is withdrawn, or the document deleted.
Withdraw ==
    /\ ~Fixed
    /\ allowed
    /\ allowed' = FALSE
    /\ UNCHANGED <<act, answer, permit, evidence, manifest, job, faults, overrun>>

\* The two operations of a document meet in nothing but what allows them, so their
\* steps are stated apart.
ScienceNext ==
    \/ EnqueueScience \/ Withdraw
    \/ \E w \in Workers :
        \/ \E j \in {"science", "xml"} : ClaimFollowUp(w, j)
        \/ HandleScience(w) \/ EnqueueXml(w) \/ HandleXml(w) \/ StoreOriginal(w) \/ StoreXml(w)
        \/ EndFollowUp(w) \/ FollowUpDies(w)

ManifestNext ==
    \/ EnqueueManifestation \/ Withdraw
    \/ \E w \in Workers :
        \/ ClaimFollowUp(w, "manifest")
        \/ ReadManifestation(w) \/ SendManifestation(w) \/ SaveManifestation(w)
        \/ EndFollowUp(w) \/ FollowUpDies(w)

FollowSpec == JobInit /\ FollowInit /\ [][ScienceNext \/ ManifestNext]_<<followVars, jobVars>>

----------------------------------------------------------------------------
(* Properties.                                                             *)

FollowTypeOK ==
    /\ answer \in [Workers -> [science : Replies \cup {"none"}, manifest : Replies \cup {"none"}]]
    /\ evidence \subseteq {"original", "xml"}
    /\ manifest \in {"none", "queued", "accepted", "cooldown", "retry", "denied", "blocked",
                     "conflict", "quarantined"}
    /\ permit \in BOOLEAN /\ allowed \in BOOLEAN

\* The variables keep their types, and the complete XML is only ever obtained after a
\* permitted Ciencia was recorded as completed, and never without the original
\* response archived before it, however the two jobs are retried or overlap.
XmlNeedsScience ==
    /\ FollowTypeOK
    /\ evidence # {} => permit
    /\ "xml" \in evidence => "original" \in evidence

\* Unless a lease ran out under a live worker, the row of a settled manifestation is
\* never rewritten, across crashes between its record and the end of its job
\* (handle_manifestation_job, _save_manifestation_state).
SettledStays ==
    [][(manifest \in Settled \cup {"accepted"}) /\ ~overrun => manifest' = manifest]_followVars

----------------------------------------------------------------------------
(* What the documents say and the code does not do.                        *)

\* Without a fault and with nothing withdrawn, the retrieval that a permitted
\* Ciencia enqueued is not refused.
PermittedXmlArrives == faults = 0 => job["xml"].state # "blocked"

============================================================================
