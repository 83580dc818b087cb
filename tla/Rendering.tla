----------------------------- MODULE Rendering -----------------------------
(***************************************************************************)
(* The PDF of one document (nfx.documents.rendering): requests, the job    *)
(* that draws it from a verified XML and stores it under one logical key,  *)
(* and the row that readers are served from.                               *)
(***************************************************************************)
EXTENDS JobRun

CONSTANTS
    Sources,        \* XML evidence of the document, numbered in order of arrival
    Unsupported,    \* the ones whose layout the renderer rejects
    MaxPdfs         \* bound: PDF artifacts ever begun

ASSUME RenderAssumption ==
    Sources \subseteq Nat \ {0} /\ Unsupported \subseteq Sources /\ MaxPdfs \in Nat

VARIABLES
    render,     \* nfx_document_render
    xml,        \* evidence whose artifact is finalized and verified
    pdf,        \* state of the artifacts with the key render:<id>
    draw,       \* what each worker is doing in render_pdf_job
    actor       \* whether the requester is still active and authorized

renderVars == <<render, xml, pdf, draw, actor>>

Pdfs == 1..MaxPdfs
IdleDraw == [pc |-> "idle", src |-> 0, art |-> 0, kind |-> "none"]

RenderInit ==
    /\ render = [state |-> "none", src |-> 0, art |-> 0]
    /\ xml = Sources
    /\ pdf = [p \in Pdfs |-> "none"]
    /\ draw = [w \in Workers |-> IdleDraw]
    /\ actor = TRUE

----------------------------------------------------------------------------

\* _verified_source: the first usable evidence.
VerifiedSource == Min(xml)

\* _render_artifact_is_valid, of a finalized row.
Valid(r) == r.state = "finalized" /\ r.art \in Pdfs /\ pdf[r.art] = "final"
Served == Valid(render)

Drawing == {w \in Workers : draw[w].pc # "idle"}
EndDraw(w, kind) == draw' = [draw EXCEPT ![w] = [IdleDraw EXCEPT !.pc = "end", !.kind = kind]]

\* Mutant: a request starts over whatever there is.
RequestRender_Always ==
    /\ actor
    /\ xml # {}
    /\ job["render"].state # "blocked"
    /\ render' = [state |-> "pending", src |-> VerifiedSource, art |-> 0]
    /\ Enqueue("render")
    /\ UNCHANGED <<xml, pdf, draw, actor, faults, overrun>>

\* request_render: a valid PDF is reused, anything else is requested again, in one
\* transaction that the engine's refusal of a blocked key rolls back.
RequestRender ==
    /\ actor
    /\ xml # {}
    /\ ~Served
    /\ job["render"].state # "blocked"
    /\ render' = [state |-> "pending", src |-> VerifiedSource, art |-> 0]
    /\ Enqueue("render")
    /\ UNCHANGED <<xml, pdf, draw, actor, faults, overrun>>

ClaimRender(w) ==
    /\ draw[w].pc = "idle"
    /\ Claim(w, "render", Drawing)
    /\ draw' = [draw EXCEPT ![w].pc = "read"]
    /\ UNCHANGED <<render, xml, pdf, actor, faults>>

\* render_pdf_job reads the row, then the requester's account.
ReadRender(w) ==
    /\ draw[w].pc = "read"
    /\ IF Served THEN EndDraw(w, "success")
       ELSE draw' = [draw EXCEPT ![w].pc = IF actor THEN "source" ELSE "revoked",
                                 ![w].src = render.src]
    /\ UNCHANGED <<render, xml, pdf, actor, job, faults, overrun>>

\* render_pdf_bytes: what becomes of an XML that was read.
DrawOutcome(s) == IF s \in Unsupported THEN "unsupported" ELSE "store"

\* The evidence the row named is read and verified, and drawn.
DrawPdf(w) ==
    LET s == draw[w].src IN
    /\ draw[w].pc = "source"
    /\ \/ /\ draw' = [draw EXCEPT ![w].pc = IF s \in xml THEN DrawOutcome(s) ELSE "fail"]
          /\ UNCHANGED faults
       \/ /\ SpendFault
          /\ draw' = [draw EXCEPT ![w].pc = "fail"]
    /\ UNCHANGED <<render, xml, pdf, actor, job, overrun>>

\* Mutant: each attempt stores a PDF of its own.
StorePdf_EachAttempt(w) ==
    /\ draw[w].pc = "store"
    /\ \E p \in Pdfs :
        /\ pdf[p] = "none"
        /\ pdf' = [pdf EXCEPT ![p] = "final"]
        /\ draw' = [draw EXCEPT ![w].pc = "finish", ![w].art = p]
    /\ UNCHANGED <<render, xml, actor, job, faults, overrun>>

\* begin and transmit under the one key of this render: a finalized PDF is returned
\* if the bytes are the same and refuses them otherwise; the drawing carries its
\* time, so both happen.
StorePdf(w) ==
    LET owner == {p \in Pdfs : pdf[p] = "final"}
        free == {p \in Pdfs : pdf[p] = "none"} IN
    /\ draw[w].pc = "store"
    /\ \/ /\ owner = {}
          /\ free # {}
          /\ LET p == Min(free) IN
             /\ pdf' = [pdf EXCEPT ![p] = "final"]
             /\ draw' = [draw EXCEPT ![w].pc = "finish", ![w].art = p]
          /\ UNCHANGED faults
       \/ /\ \E p \in owner : draw' = [draw EXCEPT ![w].pc = "finish", ![w].art = p]
          /\ UNCHANGED <<pdf, faults>>
       \/ /\ IF owner = {} THEN SpendFault ELSE UNCHANGED faults
          /\ draw' = [draw EXCEPT ![w].pc = "fail"]
          /\ UNCHANGED pdf
    /\ UNCHANGED <<render, xml, actor, job, overrun>>

\* The last transaction leaves a valid PDF of another worker alone.
FinishRender(w) ==
    /\ draw[w].pc = "finish"
    /\ render' = IF Served THEN render
                 ELSE [render EXCEPT !.state = "finalized", !.art = draw[w].art]
    /\ EndDraw(w, "success")
    /\ UNCHANGED <<xml, pdf, actor, job, faults, overrun>>

\* _failure_state leaves a finalized row alone.
FailureState(w) ==
    /\ draw[w].pc \in {"fail", "revoked", "unsupported"}
    /\ render' = IF render.state = "finalized" THEN render ELSE [render EXCEPT !.state = "failed"]
    /\ IF draw[w].pc = "unsupported" THEN draw' = [draw EXCEPT ![w].pc = "mark"]
       ELSE EndDraw(w, IF draw[w].pc = "revoked" THEN "permanent" ELSE "temporary")
    /\ UNCHANGED <<xml, pdf, actor, job, faults, overrun>>

\* An unsupported layout is then written over it unconditionally.
MarkUnsupported(w) ==
    /\ draw[w].pc = "mark"
    /\ render' = [render EXCEPT !.state = "unsupported"]
    /\ EndDraw(w, "success")
    /\ UNCHANGED <<xml, pdf, actor, job, faults, overrun>>

EndRenderJob(w) ==
    /\ draw[w].pc = "end"
    /\ EndJob(w, "render", draw[w].kind)
    /\ draw' = [draw EXCEPT ![w] = IdleDraw]
    /\ UNCHANGED <<render, xml, pdf, actor, faults, overrun>>

DrawDies(w) ==
    /\ draw[w].pc # "idle"
    /\ SpendFault
    /\ draw' = [draw EXCEPT ![w] = IdleDraw]
    /\ UNCHANGED <<render, xml, pdf, actor, job, overrun>>

\* An artifact is found missing or divergent, or an account is deactivated.
LoseXml(s) ==
    /\ s \in xml
    /\ SpendFault
    /\ xml' = xml \ {s}
    /\ UNCHANGED <<render, pdf, draw, actor, job, overrun>>
LosePdf(p) ==
    /\ pdf[p] = "final"
    /\ SpendFault
    /\ pdf' = [pdf EXCEPT ![p] = "lost"]
    /\ UNCHANGED <<render, xml, draw, actor, job, overrun>>
RevokeActor ==
    /\ actor /\ render.state # "none"
    /\ actor' = FALSE
    /\ UNCHANGED <<render, xml, pdf, draw, job, faults, overrun>>

RenderNext ==
    \/ RequestRender \/ RevokeActor
    \/ \E w \in Workers :
        \/ ClaimRender(w) \/ ReadRender(w) \/ DrawPdf(w) \/ StorePdf(w) \/ FinishRender(w)
        \/ FailureState(w) \/ MarkUnsupported(w) \/ EndRenderJob(w) \/ DrawDies(w)
    \/ \E s \in Sources : LoseXml(s)
    \/ \E p \in Pdfs : LosePdf(p)

RenderSpec == JobInit /\ RenderInit /\ [][RenderNext]_<<renderVars, jobVars>>

----------------------------------------------------------------------------
(* Properties.                                                             *)

RenderTypeOK ==
    /\ render \in [state : {"none", "pending", "finalized", "failed", "unsupported"},
                   src : Sources \cup {0}, art : 0..MaxPdfs]
    /\ xml \subseteq Sources
    /\ pdf \in [Pdfs -> {"none", "final", "lost"}]
    /\ actor \in BOOLEAN

\* A PDF that is served stays served until its artifact is lost: no request, retry
\* or failing worker takes it away, and a worker that draws it again keeps the first
\* one.  (Two workers at once may disagree on the source: then MarkUnsupported may.)
\* Even then a late failure never turns a finalized row into a failed one.
ServedStays ==
    [][/\ Served /\ ~overrun /\ pdf'[render.art] = "final" => render' = render
       /\ render.state = "finalized" => render'.state # "failed"]_renderVars

\* The variables keep their types, at most one PDF of a render is ever readable, and a
\* finalized row names one that was stored.
RenderInv ==
    /\ RenderTypeOK
    /\ Cardinality({p \in Pdfs : pdf[p] = "final"}) <= 1
    /\ render.state = "finalized" => render.art \in Pdfs /\ pdf[render.art] # "none"

============================================================================
