------------------------- MODULE Deliverables_proofs -------------------------
(***************************************************************************)
(* Theorems about Exports, Rendering and FollowUp: for every number of     *)
(* workers, cleaners, items and sources, and every job handed out again.   *)
(***************************************************************************)
EXTENDS Exports, Rendering, FollowUp, FiniteSetTheorems, WellFoundedInduction, TLAPS

----------------------------------------------------------------------------
(* The job engine's part, and numbers.                                     *)

JobRows == [state : {"none", "queued", "running", "completed", "blocked"},
            holder : Workers \cup {NoWorker}, attempt : Nat]

\* enqueue leaves a job.
LEMMA EnqueueTyped ==
    ASSUME JobTypeOK, NEW j \in JobIds, Enqueue(j)
    PROVE  JobTypeOK'
<1>1. job \in [JobIds -> JobRows]
  BY DEF JobTypeOK, JobRows
<1>2. NoJob \in JobRows /\ [NoJob EXCEPT !.state = "queued"] \in JobRows
  BY DEF NoJob, JobRows
<1>3. EnqueuedJob(j) \in JobRows
  BY <1>1, <1>2 DEF EnqueuedJob
<1>4. job' \in [JobIds -> JobRows]
  BY <1>1, <1>3 DEF Enqueue
<1>5. QED
  BY <1>4 DEF JobTypeOK, JobRows

\* claim leaves a job.
LEMMA ClaimTyped ==
    ASSUME JobTypeOK, NEW j \in JobIds, NEW w \in Workers, NEW busy, Claim(w, j, busy)
    PROVE  JobTypeOK'
<1>1. job \in [JobIds -> JobRows]
  BY DEF JobTypeOK, JobRows
<1>2. PICK n \in Nat : n = job[j].attempt + 1
  BY <1>1 DEF JobRows
<1>3. [state |-> "running", holder |-> w, attempt |-> n] \in JobRows
  BY DEF JobRows
<1>4. job' = [job EXCEPT ![j] = [state |-> "running", holder |-> w, attempt |-> n]]
  BY <1>2 DEF Claim
<1>5. job' \in [JobIds -> JobRows]
  BY <1>1, <1>3, <1>4
<1>6. QED
  BY <1>5 DEF JobTypeOK, JobRows

\* finalize and fail leave a job.
LEMMA EndTyped ==
    ASSUME JobTypeOK, NEW j \in JobIds, NEW w, NEW kind, EndJob(w, j, kind)
    PROVE  JobTypeOK'
<1>1. job \in [JobIds -> JobRows]
  BY DEF JobTypeOK, JobRows
<1>2. PICK row \in JobRows : row = job[j]
  BY <1>1
<1>3. \A s \in {"queued", "completed", "blocked"} :
          [row EXCEPT !.state = s, !.holder = NoWorker] \in JobRows
  BY DEF JobRows
<1>4. \E s \in {"queued", "completed", "blocked"} :
          FinalizedJob(j, kind) = [row EXCEPT !.state = s, !.holder = NoWorker]
  BY <1>2 DEF FinalizedJob
<1>5. FinalizedJob(j, kind) \in JobRows
  BY <1>3, <1>4
<1>6. job' \in [JobIds -> JobRows]
  BY <1>1, <1>5 DEF EndJob
<1>7. QED
  BY <1>6 DEF JobTypeOK, JobRows

\* The smallest free row, or the first usable evidence, is one.
LEMMA LeastIsMember ==
    ASSUME NEW S \in SUBSET Nat, S # {}
    PROVE  Min(S) \in S
<1> DEFINE R == {ss \in Nat \X Nat : ss[1] < ss[2]}
<1>1. IsWellFoundedOn(R, Nat)
  BY NatLessThanWellFounded DEF OpToRel
<1>2. PICK x \in S : \A y \in S : ~(<<y, x>> \in R)
  <2> HIDE DEF R
  <2> QED
    BY <1>1, WFMin
<1>3. \A y \in S : x <= y
  <2> SUFFICES ASSUME NEW y \in S, ~(x <= y) PROVE FALSE
    OBVIOUS
  <2>1. <<y, x>> \in Nat \X Nat /\ y < x
    OBVIOUS
  <2>2. <<y, x>> \in R
    BY <2>1
  <2>3. QED
    BY <1>2, <2>2
<1>4. QED
  BY <1>3 DEF Min

----------------------------------------------------------------------------
(* Exports.  A worker's ZIP is its own until it is published, whole and    *)
(* with every item; cleaners only ever meet an export that is late.        *)

ExportStates == {"none", "pending", "processing", "partial", "failed", "available", "expired"}
ExportRows == [state : ExportStates, zip : 0..MaxZips, stamp : Nat]
ZipRows == [state : {"none", "whole", "hollow", "deleted"}, items : SUBSET Items, key : Nat]
ComposePcs == {"idle", "read", "expire", "mark", "items", "publish", "end"}
ComposeRows == [pc : ComposePcs, todo : SUBSET Items, got : SUBSET Items, failed : BOOLEAN,
                key : Nat, zip : 0..MaxZips, kind : {"none", "success", "temporary"}]
CleanRows == [pc : {"idle", "mark", "unlink", "delete", "relink"}, zip : 0..MaxZips]

\* The tables of an export have their types.
ExportTyped ==
    /\ JobTypeOK
    /\ export \in ExportRows
    /\ item \in [Items -> {"pending", "included", "missing", "divergent"}]
    /\ source \in [Items -> {"ok", "none", "gone", "altered"}]
    /\ zips \in [Zips -> ZipRows]
    /\ late \in BOOLEAN
    /\ compose \in [Workers -> ComposeRows]
    /\ clean \in [Cleaners -> CleanRows]

\* ZIP z is whole and complete.
Complete(z) == z \in Zips /\ zips[z].state = "whole" /\ zips[z].items = Items

\* What a composer q has read or left out is the selection.
Collected(q) == q.pc = "items" /\ ~q.failed => q.got \cup q.todo = Items

\* The ZIP a worker is about to publish is complete and known to nobody else.
Unpublished(w) ==
    compose[w].pc = "publish" =>
        /\ Complete(compose[w].zip)
        /\ export.zip # compose[w].zip
        /\ \A c \in Cleaners : clean[c].zip # compose[w].zip
        /\ \A v \in Workers \ {w} : compose[v].pc = "publish" => compose[v].zip # compose[w].zip

\* A cleaner at work knows a row, and that the export is late.
Cleaning(c) ==
    /\ clean[c].zip # 0 => clean[c].zip \in Zips /\ zips[clean[c].zip].state # "none"
    /\ clean[c].pc # "idle" => late

ExportIInv ==
    /\ ExportTyped
    /\ \A w \in Workers : Collected(compose[w]) /\ Unpublished(w)
    /\ \A c \in Cleaners : Cleaning(c)
    /\ export.zip # 0 => LiveZip(export.zip)
    /\ Downloadable => Complete(export.zip)

\* The export row after an update.
LEMMA SetExportTyped ==
    ASSUME export \in ExportRows, late \in BOOLEAN, NEW s \in ExportStates, NEW z \in 0..MaxZips,
           SetExport(s, z)
    PROVE  export' \in ExportRows /\ export'.state = s /\ export'.zip = z
<1>1. PICK n \in Nat : n = IF late THEN export.stamp ELSE export.stamp + 1
  BY DEF ExportRows
<1>2. export' = [state |-> s, zip |-> z, stamp |-> n]
  BY <1>1 DEF SetExport
<1>3. QED
  BY <1>2 DEF ExportRows

\* The invariant is carried by a step that leaves ZIPs and cleaners alone, whose worker
\* does not get to publish, and that leaves the export's ZIP.
LEMMA ComposeStep ==
    ASSUME ExportIInv, NEW w \in Workers, NEW q \in ComposeRows, compose' = [compose EXCEPT ![w] = q],
           q.pc # "publish", Collected(q), UNCHANGED <<zips, clean, late>>,
           ExportTyped', export'.zip = export.zip,
           export'.state = "available" => export.state = "available"
    PROVE  ExportIInv'
<1>1. compose'[w] = q /\ \A v \in Workers \ {w} : compose'[v] = compose[v]
  BY DEF ExportIInv, ExportTyped
<1>2. ASSUME NEW v \in Workers PROVE Collected(compose[v])' /\ Unpublished(v)'
  <2>1. CASE v = w
    BY <1>1, <2>1 DEF Collected, Unpublished
  <2>2. CASE v # w
    <3>1. compose'[v] = compose[v] /\ Collected(compose[v]) /\ Unpublished(v)
      BY <1>1, <2>2 DEF ExportIInv
    <3>2. ASSUME compose'[v].pc = "publish"
          PROVE  /\ Complete(compose[v].zip)'
                 /\ export'.zip # compose'[v].zip
                 /\ \A c \in Cleaners : clean'[c].zip # compose'[v].zip
      BY <3>1, <3>2 DEF Unpublished, Complete
    <3>3. ASSUME compose'[v].pc = "publish", NEW x \in Workers \ {v}, compose'[x].pc = "publish"
          PROVE  compose'[x].zip # compose'[v].zip
      BY <1>1, <3>1, <3>3 DEF Unpublished
    <3>4. QED
      BY <3>1, <3>2, <3>3 DEF Collected, Unpublished
  <2>3. QED
    BY <2>1, <2>2
<1>3. ASSUME NEW c \in Cleaners PROVE Cleaning(c)'
  BY DEF ExportIInv, Cleaning
<1>4. export'.zip # 0 => LiveZip(export.zip)'
  BY DEF ExportIInv, LiveZip
<1>5. Downloadable' => Complete(export.zip)'
  BY DEF ExportIInv, Downloadable, Complete
<1>6. QED
  BY <1>2, <1>3, <1>4, <1>5 DEF ExportIInv

\* What a composer was doing.
LEMMA ComposeRow ==
    ASSUME ExportIInv, NEW w \in Workers
    PROVE  /\ compose[w] \in ComposeRows /\ Collected(compose[w]) /\ Unpublished(w)
           /\ IdleCompose \in ComposeRows
<1>1. 0 \in 0..MaxZips
  BY ExportAssumption
<1>2. IdleCompose \in ComposeRows
  BY <1>1 DEF IdleCompose, ComposeRows, ComposePcs
<1>3. QED
  BY <1>2 DEF ExportIInv, ExportTyped

\* The job and the composer's row change, nothing else.
LEMMA QuietCompose ==
    ASSUME ExportIInv, NEW w \in Workers, NEW q \in ComposeRows, compose' = [compose EXCEPT ![w] = q],
           q.pc # "publish", Collected(q), JobTypeOK', UNCHANGED <<export, item, source, zips, clean, late>>
    PROVE  ExportIInv'
<1>1. ExportTyped'
  BY DEF ExportIInv, ExportTyped
<1>2. QED
  BY <1>1, ComposeStep

\* The export row, the items and the composer's row change, nothing else.
LEMMA LoudCompose ==
    ASSUME ExportIInv, NEW w \in Workers, NEW q \in ComposeRows, compose' = [compose EXCEPT ![w] = q],
           q.pc # "publish", Collected(q), UNCHANGED <<source, zips, clean, late, job>>,
           item' \in [Items -> {"pending", "included", "missing", "divergent"}],
           NEW s \in ExportStates, s # "available", SetExport(s, export.zip) \/ UNCHANGED export
    PROVE  ExportIInv'
<1>1. export' \in ExportRows /\ export'.zip = export.zip /\
      (export'.state = "available" => export.state = "available")
  <2>1. export \in ExportRows /\ late \in BOOLEAN /\ export.zip \in 0..MaxZips
    BY DEF ExportIInv, ExportTyped, ExportRows
  <2>2. CASE SetExport(s, export.zip)
    BY <2>1, <2>2, SetExportTyped
  <2>3. CASE UNCHANGED export
    BY <2>1, <2>3
  <2>4. QED
    BY <2>2, <2>3
<1>2. ExportTyped'
  BY <1>1 DEF ExportIInv, ExportTyped, JobTypeOK
<1>3. QED
  BY <1>1, <1>2, ComposeStep

\* request_export.
LEMMA RequestExportKeeps ==
    ASSUME ExportIInv, RequestExport
    PROVE  ExportIInv'
<1>1. /\ UNCHANGED <<item, zips, compose, clean, late>> /\ Enqueue("export")
      /\ source' \in [Items -> {"ok", "none", "gone", "altered"}] /\ SetExport("pending", 0)
  BY DEF RequestExport
<1>2. export' \in ExportRows /\ export'.state = "pending" /\ export'.zip = 0
  <2>1. export \in ExportRows /\ late \in BOOLEAN /\ 0 \in 0..MaxZips /\ "pending" \in ExportStates
    BY ExportAssumption DEF ExportIInv, ExportTyped, ExportStates
  <2>2. QED
    BY <1>1, <2>1, SetExportTyped
<1>3. JobTypeOK'
  BY <1>1, EnqueueTyped DEF ExportIInv, ExportTyped, JobIds
<1>4. ExportTyped'
  BY <1>1, <1>2, <1>3 DEF ExportIInv, ExportTyped
<1>5. ASSUME NEW v \in Workers PROVE Collected(compose[v])' /\ Unpublished(v)'
  <2>1. Collected(compose[v]) /\ Unpublished(v)
    BY DEF ExportIInv
  <2>2. ASSUME compose'[v].pc = "publish" PROVE export'.zip # compose'[v].zip
    <3>1. compose[v].zip \in 1..MaxZips
      BY <1>1, <2>1, <2>2 DEF Unpublished, Complete, Zips
    <3>2. compose[v].zip # 0
      BY <3>1, ExportAssumption
    <3>3. QED
      BY <1>1, <1>2, <3>2
  <2>3. QED
    BY <1>1, <2>1, <2>2 DEF Collected, Unpublished, Complete
<1>6. \A c \in Cleaners : Cleaning(c)'
  BY <1>1 DEF ExportIInv, Cleaning
<1>7. QED
  BY <1>2, <1>4, <1>5, <1>6 DEF ExportIInv, Downloadable

\* A worker starts, and looks at the export.
LEMMA ClaimExportKeeps ==
    ASSUME ExportIInv, NEW w \in Workers, ClaimExport(w)
    PROVE  ExportIInv'
<1>1. PICK q : q = [compose[w] EXCEPT !.pc = "read"]
  OBVIOUS
<1>2. q \in ComposeRows /\ q.pc = "read" /\ Collected(q)
  BY <1>1, ComposeRow DEF ComposeRows, ComposePcs, Collected
<1>3. compose' = [compose EXCEPT ![w] = q] /\ UNCHANGED <<export, item, source, zips, clean, late>>
  BY <1>1 DEF ClaimExport
<1>4. JobTypeOK'
  BY ClaimTyped DEF ClaimExport, ExportIInv, ExportTyped, JobIds
<1>5. QED
  BY <1>2, <1>3, <1>4, QuietCompose

\* compose_export reads the export.
LEMMA ReadExportKeeps ==
    ASSUME ExportIInv, NEW w \in Workers, ReadExport(w)
    PROVE  ExportIInv'
<1>1. PICK n \in Nat : n = export.stamp
  BY DEF ExportIInv, ExportTyped, ExportRows
<1>2. PICK old \in ComposeRows : old = compose[w]
  BY ComposeRow
<1>3. PICK q \in {[old EXCEPT !.pc = "end", !.kind = "success"],
                  [old EXCEPT !.pc = "expire", !.key = n], [old EXCEPT !.pc = "mark", !.key = n]} :
           compose' = [compose EXCEPT ![w] = q]
  BY <1>1, <1>2 DEF ReadExport
<1>4. q \in ComposeRows /\ q.pc \in {"end", "expire", "mark"}
  BY DEF ComposeRows, ComposePcs
<1>5. UNCHANGED <<export, item, source, zips, clean, late, job>> /\ Collected(q)
  BY <1>4 DEF ReadExport, Collected
<1>6. JobTypeOK'
  BY <1>5 DEF ExportIInv, ExportTyped, JobTypeOK
<1>7. QED
  BY <1>3, <1>4, <1>5, <1>6, QuietCompose

\* The composer finds the export late.
LEMMA ComposeExpiredKeeps ==
    ASSUME ExportIInv, NEW w \in Workers, ComposeExpired(w)
    PROVE  ExportIInv'
<1>1. PICK q : q = [compose[w] EXCEPT !.pc = "end", !.kind = "success"]
  OBVIOUS
<1>2. q \in ComposeRows /\ q.pc = "end" /\ Collected(q)
  BY <1>1, ComposeRow DEF ComposeRows, ComposePcs, Collected
<1>3. /\ compose' = [compose EXCEPT ![w] = q] /\ UNCHANGED <<item, source, zips, clean, late, job>>
      /\ SetExport("expired", export.zip)
  BY <1>1 DEF ComposeExpired
<1>4. QED
  BY <1>2, <1>3, LoudCompose DEF ExportIInv, ExportTyped, ExportStates

\* The composer starts on the selection.
LEMMA MarkProcessingKeeps ==
    ASSUME ExportIInv, NEW w \in Workers, MarkProcessing(w)
    PROVE  ExportIInv'
<1>1. PICK q : q = [compose[w] EXCEPT !.pc = "items", !.todo = Items]
  OBVIOUS
<1>2. q \in ComposeRows /\ q.pc = "items" /\ q.todo = Items
  BY <1>1, ComposeRow DEF ComposeRows, ComposePcs
<1>3. Collected(q)
  BY <1>2 DEF Collected, ComposeRows
<1>4. /\ compose' = [compose EXCEPT ![w] = q] /\ UNCHANGED <<item, source, zips, clean, late, job>>
      /\ SetExport("processing", export.zip)
  BY <1>1 DEF MarkProcessing
<1>5. QED
  BY <1>2, <1>3, <1>4, LoudCompose DEF ExportIInv, ExportTyped, ExportStates

\* An item is read, or recorded as missing or divergent.
LEMMA AddItemKeeps ==
    ASSUME ExportIInv, NEW w \in Workers, NEW i \in Items, AddItem(w, i)
    PROVE  ExportIInv'
<1>1. PICK old \in ComposeRows : old = compose[w] /\ Collected(old)
  BY ComposeRow
<1>2. PICK t \in SUBSET Items : t = old.todo \ {i}
  BY DEF ComposeRows
<1>3. PICK g \in SUBSET Items : g = old.got \cup {i}
  BY DEF ComposeRows
<1>4. PICK q : /\ q \in {[old EXCEPT !.todo = t, !.got = g], [old EXCEPT !.todo = t, !.failed = TRUE]}
               /\ compose' = [compose EXCEPT ![w] = q]
  BY <1>1, <1>2, <1>3 DEF AddItem
<1>5. /\ old.pc = "items" /\ UNCHANGED <<export, source, zips, clean, late, job>>
      /\ i \in old.todo
  BY <1>1 DEF AddItem
<1>6. q \in ComposeRows /\ q.pc = "items"
  BY <1>4, <1>5 DEF ComposeRows, ComposePcs
<1>7. Collected(q)
  <2>1. CASE q = [old EXCEPT !.todo = t, !.got = g]
    <3>1. q.todo = t /\ q.got = g /\ q.failed = old.failed
      BY <2>1 DEF ComposeRows
    <3>2. ~old.failed => old.got \cup old.todo = Items
      BY <1>1, <1>5 DEF Collected
    <3>3. g \cup t = old.got \cup old.todo
      BY <1>2, <1>3, <1>5
    <3>4. QED
      BY <3>1, <3>2, <3>3 DEF Collected
  <2>2. CASE q = [old EXCEPT !.todo = t, !.failed = TRUE]
    <3>1. q.failed
      BY <2>2 DEF ComposeRows
    <3>2. QED
      BY <3>1 DEF Collected
  <2>3. QED
    BY <1>4, <2>1, <2>2
<1>8. item' \in [Items -> {"pending", "included", "missing", "divergent"}]
  BY DEF AddItem, ExportIInv, ExportTyped
<1>9. QED
  BY <1>4, <1>5, <1>6, <1>7, <1>8, LoudCompose DEF ExportStates

\* With a failed item there is no ZIP.
LEMMA FinishPartialKeeps ==
    ASSUME ExportIInv, NEW w \in Workers, FinishPartial(w)
    PROVE  ExportIInv'
<1>1. PICK q : q = [compose[w] EXCEPT !.pc = "end", !.kind = "success"]
  OBVIOUS
<1>2. q \in ComposeRows /\ q.pc = "end" /\ Collected(q)
  BY <1>1, ComposeRow DEF ComposeRows, ComposePcs, Collected
<1>3. PICK s \in {"partial", "failed"} :
           /\ compose' = [compose EXCEPT ![w] = q] /\ UNCHANGED <<item, source, zips, clean, late, job>>
           /\ SetExport(s, export.zip)
  BY <1>1 DEF FinishPartial
<1>4. s \in ExportStates /\ s # "available"
  BY DEF ExportStates
<1>5. item' \in [Items -> {"pending", "included", "missing", "divergent"}]
  BY <1>3 DEF ExportIInv, ExportTyped
<1>6. QED
  BY <1>2, <1>3, <1>4, <1>5, LoudCompose

\* The handler ends, or its worker.
LEMMA EndExportKeeps ==
    ASSUME ExportIInv, NEW w \in Workers, EndExportJob(w) \/ ComposeDies(w)
    PROVE  ExportIInv'
<1>1. compose' = [compose EXCEPT ![w] = IdleCompose] /\ UNCHANGED <<export, item, source, zips, clean, late>>
  BY DEF EndExportJob, ComposeDies
<1>2. "export" \in JobIds /\ JobTypeOK
  BY DEF JobIds, ExportIInv, ExportTyped
<1>3. (\E kind \in {compose[w].kind, "raised"} : EndJob(w, "export", kind)) \/ UNCHANGED job
  BY DEF EndExportJob, ComposeDies
<1>4. JobTypeOK'
  <2>1. CASE UNCHANGED job
    BY <1>2, <2>1 DEF JobTypeOK
  <2>2. QED
    BY <1>2, <1>3, <2>1, EndTyped
<1>5. IdleCompose \in ComposeRows /\ IdleCompose.pc = "idle" /\ Collected(IdleCompose)
  BY ComposeRow DEF IdleCompose, Collected
<1>6. QED
  BY <1>1, <1>4, <1>5, QuietCompose

\* begin and transmit: a ZIP nobody knows takes a row nobody knows.
LEMMA StoreZipKeeps ==
    ASSUME ExportIInv, NEW w \in Workers, StoreZip(w)
    PROVE  ExportIInv'
<1>1. PICK old \in ComposeRows : old = compose[w] /\ Collected(old)
  BY ComposeRow
<1>2. /\ old.pc = "items" /\ old.todo = {} /\ ~old.failed
      /\ UNCHANGED <<export, item, source, clean, late, job>>
  BY <1>1 DEF StoreZip
<1>3. old.got = Items
  BY <1>1, <1>2 DEF Collected
<1>4. CASE compose' = [compose EXCEPT ![w].pc = "end", ![w].kind = "temporary"] /\ UNCHANGED zips
  <2>1. PICK q : q = [old EXCEPT !.pc = "end", !.kind = "temporary"]
    OBVIOUS
  <2>2. q \in ComposeRows /\ q.pc = "end" /\ Collected(q)
    BY <2>1 DEF ComposeRows, ComposePcs, Collected
  <2>3. compose' = [compose EXCEPT ![w] = q]
    BY <1>1, <1>4, <2>1
  <2>4. JobTypeOK'
    BY <1>2 DEF ExportIInv, ExportTyped, JobTypeOK
  <2>5. QED
    BY <1>2, <1>4, <2>2, <2>3, <2>4, QuietCompose
<1>5. CASE ~(compose' = [compose EXCEPT ![w].pc = "end", ![w].kind = "temporary"] /\ UNCHANGED zips)
  <2>1. PICK free \in SUBSET Nat : free = {x \in Zips : zips[x].state = "none"}
    <3>1. \A x \in Zips : x \in Nat
      BY ExportAssumption DEF Zips
    <3>2. {x \in Zips : zips[x].state = "none"} \in SUBSET Nat
      BY <3>1
    <3>3. QED
      BY <3>2
  <2>2. PICK z : z = Min(free)
    OBVIOUS
  <2>3. /\ free # {}
        /\ zips' = [zips EXCEPT ![z] = [state |-> "whole", items |-> old.got, key |-> old.key]]
        /\ compose' = [compose EXCEPT ![w].pc = "publish", ![w].zip = z]
    BY <1>1, <1>5, <2>1, <2>2 DEF StoreZip
  <2>4. z \in Zips /\ zips[z].state = "none"
    BY <2>1, <2>2, <2>3, LeastIsMember
  <2>5. z \in 0..MaxZips /\ z # 0
    BY <2>4, ExportAssumption DEF Zips
  <2>6. PICK q : q = [old EXCEPT !.pc = "publish", !.zip = z]
    OBVIOUS
  <2>7. q \in ComposeRows /\ q.pc = "publish" /\ q.zip = z /\ Collected(q)
    BY <2>5, <2>6 DEF ComposeRows, ComposePcs, Collected
  <2>8. compose' = [compose EXCEPT ![w] = q]
    BY <1>1, <2>3, <2>6
  <2>9. /\ compose' \in [Workers -> ComposeRows] /\ compose'[w] = q
        /\ \A v \in Workers \ {w} : compose'[v] = compose[v]
    BY <2>7, <2>8 DEF ExportIInv, ExportTyped
  <2>10. PICK row \in ZipRows : row = [state |-> "whole", items |-> old.got, key |-> old.key]
    BY DEF ZipRows, ComposeRows
  <2>11. /\ zips' \in [Zips -> ZipRows] /\ zips'[z].state = "whole" /\ zips'[z].items = Items
         /\ \A y \in Zips \ {z} : zips'[y] = zips[y]
    <3>1. zips' = [zips EXCEPT ![z] = row] /\ row.state = "whole" /\ row.items = Items
      BY <1>3, <2>3, <2>10
    <3>2. QED
      BY <2>4, <3>1 DEF ExportIInv, ExportTyped
  <2>12. ExportTyped'
    BY <1>2, <2>9, <2>11 DEF ExportIInv, ExportTyped, JobTypeOK
  <2>13. \A y : Complete(y) => y # z /\ Complete(y)'
    BY <2>4, <2>11 DEF Complete
  <2>14. \A y : LiveZip(y) => y # z /\ LiveZip(y)'
    BY <2>4, <2>11 DEF LiveZip
  <2>15. export.zip # z
    BY <2>5, <2>14 DEF ExportIInv
  <2>16. \A c \in Cleaners : clean[c].zip # z
    BY <2>4, <2>5 DEF ExportIInv, Cleaning
  <2>17. \A v \in Workers : compose[v].pc = "publish" => compose[v].zip # z
    BY <2>13 DEF ExportIInv, Unpublished
  <2>18. ASSUME NEW v \in Workers PROVE Collected(compose[v])' /\ Unpublished(v)'
    <3>1. CASE v = w
      <4>1. Collected(compose[v])'
        BY <2>7, <2>9, <3>1 DEF Collected
      <4>2. Complete(z)'
        BY <2>4, <2>11 DEF Complete
      <4>3. \A x \in Workers \ {w} : compose'[x].pc = "publish" => compose'[x].zip # z
        BY <2>9, <2>17
      <4>4. compose'[v].zip = z
        BY <2>7, <2>9, <3>1
      <4>5. Unpublished(v)'
        BY <1>2, <2>15, <2>16, <3>1, <4>2, <4>3, <4>4 DEF Unpublished
      <4>6. QED
        BY <4>1, <4>5
    <3>2. CASE v # w
      <4>1. compose'[v] = compose[v] /\ Collected(compose[v]) /\ Unpublished(v)
        BY <2>9, <3>2 DEF ExportIInv
      <4>2. ASSUME compose'[v].pc = "publish"
            PROVE  /\ Complete(compose[v].zip)'
                   /\ export'.zip # compose'[v].zip
                   /\ \A c \in Cleaners : clean'[c].zip # compose'[v].zip
        <5>1. Complete(compose[v].zip) /\ compose'[v].zip = compose[v].zip
          BY <4>1, <4>2 DEF Unpublished
        <5>2. Complete(compose[v].zip)'
          BY <2>11, <2>13, <5>1 DEF Complete
        <5>3. QED
          BY <1>2, <4>1, <4>2, <5>2 DEF Unpublished
      <4>3. ASSUME compose'[v].pc = "publish", NEW x \in Workers \ {v}, compose'[x].pc = "publish"
            PROVE  compose'[x].zip # compose'[v].zip
        <5>1. CASE x = w
          BY <2>7, <2>9, <2>17, <4>1, <4>3, <5>1
        <5>2. CASE x # w
          BY <2>9, <4>1, <4>3, <5>2 DEF Unpublished
        <5>3. QED
          BY <5>1, <5>2
      <4>4. QED
        BY <4>1, <4>2, <4>3 DEF Collected, Unpublished
    <3>3. QED
      BY <3>1, <3>2
  <2>19. ASSUME NEW c \in Cleaners PROVE Cleaning(c)'
    <3>1. Cleaning(c) /\ clean[c].zip # z
      BY <2>16 DEF ExportIInv
    <3>2. QED
      BY <1>2, <2>11, <3>1 DEF Cleaning
  <2>20. export'.zip # 0 => LiveZip(export.zip)'
    BY <1>2, <2>14 DEF ExportIInv, LiveZip
  <2>21. Downloadable' => Complete(export.zip)'
    <3>1. Downloadable' => Downloadable
      BY <1>2 DEF Downloadable
    <3>2. Complete(export.zip) => Complete(export.zip)'
      BY <1>2, <2>11, <2>15 DEF Complete
    <3>3. QED
      BY <3>1, <3>2 DEF ExportIInv
  <2>22. QED
    BY <2>12, <2>18, <2>19, <2>20, <2>21 DEF ExportIInv
<1>6. QED
  BY <1>4, <1>5

\* The unconditional update: what it links is complete, whatever the row said.
LEMMA PublishZipKeeps ==
    ASSUME ExportIInv, NEW w \in Workers, PublishZip(w)
    PROVE  ExportIInv'
<1>1. PICK z : z = compose[w].zip
  OBVIOUS
<1>2. /\ compose[w].pc = "publish" /\ SetExport("available", z)
      /\ UNCHANGED <<item, source, zips, clean, late, job>>
  BY <1>1 DEF PublishZip
<1>3. /\ Complete(z) /\ z \in Zips
      /\ \A c \in Cleaners : clean[c].zip # z
      /\ \A v \in Workers \ {w} : compose[v].pc = "publish" => compose[v].zip # z
  BY <1>1, <1>2, ComposeRow DEF Unpublished, Complete
<1>4. export' \in ExportRows /\ export'.state = "available" /\ export'.zip = z
  <2>1. export \in ExportRows /\ late \in BOOLEAN /\ z \in 0..MaxZips /\ "available" \in ExportStates
    BY <1>3, ExportAssumption DEF ExportIInv, ExportTyped, ExportStates, Zips
  <2>2. QED
    BY <1>2, <2>1, SetExportTyped
<1>5. PICK q : q = [compose[w] EXCEPT !.pc = "end", !.kind = "success"]
  OBVIOUS
<1>6. q \in ComposeRows /\ q.pc = "end"
  BY <1>5, ComposeRow DEF ComposeRows, ComposePcs
<1>7. compose' = [compose EXCEPT ![w] = q]
  BY <1>5 DEF PublishZip
<1>8. /\ compose' \in [Workers -> ComposeRows] /\ compose'[w] = q
      /\ \A v \in Workers \ {w} : compose'[v] = compose[v]
  BY <1>6, <1>7 DEF ExportIInv, ExportTyped
<1>9. ExportTyped'
  BY <1>2, <1>4, <1>8 DEF ExportIInv, ExportTyped, JobTypeOK
<1>10. ASSUME NEW v \in Workers PROVE Collected(compose[v])' /\ Unpublished(v)'
  <2>1. CASE v = w
    BY <1>6, <1>8, <2>1 DEF Collected, Unpublished
  <2>2. CASE v # w
    <3>1. compose'[v] = compose[v] /\ Collected(compose[v]) /\ Unpublished(v)
      BY <1>8, <2>2 DEF ExportIInv
    <3>2. ASSUME compose'[v].pc = "publish"
          PROVE  /\ Complete(compose[v].zip)'
                 /\ export'.zip # compose'[v].zip
                 /\ \A c \in Cleaners : clean'[c].zip # compose'[v].zip
      BY <1>2, <1>3, <1>4, <2>2, <3>1, <3>2 DEF Unpublished, Complete
    <3>3. ASSUME compose'[v].pc = "publish", NEW x \in Workers \ {v}, compose'[x].pc = "publish"
          PROVE  compose'[x].zip # compose'[v].zip
      BY <1>6, <1>8, <3>1, <3>3 DEF Unpublished
    <3>4. QED
      BY <3>1, <3>2, <3>3 DEF Collected, Unpublished
  <2>3. QED
    BY <2>1, <2>2
<1>11. ASSUME NEW c \in Cleaners PROVE Cleaning(c)'
  BY <1>2 DEF ExportIInv, Cleaning
<1>12. Complete(export.zip)' /\ LiveZip(export.zip)'
  BY <1>2, <1>3, <1>4 DEF Complete, LiveZip
<1>13. QED
  BY <1>9, <1>10, <1>11, <1>12 DEF ExportIInv

----------------------------------------------------------------------------
(* cleanup_expired.                                                        *)

\* A cleaner's step: it knows of no ZIP but the export's or its own, and touches no
\* ZIP that waits to be published.
LEMMA CleanStep ==
    ASSUME ExportIInv, NEW c \in Cleaners, NEW q \in CleanRows, clean' = [clean EXCEPT ![c] = q],
           late, q.zip \in {0, clean[c].zip, export.zip}, UNCHANGED <<item, source, compose, late, job>>,
           export' \in ExportRows, export'.zip \in {0, clean[c].zip, export.zip},
           export'.zip # 0 => LiveZip(export.zip)',
           zips' \in [Zips -> ZipRows],
           \A y \in Zips : y # clean[c].zip => zips'[y] = zips[y],
           clean[c].zip \in Zips => zips'[clean[c].zip].state # "none"
    PROVE  ExportIInv'
<1>1. clean'[c] = q /\ clean' \in [Cleaners -> CleanRows] /\ \A d \in Cleaners \ {c} : clean'[d] = clean[d]
  BY DEF ExportIInv, ExportTyped
<1>2. ExportTyped'
  BY <1>1 DEF ExportIInv, ExportTyped, JobTypeOK
<1>3. ASSUME NEW v \in Workers PROVE Collected(compose[v])' /\ Unpublished(v)'
  <2>1. Collected(compose[v]) /\ Unpublished(v)
    BY DEF ExportIInv
  <2>2. ASSUME compose[v].pc = "publish"
        PROVE  /\ Complete(compose[v].zip)'
               /\ export'.zip # compose[v].zip
               /\ \A d \in Cleaners : clean'[d].zip # compose[v].zip
    <3>1. PICK y : y = compose[v].zip
      OBVIOUS
    <3>2. /\ Complete(y) /\ y \in Zips /\ export.zip # y /\ y # 0
          /\ \A d \in Cleaners : clean[d].zip # y
      BY <2>1, <2>2, <3>1, ExportAssumption DEF Unpublished, Complete, Zips
    <3>3. zips'[y] = zips[y]
      BY <3>2
    <3>4. \A d \in Cleaners : clean'[d].zip # y
      BY <1>1, <3>2
    <3>5. QED
      BY <3>1, <3>2, <3>3, <3>4 DEF Complete
  <2>3. QED
    BY <2>1, <2>2 DEF Collected, Unpublished
<1>4. ASSUME NEW y \in Zips, zips[y].state # "none" PROVE zips'[y].state # "none"
  <2>1. CASE y = clean[c].zip
    BY <2>1
  <2>2. CASE y # clean[c].zip
    BY <1>4, <2>2
  <2>3. QED
    BY <2>1, <2>2
<1>5. export.zip # 0 => export.zip \in Zips /\ zips[export.zip].state # "none"
  BY DEF ExportIInv, LiveZip
<1>6. ASSUME NEW d \in Cleaners PROVE Cleaning(d)'
  <2>1. Cleaning(c) /\ Cleaning(d)
    BY DEF ExportIInv
  <2>2. CASE d = c
    BY <1>1, <1>4, <1>5, <2>1, <2>2 DEF Cleaning
  <2>3. CASE d # c
    BY <1>1, <1>4, <2>1, <2>3 DEF Cleaning
  <2>4. QED
    BY <2>2, <2>3
<1>7. ~Downloadable'
  BY DEF Downloadable
<1>8. QED
  BY <1>2, <1>3, <1>6, <1>7 DEF ExportIInv

\* What a cleaner was doing.
LEMMA CleanRow ==
    ASSUME ExportIInv, NEW c \in Cleaners
    PROVE  /\ clean[c] \in CleanRows /\ Cleaning(c) /\ IdleClean \in CleanRows
           /\ export \in ExportRows /\ late \in BOOLEAN /\ 0 \in 0..MaxZips
           /\ zips \in [Zips -> ZipRows]
           /\ clean[c].zip \in Zips => zips[clean[c].zip].state # "none"
<1>1. 0 \in 0..MaxZips
  BY ExportAssumption
<1>2. IdleClean \in CleanRows
  BY <1>1 DEF IdleClean, CleanRows
<1>3. clean[c] \in CleanRows /\ Cleaning(c)
  BY DEF ExportIInv, ExportTyped
<1>4. \A z \in Zips : z # 0
  BY ExportAssumption DEF Zips
<1>5. QED
  BY <1>1, <1>2, <1>3, <1>4 DEF ExportIInv, ExportTyped, Cleaning

\* A cleaner's step that leaves the ZIPs and sets the export's ZIP.
LEMMA CleanRowStep ==
    ASSUME ExportIInv, NEW c \in Cleaners, NEW q \in CleanRows, clean' = [clean EXCEPT ![c] = q],
           late, q.zip \in {0, clean[c].zip, export.zip},
           UNCHANGED <<item, source, zips, compose, late, job>>,
           NEW s \in ExportStates, NEW z \in 0..MaxZips, z \in {0, clean[c].zip, export.zip},
           z # 0 => LiveZip(z), SetExport(s, z)
    PROVE  ExportIInv'
<1>1. export' \in ExportRows /\ export'.zip = z
  BY CleanRow, SetExportTyped
<1>2. export'.zip # 0 => LiveZip(export.zip)'
  BY <1>1 DEF LiveZip
<1>3. zips' \in [Zips -> ZipRows] /\ (clean[c].zip \in Zips => zips'[clean[c].zip].state # "none")
  BY CleanRow
<1>4. QED
  BY <1>1, <1>2, <1>3, CleanStep

\* The list of expired exports.
LEMMA ListExpiredKeeps ==
    ASSUME ExportIInv, NEW c \in Cleaners, ListExpired(c)
    PROVE  ExportIInv'
<1>1. PICK q : q = [pc |-> "mark", zip |-> export.zip]
  OBVIOUS
<1>2. q \in CleanRows /\ q.zip = export.zip
  BY <1>1, CleanRow DEF CleanRows, ExportRows
<1>3. /\ clean' = [clean EXCEPT ![c] = q] /\ late
      /\ UNCHANGED <<export, item, source, zips, compose, late, job>>
  BY <1>1 DEF ListExpired
<1>4. export'.zip # 0 => LiveZip(export.zip)'
  BY <1>3 DEF ExportIInv, LiveZip
<1>5. /\ zips' \in [Zips -> ZipRows] /\ (clean[c].zip \in Zips => zips'[clean[c].zip].state # "none")
      /\ export' \in ExportRows
  BY <1>3, CleanRow
<1>6. QED
  BY <1>2, <1>3, <1>4, <1>5, CleanStep

\* The export is marked and unlinked, or a ZIP that was not deleted linked again.
LEMMA CleanerWrites ==
    ASSUME ExportIInv, NEW c \in Cleaners, MarkExpired(c) \/ Unlink(c) \/ Relink(c)
    PROVE  ExportIInv'
<1>1. late /\ UNCHANGED <<item, source, zips, compose, late, job>>
  BY CleanRow DEF Cleaning, MarkExpired, Unlink, Relink
<1>2. /\ export.state \in ExportStates /\ export.zip \in 0..MaxZips
      /\ clean[c].zip \in 0..MaxZips /\ 0 \in 0..MaxZips /\ clean[c] \in CleanRows
      /\ (export.zip # 0 => LiveZip(export.zip))
  BY CleanRow DEF ExportRows, CleanRows, ExportIInv
<1>3. \A s \in {"unlink", "delete"} : [clean[c] EXCEPT !.pc = s] \in CleanRows
  BY <1>2 DEF CleanRows
<1>4. IdleClean \in CleanRows /\ IdleClean.zip = 0
  BY CleanRow DEF IdleClean
<1>5. CASE MarkExpired(c)
  <2>1. PICK q \in {IdleClean, [clean[c] EXCEPT !.pc = "unlink"]} : clean' = [clean EXCEPT ![c] = q]
    BY <1>5 DEF MarkExpired
  <2>2. q \in CleanRows /\ q.zip \in {0, clean[c].zip}
    BY <1>2, <1>3, <1>4 DEF CleanRows
  <2>3. SetExport("expired", export.zip) /\ "expired" \in ExportStates
    BY <1>5 DEF MarkExpired, ExportStates
  <2>4. QED
    BY <1>1, <1>2, <2>1, <2>2, <2>3, CleanRowStep
<1>6. CASE Unlink(c)
  <2>1. PICK q : q = [clean[c] EXCEPT !.pc = "delete"]
    OBVIOUS
  <2>2. q \in CleanRows /\ q.zip = clean[c].zip
    BY <1>2, <1>3, <2>1 DEF CleanRows
  <2>3. clean' = [clean EXCEPT ![c] = q] /\ SetExport(export.state, 0)
    BY <1>6, <2>1 DEF Unlink
  <2>4. QED
    BY <1>1, <1>2, <2>2, <2>3, CleanRowStep
<1>7. CASE Relink(c)
  <2>1. clean' = [clean EXCEPT ![c] = IdleClean]
    BY <1>7 DEF Relink
  <2>2. CASE LiveZip(clean[c].zip)
    <3>1. SetExport(export.state, clean[c].zip)
      BY <1>7, <2>2 DEF Relink
    <3>2. QED
      BY <1>1, <1>2, <1>4, <2>1, <2>2, <3>1, CleanRowStep
  <2>3. CASE ~LiveZip(clean[c].zip)
    <3>1. UNCHANGED export
      BY <1>7, <2>3 DEF Relink
    <3>2. export'.zip # 0 => LiveZip(export.zip)'
      BY <1>1, <3>1 DEF ExportIInv, LiveZip
    <3>3. /\ zips' \in [Zips -> ZipRows]
          /\ (clean[c].zip \in Zips => zips'[clean[c].zip].state # "none")
          /\ export' \in ExportRows
      BY <1>1, <3>1, CleanRow
    <3>4. QED
      BY <1>1, <1>4, <2>1, <3>1, <3>2, <3>3, CleanStep
  <2>4. QED
    BY <2>2, <2>3
<1>8. QED
  BY <1>5, <1>6, <1>7

\* delete_temporary: what the export points to keeps its row.
LEMMA DeleteZipKeeps ==
    ASSUME ExportIInv, NEW c \in Cleaners, DeleteZip(c)
    PROVE  ExportIInv'
<1>1. PICK z : z = clean[c].zip
  OBVIOUS
<1>2. late /\ UNCHANGED <<export, item, source, compose, late, job>>
  BY CleanRow DEF Cleaning, DeleteZip
<1>3. PICK q \in {IdleClean, [clean[c] EXCEPT !.pc = "relink"]} : clean' = [clean EXCEPT ![c] = q]
  BY DEF DeleteZip
<1>4. q \in CleanRows /\ q.zip \in {0, clean[c].zip}
  BY CleanRow DEF CleanRows, IdleClean
<1>5. PICK zz \in [Zips -> ZipRows] : zz = zips
  BY CleanRow
<1>6. \/ UNCHANGED zips
      \/ LiveZip(z) /\ export.zip # z /\ zips' = [zips EXCEPT ![z] = [NoZip EXCEPT !.state = "deleted"]]
      \/ LiveZip(z) /\ zips' = [zips EXCEPT ![z].state = "hollow"]
  BY <1>1 DEF DeleteZip
<1>7. /\ zips' \in [Zips -> ZipRows] /\ \A y \in Zips : y # z => zips'[y] = zips[y]
      /\ (z \in Zips => zips'[z].state # "none")
      /\ (export.zip # 0 => LiveZip(export.zip)')
  <2>1. export.zip # 0 => LiveZip(export.zip)
    BY DEF ExportIInv
  <2>2. CASE UNCHANGED zips
    BY <1>1, <1>2, <1>5, <2>1, <2>2, CleanRow DEF LiveZip
  <2>3. CASE LiveZip(z) /\ export.zip # z /\ zips' = [zips EXCEPT ![z] = [NoZip EXCEPT !.state = "deleted"]]
    <3>1. PICK row \in ZipRows : row = [NoZip EXCEPT !.state = "deleted"] /\ row.state = "deleted"
      <4>1. NoZip \in ZipRows
        BY DEF NoZip, ZipRows
      <4>2. [NoZip EXCEPT !.state = "deleted"] \in ZipRows
        BY <4>1 DEF ZipRows
      <4>3. [NoZip EXCEPT !.state = "deleted"].state = "deleted"
        BY <4>1 DEF ZipRows
      <4>4. QED
        BY <4>2, <4>3
    <3>2. zips' \in [Zips -> ZipRows] /\ zips'[z] = row /\ \A y \in Zips : y # z => zips'[y] = zips[y]
      BY <1>5, <2>3, <3>1 DEF LiveZip
    <3>3. QED
      BY <1>2, <2>1, <2>3, <3>1, <3>2 DEF LiveZip
  <2>4. CASE LiveZip(z) /\ zips' = [zips EXCEPT ![z].state = "hollow"]
    <3>1. PICK row \in ZipRows : row = [zips[z] EXCEPT !.state = "hollow"] /\ row.state = "hollow"
      <4>1. PICK old \in ZipRows : old = zips[z]
        BY <1>5, <2>4 DEF LiveZip
      <4>2. [old EXCEPT !.state = "hollow"] \in ZipRows
        BY DEF ZipRows
      <4>3. [old EXCEPT !.state = "hollow"].state = "hollow"
        BY DEF ZipRows
      <4>4. QED
        BY <4>1, <4>2, <4>3
    <3>2. zips' \in [Zips -> ZipRows] /\ zips'[z] = row /\ \A y \in Zips : y # z => zips'[y] = zips[y]
      BY <1>5, <2>4, <3>1 DEF LiveZip
    <3>3. QED
      BY <1>2, <2>1, <2>4, <3>1, <3>2 DEF LiveZip
  <2>5. QED
    BY <1>6, <2>2, <2>3, <2>4
<1>8. export' \in ExportRows /\ export'.zip = export.zip
  BY <1>2, CleanRow
<1>9. QED
  BY <1>1, <1>2, <1>3, <1>4, <1>7, <1>8, CleanStep

\* Time and the loss of a source touch neither composers, cleaners nor ZIPs.
LEMMA WorldKeeps ==
    ASSUME ExportIInv, TimePasses \/ \E i \in Items : LoseSource(i)
    PROVE  ExportIInv'
<1>1. UNCHANGED <<export, item, zips, compose, clean, job>> /\ late' \in BOOLEAN /\ (late => late')
  BY DEF TimePasses, LoseSource, ExportIInv, ExportTyped
<1>2. source' \in [Items -> {"ok", "none", "gone", "altered"}]
  BY DEF TimePasses, LoseSource, ExportIInv, ExportTyped
<1>3. ExportTyped'
  BY <1>1, <1>2 DEF ExportIInv, ExportTyped, JobTypeOK
<1>4. \A w \in Workers : Collected(compose[w])' /\ Unpublished(w)'
  BY <1>1 DEF ExportIInv, Collected, Unpublished, Complete
<1>5. \A c \in Cleaners : Cleaning(c)'
  BY <1>1 DEF ExportIInv, Cleaning
<1>6. QED
  BY <1>1, <1>3, <1>4, <1>5 DEF ExportIInv, LiveZip, Downloadable, Complete

\* A ZIP that can be downloaded is complete, and an export never points to a row that
\* is gone: nfx.exports with any number of workers in compose_export, cleaners in
\* cleanup_expired, crashes and lost sources.
THEOREM DownloadIsCompleteHolds == ExportSpec => []DownloadIsComplete
<1>1. JobInit /\ ExportInit => ExportIInv
  <2> SUFFICES ASSUME JobInit, ExportInit PROVE ExportIInv
    OBVIOUS
  <2>1. JobTypeOK
    BY DEF JobInit, JobTypeOK, NoJob
  <2>2. 0 \in 0..MaxZips
    BY ExportAssumption
  <2>3. IdleCompose \in ComposeRows /\ IdleClean \in CleanRows /\ NoZip \in ZipRows
    BY <2>2 DEF IdleCompose, ComposeRows, ComposePcs, IdleClean, CleanRows, NoZip, ZipRows
  <2>4. export \in ExportRows /\ export.zip = 0 /\ export.state = "none"
    BY <2>2 DEF ExportInit, ExportRows, ExportStates
  <2>5. ExportTyped
    BY <2>1, <2>3, <2>4 DEF ExportInit, ExportTyped
  <2>6. \A w \in Workers : Collected(compose[w]) /\ Unpublished(w)
    BY DEF ExportInit, IdleCompose, Collected, Unpublished
  <2>7. \A c \in Cleaners : Cleaning(c)
    BY DEF ExportInit, IdleClean, Cleaning
  <2>8. QED
    BY <2>4, <2>5, <2>6, <2>7 DEF ExportIInv, Downloadable
<1>2. ExportIInv /\ [ExportNext]_<<exportVars, jobVars>> => ExportIInv'
  <2> SUFFICES ASSUME ExportIInv, [ExportNext]_<<exportVars, jobVars>> PROVE ExportIInv'
    OBVIOUS
  <2>1. CASE RequestExport
    BY <2>1, RequestExportKeeps
  <2>2. CASE TimePasses \/ \E i \in Items : LoseSource(i)
    BY <2>2, WorldKeeps
  <2>3. CASE \E w \in Workers : \/ ClaimExport(w) \/ ReadExport(w) \/ ComposeExpired(w)
                                \/ MarkProcessing(w) \/ FinishPartial(w)
    BY <2>3, ClaimExportKeeps, ReadExportKeeps, ComposeExpiredKeeps, MarkProcessingKeeps,
       FinishPartialKeeps
  <2>4. CASE \E w \in Workers : \/ StoreZip(w) \/ PublishZip(w) \/ EndExportJob(w) \/ ComposeDies(w)
                                \/ \E i \in Items : AddItem(w, i)
    BY <2>4, StoreZipKeeps, PublishZipKeeps, EndExportKeeps, AddItemKeeps
  <2>5. CASE \E c \in Cleaners :
                \/ ListExpired(c) \/ MarkExpired(c) \/ Unlink(c) \/ DeleteZip(c) \/ Relink(c)
    BY <2>5, ListExpiredKeeps, CleanerWrites, DeleteZipKeeps
  <2>6. CASE UNCHANGED <<exportVars, jobVars>>
    <3>1. UNCHANGED <<export, item, source, zips, compose, clean, late, job>>
      BY <2>6 DEF exportVars, jobVars
    <3>2. ExportTyped'
      BY <3>1 DEF ExportIInv, ExportTyped, JobTypeOK
    <3>3. QED
      BY <3>1, <3>2 DEF ExportIInv, Collected, Unpublished, Complete, Cleaning, LiveZip, Downloadable
  <2>7. QED
    BY <2>1, <2>2, <2>3, <2>4, <2>5, <2>6 DEF ExportNext
<1>3. ExportIInv => DownloadIsComplete
  <2> SUFFICES ASSUME ExportIInv PROVE DownloadIsComplete
    OBVIOUS
  <2>1. JobTypeOK /\ ExportTypeOK
    BY DEF ExportIInv, ExportTyped, ExportTypeOK, ExportRows, ExportStates, ZipRows
  <2>2. QED
    BY <2>1 DEF ExportIInv, Complete, DownloadIsComplete
<1>4. QED
  BY <1>1, <1>2, <1>3, PTL DEF ExportSpec

----------------------------------------------------------------------------
(* Rendering.  Unless a lease ran out under a live worker there is one     *)
(* worker at most, and while it draws the document has no PDF to serve.    *)

RenderRows == [state : {"none", "pending", "finalized", "failed", "unsupported"},
               src : Sources \cup {0}, art : 0..MaxPdfs]
DrawPcs == {"idle", "read", "source", "revoked", "fail", "unsupported", "store", "finish", "mark",
            "end"}
DrawRows == [pc : DrawPcs, src : Sources \cup {0}, art : 0..MaxPdfs,
             kind : {"none", "success", "permanent", "temporary"}]

\* The tables of a render have their types.
RenderTyped ==
    /\ render \in RenderRows
    /\ xml \subseteq Sources
    /\ pdf \in [Pdfs -> {"none", "final", "lost"}]
    /\ actor \in BOOLEAN
    /\ overrun \in BOOLEAN
    /\ draw \in [Workers -> DrawRows]

Stored(p) == p \in Pdfs /\ pdf[p] # "none"

\* At most one PDF is readable, and what a finalized row names was stored.
PdfsOK ==
    /\ \A p, q \in Pdfs : pdf[p] = "final" /\ pdf[q] = "final" => p = q
    /\ render.state = "finalized" => Stored(render.art)

\* Past the look at the row and before the end.
AtWork == {"source", "revoked", "fail", "unsupported", "store", "finish", "mark"}
Lone(w) ==
    ~overrun /\ draw[w].pc # "idle" =>
        /\ \A v \in Workers \ {w} : draw[v].pc = "idle"
        /\ draw[w].pc \in AtWork => ~Served

RenderIInv ==
    /\ RenderTyped /\ PdfsOK
    /\ \A w \in Workers : Lone(w) /\ (draw[w].pc = "finish" => Stored(draw[w].art))

\* What a worker in render_pdf_job can do.
LEMMA DrawStep ==
    ASSUME RenderIInv, NEW w \in Workers, draw[w].pc # "idle",
           NEW q \in DrawRows, draw' = [draw EXCEPT ![w] = q], UNCHANGED <<xml, actor, overrun>>,
           render' \in RenderRows, pdf' \in [Pdfs -> {"none", "final", "lost"}],
           PdfsOK', \A p \in Pdfs : pdf[p] # "none" => pdf'[p] # "none",
           q.pc = "finish" => q.art \in Pdfs /\ pdf'[q.art] # "none",
           ~overrun /\ q.pc \in AtWork => ~Served'
    PROVE  RenderIInv'
<1>1. /\ draw' \in [Workers -> DrawRows] /\ draw'[w] = q
      /\ \A v \in Workers \ {w} : draw'[v] = draw[v]
  BY DEF RenderIInv, RenderTyped
<1>2. RenderTyped'
  BY <1>1 DEF RenderIInv, RenderTyped
<1>3. ~overrun => \A v \in Workers \ {w} : draw[v].pc = "idle"
  BY DEF RenderIInv, Lone
<1>4. ASSUME NEW v \in Workers
      PROVE  Lone(v)' /\ (draw'[v].pc = "finish" => Stored(draw[v].art)')
  <2>1. CASE v = w
    BY <1>1, <1>3, <2>1 DEF Lone, Stored
  <2>2. CASE v # w
    <3>1. draw'[v] = draw[v] /\ (draw[v].pc = "finish" => Stored(draw[v].art))
      BY <1>1, <2>2 DEF RenderIInv
    <3>2. Lone(v)'
      BY <1>3, <2>2, <3>1 DEF Lone
    <3>3. QED
      BY <3>1, <3>2 DEF Stored
  <2>3. QED
    BY <2>1, <2>2
<1>5. QED
  BY <1>2, <1>4 DEF RenderIInv

\* Facts about the state and about a worker's row.
LEMMA DrawRow ==
    ASSUME RenderIInv, NEW w \in Workers
    PROVE  /\ draw[w] \in DrawRows /\ render \in RenderRows /\ PdfsOK
           /\ pdf \in [Pdfs -> {"none", "final", "lost"}]
           /\ ~overrun /\ draw[w].pc \in AtWork => ~Served
           /\ draw[w].pc = "finish" => Stored(draw[w].art)
           /\ IdleDraw \in DrawRows /\ IdleDraw.pc = "idle"
           /\ \A k \in {"success", "permanent", "temporary"} :
                  /\ [IdleDraw EXCEPT !.pc = "end", !.kind = k] \in DrawRows
                  /\ [IdleDraw EXCEPT !.pc = "end", !.kind = k].pc = "end"
<1>1. 0 \in 0..MaxPdfs
  BY RenderAssumption
<1>2. IdleDraw \in DrawRows /\ IdleDraw.pc = "idle"
  BY <1>1 DEF IdleDraw, DrawRows, DrawPcs
<1>3. \A k \in {"success", "permanent", "temporary"} :
          /\ [IdleDraw EXCEPT !.pc = "end", !.kind = k] \in DrawRows
          /\ [IdleDraw EXCEPT !.pc = "end", !.kind = k].pc = "end"
  BY <1>2 DEF DrawRows, DrawPcs
<1>4. draw[w].pc \in AtWork => draw[w].pc # "idle"
  BY DEF AtWork
<1>5. QED
  BY <1>2, <1>3, <1>4 DEF RenderIInv, RenderTyped, Lone

\* A step that moves a worker and writes nothing else.
LEMMA QuietDraw ==
    ASSUME RenderIInv, NEW w \in Workers, draw[w].pc # "idle",
           NEW q \in DrawRows, draw' = [draw EXCEPT ![w] = q],
           UNCHANGED <<render, xml, pdf, actor, overrun>>,
           q.pc # "finish", ~overrun /\ q.pc \in AtWork => ~Served
    PROVE  RenderIInv'
<1>1. /\ render' \in RenderRows /\ pdf' \in [Pdfs -> {"none", "final", "lost"}] /\ PdfsOK'
      /\ \A p \in Pdfs : pdf[p] # "none" => pdf'[p] # "none"
  BY DrawRow DEF PdfsOK, Stored
<1>2. Served' <=> Served
  BY DEF Served, Valid
<1>3. QED
  BY <1>1, <1>2, DrawStep

\* A step that moves a worker and writes the row.
LEMMA LoudDraw ==
    ASSUME RenderIInv, NEW w \in Workers, draw[w].pc # "idle",
           NEW q \in DrawRows, draw' = [draw EXCEPT ![w] = q], UNCHANGED <<xml, pdf, actor, overrun>>,
           render' \in RenderRows, render'.state = "finalized" => Stored(render'.art),
           q.pc # "finish", ~overrun /\ q.pc \in AtWork => ~Served'
    PROVE  RenderIInv'
<1>1. /\ pdf' \in [Pdfs -> {"none", "final", "lost"}] /\ PdfsOK'
      /\ \A p \in Pdfs : pdf[p] # "none" => pdf'[p] # "none"
  BY DrawRow DEF PdfsOK, Stored
<1>2. QED
  BY <1>1, DrawStep

\* render_pdf_job looks at the row and the requester.
LEMMA ReadRenderKeeps ==
    ASSUME RenderIInv, NEW w \in Workers, ReadRender(w)
    PROVE  RenderIInv'
<1>1. draw[w].pc # "idle" /\ UNCHANGED <<render, xml, pdf, actor, overrun>>
  BY DEF ReadRender
<1>2. CASE Served
  <2>1. PICK q : q = [IdleDraw EXCEPT !.pc = "end", !.kind = "success"]
    OBVIOUS
  <2>2. q \in DrawRows /\ q.pc = "end"
    BY <2>1, DrawRow
  <2>3. draw' = [draw EXCEPT ![w] = q]
    BY <1>2, <2>1 DEF ReadRender, EndDraw
  <2>4. q.pc \notin AtWork /\ q.pc # "finish"
    BY <2>2 DEF AtWork
  <2>5. QED
    BY <1>1, <2>2, <2>3, <2>4, QuietDraw
<1>3. CASE ~Served
  <2>1. PICK s \in Sources \cup {0} : s = render.src
    BY DrawRow DEF RenderRows
  <2>2. PICK pc \in {"source", "revoked"} :
             draw' = [draw EXCEPT ![w] = [draw[w] EXCEPT !.pc = pc, !.src = s]]
    BY <1>3, <2>1 DEF ReadRender
  <2>3. PICK q : q = [draw[w] EXCEPT !.pc = pc, !.src = s]
    OBVIOUS
  <2>4. q \in DrawRows /\ q.pc = pc
    BY <2>3, DrawRow DEF DrawRows, DrawPcs
  <2>5. QED
    BY <1>1, <1>3, <2>2, <2>3, <2>4, QuietDraw
<1>4. QED
  BY <1>2, <1>3

\* The XML is read, verified and drawn.
LEMMA DrawPdfKeeps ==
    ASSUME RenderIInv, NEW w \in Workers, DrawPdf(w)
    PROVE  RenderIInv'
<1>1. draw[w].pc = "source" /\ UNCHANGED <<render, xml, pdf, actor, overrun>>
  BY DEF DrawPdf
<1>2. PICK pc \in {"unsupported", "store", "fail"} : draw' = [draw EXCEPT ![w] = [draw[w] EXCEPT !.pc = pc]]
  BY DEF DrawPdf, DrawOutcome
<1>3. PICK q : q = [draw[w] EXCEPT !.pc = pc]
  OBVIOUS
<1>4. q \in DrawRows /\ q.pc = pc
  BY <1>3, DrawRow DEF DrawRows, DrawPcs
<1>5. ~overrun => ~Served
  BY <1>1, DrawRow DEF AtWork
<1>6. QED
  BY <1>1, <1>2, <1>3, <1>4, <1>5, QuietDraw

\* The PDF is stored under the one key, or the owner of the key answers.
LEMMA StorePdfKeeps ==
    ASSUME RenderIInv, NEW w \in Workers, StorePdf(w)
    PROVE  RenderIInv'
<1>1. draw[w].pc = "store" /\ UNCHANGED <<render, xml, actor, overrun>>
  BY DEF StorePdf
<1>2. ~overrun => ~Served
  BY <1>1, DrawRow DEF AtWork
<1>3. PICK owner : owner = {p \in Pdfs : pdf[p] = "final"}
  OBVIOUS
<1>4. PICK free \in SUBSET Nat : free = {p \in Pdfs : pdf[p] = "none"}
  <2>1. \A p \in Pdfs : p \in Nat
    BY RenderAssumption DEF Pdfs
  <2>2. {p \in Pdfs : pdf[p] = "none"} \in SUBSET Nat
    BY <2>1
  <2>3. QED
    BY <2>2
<1>5. \/ /\ owner = {} /\ free # {} /\ pdf' = [pdf EXCEPT ![Min(free)] = "final"]
         /\ draw' = [draw EXCEPT ![w] = [draw[w] EXCEPT !.pc = "finish", !.art = Min(free)]]
      \/ /\ UNCHANGED pdf
         /\ \E p \in owner : draw' = [draw EXCEPT ![w] = [draw[w] EXCEPT !.pc = "finish", !.art = p]]
      \/ /\ UNCHANGED pdf
         /\ draw' = [draw EXCEPT ![w] = [draw[w] EXCEPT !.pc = "fail"]]
  BY <1>3, <1>4 DEF StorePdf
<1>6. \A p \in Pdfs : p \in 0..MaxPdfs
  BY RenderAssumption DEF Pdfs
<1>7. CASE /\ owner = {} /\ free # {} /\ pdf' = [pdf EXCEPT ![Min(free)] = "final"]
           /\ draw' = [draw EXCEPT ![w] = [draw[w] EXCEPT !.pc = "finish", !.art = Min(free)]]
  <2>1. PICK p \in Pdfs : p = Min(free) /\ pdf[p] = "none"
    <3>1. Min(free) \in free
      BY <1>7, LeastIsMember
    <3>2. QED
      BY <1>4, <3>1
  <2>2. PICK q : q = [draw[w] EXCEPT !.pc = "finish", !.art = p]
    OBVIOUS
  <2>3. q \in DrawRows /\ q.pc = "finish" /\ q.art = p
    BY <1>6, <2>2, DrawRow DEF DrawRows, DrawPcs
  <2>4. /\ pdf' \in [Pdfs -> {"none", "final", "lost"}] /\ pdf'[p] = "final"
        /\ \A y \in Pdfs \ {p} : pdf'[y] = pdf[y]
    BY <1>7, <2>1, DrawRow
  <2>5. \A y \in Pdfs : pdf'[y] = "final" => y = p
    BY <1>3, <1>7, <2>4
  <2>6. PdfsOK'
    <3>1. render.state = "finalized" => Stored(render.art)'
      BY <1>1, <2>1, <2>4, DrawRow DEF PdfsOK, Stored
    <3>2. QED
      BY <1>1, <2>5, <3>1 DEF PdfsOK
  <2>7. Served' => Served
    <3>1. render.state = "finalized" => render.art # p
      BY <2>1, DrawRow DEF PdfsOK, Stored
    <3>2. QED
      BY <1>1, <2>4, <3>1 DEF Served, Valid
  <2>8. draw' = [draw EXCEPT ![w] = q]
    BY <1>7, <2>1, <2>2
  <2>9. \A y \in Pdfs : pdf[y] # "none" => pdf'[y] # "none"
    BY <2>1, <2>4
  <2>10. QED
    BY <1>1, <1>2, <2>3, <2>4, <2>6, <2>7, <2>8, <2>9, DrawRow, DrawStep
<1>8. CASE /\ UNCHANGED pdf
           /\ \E p \in owner : draw' = [draw EXCEPT ![w] = [draw[w] EXCEPT !.pc = "finish", !.art = p]]
  <2>1. PICK p \in Pdfs : /\ pdf[p] = "final"
                          /\ draw' = [draw EXCEPT ![w] = [draw[w] EXCEPT !.pc = "finish", !.art = p]]
    BY <1>3, <1>8
  <2>2. PICK q : q = [draw[w] EXCEPT !.pc = "finish", !.art = p]
    OBVIOUS
  <2>3. q \in DrawRows /\ q.pc = "finish" /\ q.art = p
    BY <1>6, <2>2, DrawRow DEF DrawRows, DrawPcs
  <2>4. pdf'[p] # "none" /\ (Served' <=> Served) /\ PdfsOK'
    BY <1>1, <1>8, <2>1, DrawRow DEF Served, Valid, PdfsOK, Stored
  <2>5. pdf' \in [Pdfs -> {"none", "final", "lost"}] /\ \A y \in Pdfs : pdf[y] # "none" => pdf'[y] # "none"
    BY <1>8, DrawRow
  <2>6. draw' = [draw EXCEPT ![w] = q]
    BY <2>1, <2>2
  <2>7. QED
    BY <1>1, <1>2, <2>3, <2>4, <2>5, <2>6, DrawRow, DrawStep
<1>9. CASE UNCHANGED pdf /\ draw' = [draw EXCEPT ![w] = [draw[w] EXCEPT !.pc = "fail"]]
  <2>1. PICK q : q = [draw[w] EXCEPT !.pc = "fail"]
    OBVIOUS
  <2>2. q \in DrawRows /\ q.pc = "fail"
    BY <2>1, DrawRow DEF DrawRows, DrawPcs
  <2>3. QED
    BY <1>1, <1>2, <1>9, <2>1, <2>2, QuietDraw
<1>10. QED
  BY <1>5, <1>7, <1>8, <1>9

\* The last transaction of a successful render.
LEMMA FinishRenderKeeps ==
    ASSUME RenderIInv, NEW w \in Workers, FinishRender(w)
    PROVE  RenderIInv'
<1>1. draw[w].pc = "finish" /\ UNCHANGED <<xml, pdf, actor, overrun>>
  BY DEF FinishRender
<1>2. PICK q : q = [IdleDraw EXCEPT !.pc = "end", !.kind = "success"]
  OBVIOUS
<1>3. q \in DrawRows /\ q.pc \notin AtWork /\ q.pc # "finish"
  BY <1>2, DrawRow DEF AtWork
<1>4. draw' = [draw EXCEPT ![w] = q]
  BY <1>2 DEF FinishRender, EndDraw
<1>5. PICK p \in 0..MaxPdfs : p = draw[w].art /\ Stored(p)
  BY <1>1, DrawRow DEF DrawRows
<1>6. render' \in {render, [render EXCEPT !.state = "finalized", !.art = p]}
  BY <1>5 DEF FinishRender
<1>7. render' \in RenderRows /\ (render'.state = "finalized" => Stored(render'.art))
  <2>1. CASE render' = render
    BY <2>1, DrawRow DEF PdfsOK
  <2>2. CASE render' = [render EXCEPT !.state = "finalized", !.art = p]
    <3>1. render' \in RenderRows /\ render'.art = p
      BY <2>2, DrawRow DEF RenderRows
    <3>2. QED
      BY <1>5, <3>1
  <2>3. QED
    BY <1>6, <2>1, <2>2
<1>8. QED
  BY <1>1, <1>3, <1>4, <1>7, LoudDraw

\* What a failing worker writes: never over a finalized row, unless the layout is
\* unsupported.
LEMMA FailureWrites ==
    ASSUME RenderIInv, NEW w \in Workers, NEW s \in {"failed", "unsupported"},
           render' \in {render, [render EXCEPT !.state = s]}
    PROVE  render' \in RenderRows /\ (render'.state = "finalized" => Stored(render'.art) /\ render' = render)
<1>1. CASE render' = render
  BY <1>1, DrawRow DEF PdfsOK
<1>2. CASE render' = [render EXCEPT !.state = s]
  BY <1>2, DrawRow DEF RenderRows
<1>3. QED
  BY <1>1, <1>2

\* _failure_state.
LEMMA FailureStateKeeps ==
    ASSUME RenderIInv, NEW w \in Workers, FailureState(w)
    PROVE  RenderIInv'
<1>1. draw[w].pc \in {"fail", "revoked", "unsupported"} /\ UNCHANGED <<xml, pdf, actor, overrun>>
  BY DEF FailureState
<1>2. render' \in RenderRows /\ (render'.state = "finalized" => Stored(render'.art) /\ render' = render)
  <2>1. render' \in {render, [render EXCEPT !.state = "failed"]}
    BY DEF FailureState
  <2>2. QED
    BY <2>1, FailureWrites
<1>3. ~overrun => ~Served'
  <2>1. ~overrun => ~Served
    BY <1>1, DrawRow DEF AtWork
  <2>2. Served' => Served
    BY <1>1, <1>2 DEF Served, Valid
  <2>3. QED
    BY <2>1, <2>2
<1>4. PICK q \in DrawRows : q.pc \in {"mark", "end"} /\ draw' = [draw EXCEPT ![w] = q]
  <2>1. CASE draw[w].pc = "unsupported"
    <3>1. PICK q : q = [draw[w] EXCEPT !.pc = "mark"]
      OBVIOUS
    <3>2. q \in DrawRows /\ q.pc = "mark"
      BY <3>1, DrawRow DEF DrawRows, DrawPcs
    <3>3. draw' = [draw EXCEPT ![w] = q]
      BY <2>1, <3>1 DEF FailureState
    <3>4. QED
      BY <3>2, <3>3
  <2>2. CASE draw[w].pc # "unsupported"
    <3>1. PICK k \in {"permanent", "temporary"} : EndDraw(w, k)
      BY <2>2 DEF FailureState
    <3>2. PICK q : q = [IdleDraw EXCEPT !.pc = "end", !.kind = k]
      OBVIOUS
    <3>3. q \in DrawRows /\ q.pc = "end"
      BY <3>2, DrawRow
    <3>4. QED
      BY <3>1, <3>2, <3>3 DEF EndDraw
  <2>3. QED
    BY <2>1, <2>2
<1>5. QED
  BY <1>1, <1>2, <1>3, <1>4, LoudDraw

\* An unsupported layout is written unconditionally.
LEMMA MarkUnsupportedKeeps ==
    ASSUME RenderIInv, NEW w \in Workers, MarkUnsupported(w)
    PROVE  RenderIInv'
<1>1. draw[w].pc = "mark" /\ UNCHANGED <<xml, pdf, actor, overrun>>
  BY DEF MarkUnsupported
<1>2. PICK q : q = [IdleDraw EXCEPT !.pc = "end", !.kind = "success"]
  OBVIOUS
<1>3. q \in DrawRows /\ q.pc \notin AtWork /\ q.pc # "finish"
  BY <1>2, DrawRow DEF AtWork
<1>4. draw' = [draw EXCEPT ![w] = q]
  BY <1>2 DEF MarkUnsupported, EndDraw
<1>5. render' \in RenderRows /\ (render'.state = "finalized" => Stored(render'.art))
  BY FailureWrites DEF MarkUnsupported
<1>6. QED
  BY <1>1, <1>3, <1>4, <1>5, LoudDraw

\* The handler ends, or its worker.
LEMMA EndDrawKeeps ==
    ASSUME RenderIInv, NEW w \in Workers, EndRenderJob(w) \/ DrawDies(w)
    PROVE  RenderIInv'
<1>1. /\ draw[w].pc # "idle" /\ UNCHANGED <<render, xml, pdf, actor, overrun>>
      /\ draw' = [draw EXCEPT ![w] = IdleDraw]
  BY DEF EndRenderJob, DrawDies
<1>2. IdleDraw \in DrawRows /\ IdleDraw.pc \notin AtWork /\ IdleDraw.pc # "finish"
  BY DrawRow DEF AtWork
<1>3. QED
  BY <1>1, <1>2, QuietDraw

\* A claim: the worker is alone, or a lease has run out.
LEMMA ClaimRenderKeeps ==
    ASSUME RenderIInv, NEW w \in Workers, ClaimRender(w)
    PROVE  RenderIInv'
<1>1. UNCHANGED <<render, xml, pdf, actor>> /\ overrun' = (overrun \/ Drawing # {})
  BY DEF ClaimRender, Claim
<1>2. PICK q : q = [draw[w] EXCEPT !.pc = "read"]
  OBVIOUS
<1>3. q \in DrawRows /\ q.pc = "read"
  BY <1>2, DrawRow DEF DrawRows, DrawPcs
<1>4. draw' = [draw EXCEPT ![w] = q]
  BY <1>2 DEF ClaimRender
<1>5. /\ draw' \in [Workers -> DrawRows] /\ draw'[w] = q
      /\ \A v \in Workers \ {w} : draw'[v] = draw[v]
  BY <1>3, <1>4 DEF RenderIInv, RenderTyped
<1>6. overrun' \in BOOLEAN
  BY <1>1
<1>7. ~overrun' => \A v \in Workers : draw[v].pc = "idle"
  BY <1>1 DEF Drawing
<1>8. RenderTyped' /\ PdfsOK'
  BY <1>1, <1>5, <1>6 DEF RenderIInv, RenderTyped, PdfsOK, Stored
<1>9. ASSUME NEW v \in Workers
      PROVE  Lone(v)' /\ (draw'[v].pc = "finish" => Stored(draw[v].art)')
  <2>1. CASE v = w
    BY <1>3, <1>5, <1>7, <2>1 DEF Lone, AtWork
  <2>2. CASE v # w
    <3>1. draw'[v] = draw[v] /\ (draw[v].pc = "finish" => Stored(draw[v].art))
      BY <1>5, <2>2 DEF RenderIInv
    <3>2. QED
      BY <1>1, <1>7, <3>1 DEF Lone, Stored
  <2>3. QED
    BY <2>1, <2>2
<1>10. QED
  BY <1>8, <1>9 DEF RenderIInv

\* Requests, lost artifacts and a deactivated requester give nobody a PDF to serve.
LEMMA OutsideDraw ==
    ASSUME RenderIInv, UNCHANGED <<draw, overrun>>, RenderTyped', PdfsOK', Served' => Served,
           \A p \in Pdfs : pdf[p] # "none" => pdf'[p] # "none"
    PROVE  RenderIInv'
BY DEF RenderIInv, Lone, Stored

\* request_render.
LEMMA RequestRenderKeeps ==
    ASSUME RenderIInv, RequestRender
    PROVE  RenderIInv'
<1>1. UNCHANGED <<xml, pdf, draw, actor, overrun>> /\ xml # {}
  BY DEF RequestRender
<1>2. PICK s \in Sources : s = VerifiedSource
  <2>1. xml \in SUBSET Sources /\ Sources \subseteq Nat
    BY RenderAssumption DEF RenderIInv, RenderTyped
  <2>2. xml \in SUBSET Nat
    BY <2>1
  <2>3. Min(xml) \in xml
    BY <1>1, <2>2, LeastIsMember
  <2>4. QED
    BY <2>1, <2>3 DEF VerifiedSource
<1>3. render' = [state |-> "pending", src |-> s, art |-> 0]
  BY <1>2 DEF RequestRender
<1>4. render' \in RenderRows /\ render'.state = "pending"
  <2>1. 0 \in 0..MaxPdfs
    BY RenderAssumption
  <2>2. QED
    BY <1>3, <2>1 DEF RenderRows
<1>5. RenderTyped' /\ PdfsOK' /\ ~Served'
  BY <1>1, <1>4 DEF RenderIInv, RenderTyped, PdfsOK, Served, Valid
<1>6. QED
  BY <1>1, <1>5, OutsideDraw

\* An artifact is lost, an account deactivated.
LEMMA LossKeeps ==
    ASSUME RenderIInv,
           RevokeActor \/ (\E s \in Sources : LoseXml(s)) \/ (\E p \in Pdfs : LosePdf(p))
    PROVE  RenderIInv'
<1>1. UNCHANGED <<render, draw, overrun>> /\ xml' \subseteq xml /\ actor' \in BOOLEAN
  BY DEF RevokeActor, LoseXml, LosePdf, RenderIInv, RenderTyped
<1>2. /\ pdf' \in [Pdfs -> {"none", "final", "lost"}]
      /\ \A p \in Pdfs : pdf'[p] = pdf[p] \/ pdf'[p] = "lost"
  BY DEF RevokeActor, LoseXml, LosePdf, RenderIInv, RenderTyped
<1>3. RenderTyped'
  BY <1>1, <1>2 DEF RenderIInv, RenderTyped
<1>4. \A p \in Pdfs : /\ pdf[p] # "none" => pdf'[p] # "none"
                      /\ pdf'[p] = "final" => pdf[p] = "final"
  BY <1>2
<1>5. PdfsOK'
  BY <1>1, <1>4 DEF RenderIInv, PdfsOK, Stored
<1>6. Served' => Served
  BY <1>1, <1>4 DEF Served, Valid
<1>7. QED
  BY <1>1, <1>3, <1>4, <1>5, <1>6, OutsideDraw

\* Every step of a render keeps the invariant.
LEMMA RenderNextKeeps ==
    ASSUME RenderIInv, [RenderNext]_<<renderVars, jobVars>>
    PROVE  RenderIInv'
<1>1. CASE RequestRender
  BY <1>1, RequestRenderKeeps
<1>2. CASE RevokeActor \/ (\E s \in Sources : LoseXml(s)) \/ (\E p \in Pdfs : LosePdf(p))
  BY <1>2, LossKeeps
<1>3. CASE \E w \in Workers : ClaimRender(w) \/ ReadRender(w) \/ DrawPdf(w) \/ StorePdf(w)
  BY <1>3, ClaimRenderKeeps, ReadRenderKeeps, DrawPdfKeeps, StorePdfKeeps
<1>4. CASE \E w \in Workers : \/ FinishRender(w) \/ FailureState(w) \/ MarkUnsupported(w)
                              \/ EndRenderJob(w) \/ DrawDies(w)
  BY <1>4, FinishRenderKeeps, FailureStateKeeps, MarkUnsupportedKeeps, EndDrawKeeps
<1>5. CASE UNCHANGED <<renderVars, jobVars>>
  <2>1. UNCHANGED <<render, xml, pdf, draw, actor, overrun>>
    BY <1>5 DEF renderVars, jobVars
  <2>2. RenderTyped' /\ PdfsOK' /\ (Served' <=> Served)
    BY <2>1 DEF RenderIInv, RenderTyped, PdfsOK, Stored, Served, Valid
  <2>3. QED
    BY <2>1, <2>2, OutsideDraw
<1>6. QED
  BY <1>1, <1>2, <1>3, <1>4, <1>5 DEF RenderNext

\* The invariant of nfx.documents.rendering.
THEOREM RenderInvariantHolds == RenderSpec => []RenderIInv
<1>1. JobInit /\ RenderInit => RenderIInv
  <2> SUFFICES ASSUME JobInit, RenderInit PROVE RenderIInv
    OBVIOUS
  <2>1. 0 \in 0..MaxPdfs
    BY RenderAssumption
  <2>2. IdleDraw \in DrawRows /\ IdleDraw.pc = "idle"
    BY <2>1 DEF IdleDraw, DrawRows, DrawPcs
  <2>3. render \in RenderRows /\ render.state = "none"
    BY <2>1 DEF RenderInit, RenderRows
  <2>4. RenderTyped /\ \A w \in Workers : draw[w].pc = "idle"
    BY <2>2, <2>3 DEF RenderInit, JobInit, RenderTyped
  <2>5. PdfsOK
    BY <2>3 DEF RenderInit, PdfsOK
  <2>6. QED
    BY <2>4, <2>5 DEF RenderIInv, Lone
<1>2. RenderIInv /\ [RenderNext]_<<renderVars, jobVars>> => RenderIInv'
  BY RenderNextKeeps
<1>3. QED
  BY <1>1, <1>2, PTL DEF RenderSpec

\* At most one PDF of a render is ever readable, and a finalized row names one that
\* was stored (begin and transmit under the one logical key), however many workers
\* draw it, crash and retry.
THEOREM RenderInvHolds == RenderSpec => []RenderInv
<1>1. RenderIInv => RenderInv
  <2> SUFFICES ASSUME RenderIInv PROVE RenderInv
    OBVIOUS
  <2>1. PICK S : S = {p \in Pdfs : pdf[p] = "final"}
    OBVIOUS
  <2>2. Cardinality(S) <= 1
    <3>1. CASE S = {}
      <4>1. Cardinality(S) = 0
        BY <3>1, FS_EmptySet
      <4>2. QED
        BY <4>1
    <3>2. CASE S # {}
      <4>1. PICK p \in S : S = {p}
        BY <2>1, <3>2 DEF RenderIInv, PdfsOK
      <4>2. Cardinality(S) = 1
        BY <4>1, FS_Singleton
      <4>3. QED
        BY <4>2
    <3>3. QED
      BY <3>1, <3>2
  <2>3. RenderTypeOK
    BY DEF RenderIInv, RenderTyped, RenderTypeOK, RenderRows
  <2>4. QED
    BY <2>1, <2>2, <2>3 DEF RenderInv, RenderIInv, PdfsOK, Stored
<1>2. QED
  BY <1>1, RenderInvariantHolds, PTL

\* A PDF that is served stays served (FinishRender and _failure_state leave a valid row
\* alone, request_render does not start over), unless two workers ran at once; and no
\* failure ever replaces a finalized row.
THEOREM ServedStaysHolds == RenderSpec => ServedStays
<1> DEFINE Stays == /\ Served /\ ~overrun /\ pdf'[render.art] = "final" => render' = render
                    /\ render.state = "finalized" => render'.state # "failed"
<1>1. RenderIInv /\ [RenderNext]_<<renderVars, jobVars>> => [Stays]_renderVars
  <2> SUFFICES ASSUME RenderIInv, RenderNext PROVE Stays
    BY DEF renderVars, jobVars
  <2>1. render \in RenderRows
    BY DEF RenderIInv, RenderTyped
  <2>2. CASE UNCHANGED render
    BY <2>1, <2>2 DEF RenderRows
  <2>3. CASE RequestRender
    BY <2>3 DEF RequestRender
  <2>4. ASSUME NEW w \in Workers, FinishRender(w) PROVE Stays
    <3>1. CASE Served
      BY <2>2, <2>4, <3>1 DEF FinishRender
    <3>2. CASE ~Served
      <4>1. render'.state = "finalized"
        BY <2>1, <2>4, <3>2 DEF FinishRender, RenderRows
      <4>2. QED
        BY <3>2, <4>1
    <3>3. QED
      BY <3>1, <3>2
  <2>5. ASSUME NEW w \in Workers, FailureState(w) PROVE Stays
    <3>1. render.state = "finalized" => render' = render
      BY <2>5 DEF FailureState
    <3>2. Served => render.state = "finalized"
      BY DEF Served, Valid
    <3>3. QED
      BY <3>1, <3>2
  <2>6. ASSUME NEW w \in Workers, MarkUnsupported(w) PROVE Stays
    <3>1. ~overrun => ~Served
      BY <2>6, DrawRow DEF MarkUnsupported, AtWork
    <3>2. render'.state = "unsupported"
      BY <2>1, <2>6 DEF MarkUnsupported, RenderRows
    <3>3. QED
      BY <3>1, <3>2
  <2>7. UNCHANGED render \/ RequestRender \/
        \E w \in Workers : FinishRender(w) \/ FailureState(w) \/ MarkUnsupported(w)
    BY DEF RenderNext, RevokeActor, ClaimRender, ReadRender, DrawPdf, StorePdf, EndRenderJob, DrawDies,
           LoseXml, LosePdf
  <2>8. QED
    BY <2>2, <2>3, <2>4, <2>5, <2>6, <2>7
<1>2. QED
  BY <1>1, RenderInvariantHolds, PTL DEF RenderSpec, ServedStays

----------------------------------------------------------------------------
(* Follow-up of an NF-e.  A worker past the gate of handle_xml_job has a   *)
(* permission; one that sends a manifestation, alone, sends an open one.   *)

ActPcs == {"idle", "science", "xml", "manifest", "enqueue", "original", "parse", "send", "save", "end"}
ActRows == [pc : ActPcs, j : JobIds \cup {"none"},
            kind : {"none", "success", "cooldown", "temporary", "permanent", "partial", "raised"},
            reply : Replies \cup {"none", "rejected", "orphan"}]

\* What a worker with row q relies on; manifest is the only job the last three serve.
Gate(q) ==
    /\ q.pc \in {"original", "parse"} => permit
    /\ q.pc = "parse" => "original" \in evidence
    /\ q.pc \in {"manifest", "send", "save"} => q.j = "manifest"

\* Unless a lease ran out under a live worker, w is alone on its job.
LoneAct(w) ==
    ~overrun /\ act[w].pc # "idle" =>
        /\ \A v \in Workers \ {w} : act[v].pc # "idle" => act[v].j # act[w].j
        /\ act[w].pc \in {"send", "save"} => manifest \notin Settled \cup {"accepted"}

FollowIInv ==
    /\ FollowTypeOK
    /\ act \in [Workers -> ActRows]
    /\ overrun \in BOOLEAN
    /\ evidence # {} => permit
    /\ "xml" \in evidence => "original" \in evidence
    /\ \A w \in Workers : Gate(act[w]) /\ LoneAct(w)

\* What a worker inside a handler can do.
LEMMA ActStep ==
    ASSUME FollowIInv, NEW w \in Workers, act[w].pc # "idle",
           NEW q \in ActRows, act' = [act EXCEPT ![w] = q], q.pc = "idle" \/ q.j = act[w].j,
           UNCHANGED overrun, FollowTypeOK', permit => permit', evidence \subseteq evidence',
           evidence' # {} => permit', "xml" \in evidence' => "original" \in evidence',
           manifest' # manifest => act[w].j = "manifest",
           Gate(q)', ~overrun /\ q.pc \in {"send", "save"} => manifest' \notin Settled \cup {"accepted"}
    PROVE  FollowIInv'
<1>1. /\ act' \in [Workers -> ActRows] /\ act'[w] = q
      /\ \A v \in Workers \ {w} : act'[v] = act[v]
  BY DEF FollowIInv
<1>2. Gate(act[w]) /\ LoneAct(w)
  BY DEF FollowIInv
<1>3. ASSUME NEW v \in Workers PROVE Gate(act[v])' /\ LoneAct(v)'
  <2>1. CASE v = w
    <3>1. Gate(act[v])'
      BY <1>1, <2>1 DEF Gate
    <3>2. LoneAct(v)'
      BY <1>1, <1>2, <2>1 DEF LoneAct
    <3>3. QED
      BY <3>1, <3>2
  <2>2. CASE v # w
    <3>1. act'[v] = act[v] /\ Gate(act[v]) /\ LoneAct(v)
      BY <1>1, <2>2 DEF FollowIInv
    <3>2. Gate(act[v])'
      BY <3>1 DEF Gate
    <3>3. ASSUME ~overrun', act'[v].pc # "idle"
          PROVE  /\ \A x \in Workers \ {v} : act'[x].pc # "idle" => act'[x].j # act'[v].j
                 /\ act'[v].pc \in {"send", "save"} => manifest' \notin Settled \cup {"accepted"}
      <4>1. act[v].pc # "idle" /\ ~overrun /\ act[v].j # act[w].j
        BY <1>2, <2>2, <3>1, <3>3 DEF LoneAct
      <4>2. ASSUME NEW x \in Workers \ {v}, act'[x].pc # "idle" PROVE act'[x].j # act'[v].j
        <5>1. CASE x = w
          BY <1>1, <3>1, <4>1, <4>2, <5>1
        <5>2. CASE x # w
          BY <1>1, <3>1, <4>1, <4>2, <5>2 DEF LoneAct
        <5>3. QED
          BY <5>1, <5>2
      <4>3. ASSUME act[v].pc \in {"send", "save"} PROVE manifest' \notin Settled \cup {"accepted"}
        <5>1. act[v].j = "manifest" /\ manifest \notin Settled \cup {"accepted"}
          BY <3>1, <4>1, <4>3 DEF Gate, LoneAct
        <5>2. manifest' = manifest
          BY <4>1, <5>1
        <5>3. QED
          BY <5>1, <5>2
      <4>4. QED
        BY <3>1, <4>2, <4>3
    <3>4. QED
      BY <3>2, <3>3 DEF LoneAct
  <2>3. QED
    BY <2>1, <2>2
<1>4. overrun' \in BOOLEAN
  BY DEF FollowIInv
<1>5. QED
  BY <1>1, <1>3, <1>4 DEF FollowIInv

\* What a worker was doing, and what it may be given to do.
LEMMA ActRow ==
    ASSUME FollowIInv, NEW w \in Workers
    PROVE  /\ act[w] \in ActRows /\ Gate(act[w]) /\ LoneAct(w)
           /\ IdleAct \in ActRows /\ IdleAct.pc = "idle"
           /\ \A pc \in ActPcs : /\ [act[w] EXCEPT !.pc = pc] \in ActRows
                                 /\ [act[w] EXCEPT !.pc = pc].pc = pc
                                 /\ [act[w] EXCEPT !.pc = pc].j = act[w].j
<1>1. act[w] \in ActRows /\ Gate(act[w]) /\ LoneAct(w)
  BY DEF FollowIInv
<1>2. IdleAct \in ActRows /\ IdleAct.pc = "idle"
  BY DEF IdleAct, ActRows, ActPcs
<1>3. \A pc \in ActPcs : /\ [act[w] EXCEPT !.pc = pc] \in ActRows
                         /\ [act[w] EXCEPT !.pc = pc].pc = pc
                         /\ [act[w] EXCEPT !.pc = pc].j = act[w].j
  BY <1>1 DEF ActRows
<1>4. QED
  BY <1>1, <1>2, <1>3

\* How a handler ends.
LEMMA ActEnds ==
    ASSUME FollowIInv, NEW w \in Workers,
           NEW kind \in {"success", "cooldown", "temporary", "permanent", "partial", "raised"},
           EndAct(w, kind)
    PROVE  \E q \in ActRows : q.pc = "end" /\ q.j = act[w].j /\ act' = [act EXCEPT ![w] = q]
<1>1. PICK q : q = [act[w] EXCEPT !.pc = "end", !.kind = kind]
  OBVIOUS
<1>2. q \in ActRows /\ q.pc = "end" /\ q.j = act[w].j
  <2>1. act[w] \in ActRows
    BY ActRow
  <2>2. QED
    BY <1>1, <2>1 DEF ActRows, ActPcs
<1>3. act' = [act EXCEPT ![w] = q]
  BY <1>1 DEF EndAct
<1>4. QED
  BY <1>2, <1>3

\* How it goes on.
LEMMA ActMoves ==
    ASSUME FollowIInv, NEW w \in Workers, NEW pc \in ActPcs, At(w, pc)
    PROVE  \E q \in ActRows : q.pc = pc /\ q.j = act[w].j /\ act' = [act EXCEPT ![w] = q]
<1>1. PICK q : q = [act[w] EXCEPT !.pc = pc]
  OBVIOUS
<1>2. q \in ActRows /\ q.pc = pc /\ q.j = act[w].j
  BY <1>1, ActRow
<1>3. act' = [act EXCEPT ![w] = q]
  BY <1>1 DEF At
<1>4. QED
  BY <1>2, <1>3

\* A transport's answer.
LEMMA AskTyped ==
    ASSUME FollowTypeOK, NEW w \in Workers, NEW op \in {"science", "manifest"}, NEW r \in Replies,
           Ask(w, op, r)
    PROVE  answer' \in [Workers -> [science : Replies \cup {"none"}, manifest : Replies \cup {"none"}]]
<1>1. PICK old \in [science : Replies \cup {"none"}, manifest : Replies \cup {"none"}] : old = answer[w]
  BY DEF FollowTypeOK
<1>2. [old EXCEPT ![op] = r] \in [science : Replies \cup {"none"}, manifest : Replies \cup {"none"}]
  <2>1. CASE op = "science"
    BY <2>1
  <2>2. CASE op = "manifest"
    BY <2>2
  <2>3. QED
    BY <2>1, <2>2
<1>3. answer' = [answer EXCEPT ![w] = [old EXCEPT ![op] = r]]
  BY <1>1 DEF Ask
<1>4. QED
  BY <1>2, <1>3 DEF FollowTypeOK

\* A step of a handler that archives nothing and settles nothing.
LEMMA QuietAct ==
    ASSUME FollowIInv, NEW w \in Workers, act[w].pc # "idle",
           NEW q \in ActRows, act' = [act EXCEPT ![w] = q], q.pc = "idle" \/ q.j = act[w].j,
           answer' \in [Workers -> [science : Replies \cup {"none"}, manifest : Replies \cup {"none"}]],
           UNCHANGED <<evidence, manifest, allowed, overrun>>, permit' \in BOOLEAN, permit => permit',
           Gate(q), ~overrun /\ q.pc \in {"send", "save"} => manifest \notin Settled \cup {"accepted"}
    PROVE  FollowIInv'
<1>1. FollowTypeOK'
  BY DEF FollowIInv, FollowTypeOK
<1>2. Gate(q)'
  BY DEF Gate
<1>3. QED
  BY <1>1, <1>2, ActStep DEF FollowIInv

\* Ends and waits rely on nothing.
LEMMA OpenGate ==
    ASSUME NEW q, q.pc \in {"idle", "end", "enqueue", "science", "xml"}
    PROVE  Gate(q) /\ q.pc \notin {"send", "save"}
BY DEF Gate

\* handle_science_job.
LEMMA HandleScienceKeeps ==
    ASSUME FollowIInv, NEW w \in Workers, HandleScience(w)
    PROVE  FollowIInv'
<1>1. act[w].pc # "idle" /\ UNCHANGED <<permit, evidence, manifest, allowed, overrun>>
  BY DEF HandleScience
<1>2. permit' \in BOOLEAN /\ FollowTypeOK
  BY <1>1 DEF FollowIInv, FollowTypeOK
<1>3. CASE EndAct(w, "permanent") /\ UNCHANGED answer
  <2>1. PICK q \in ActRows : q.pc = "end" /\ q.j = act[w].j /\ act' = [act EXCEPT ![w] = q]
    BY <1>3, ActEnds
  <2>2. answer' \in [Workers -> [science : Replies \cup {"none"}, manifest : Replies \cup {"none"}]]
    BY <1>2, <1>3 DEF FollowTypeOK
  <2>3. Gate(q) /\ q.pc \notin {"send", "save"}
    BY <2>1, OpenGate
  <2>4. QED
    BY <1>1, <1>2, <2>1, <2>2, <2>3, QuietAct
<1>4. CASE \E r \in Replies :
              /\ Ask(w, "science", r)
              /\ IF r = "success" THEN At(w, "enqueue") ELSE EndAct(w, ScienceOutcome(r))
  <2>1. PICK r \in Replies :
             /\ Ask(w, "science", r)
             /\ IF r = "success" THEN At(w, "enqueue") ELSE EndAct(w, ScienceOutcome(r))
    BY <1>4
  <2>2. PICK q \in ActRows : /\ q.pc \in {"end", "enqueue"} /\ q.j = act[w].j
                             /\ act' = [act EXCEPT ![w] = q]
    <3>1. CASE r = "success"
      BY <2>1, <3>1, ActMoves DEF ActPcs
    <3>2. CASE r # "success"
      <4>1. ScienceOutcome(r) \in {"success", "cooldown", "temporary", "permanent", "partial", "raised"}
        BY DEF ScienceOutcome
      <4>2. QED
        BY <2>1, <3>2, <4>1, ActEnds
    <3>3. QED
      BY <3>1, <3>2
  <2>3. answer' \in [Workers -> [science : Replies \cup {"none"}, manifest : Replies \cup {"none"}]]
    BY <1>2, <2>1, AskTyped
  <2>4. Gate(q) /\ q.pc \notin {"send", "save"}
    BY <2>2, OpenGate
  <2>5. QED
    BY <1>1, <1>2, <2>2, <2>3, <2>4, QuietAct
<1>5. QED
  BY <1>3, <1>4 DEF HandleScience

\* The retrieval is enqueued.
LEMMA EnqueueXmlKeeps ==
    ASSUME FollowIInv, NEW w \in Workers, EnqueueXml(w)
    PROVE  FollowIInv'
<1>1. act[w].pc # "idle" /\ UNCHANGED <<answer, permit, evidence, manifest, allowed, overrun>>
  BY DEF EnqueueXml
<1>2. PICK q \in ActRows : q.pc = "end" /\ q.j = act[w].j /\ act' = [act EXCEPT ![w] = q]
  BY ActEnds DEF EnqueueXml
<1>3. /\ answer' \in [Workers -> [science : Replies \cup {"none"}, manifest : Replies \cup {"none"}]]
      /\ permit' \in BOOLEAN
  BY <1>1 DEF FollowIInv, FollowTypeOK
<1>4. Gate(q) /\ q.pc \notin {"send", "save"}
  BY <1>2, OpenGate
<1>5. QED
  BY <1>1, <1>2, <1>3, <1>4, QuietAct

\* handle_xml_job's gate.
LEMMA HandleXmlKeeps ==
    ASSUME FollowIInv, NEW w \in Workers, HandleXml(w)
    PROVE  FollowIInv'
<1>1. act[w].pc # "idle" /\ UNCHANGED <<answer, permit, evidence, manifest, allowed, overrun>>
  BY DEF HandleXml
<1>2. PICK q \in ActRows : /\ q.pc \in {"original", "end"} /\ (q.pc = "original" => permit)
                           /\ q.j = act[w].j /\ act' = [act EXCEPT ![w] = q]
  <2>1. CASE EndAct(w, "permanent")
    BY <2>1, ActEnds
  <2>2. CASE At(w, "original") /\ permit
    BY <2>2, ActMoves DEF ActPcs
  <2>3. QED
    BY <2>1, <2>2 DEF HandleXml
<1>3. /\ answer' \in [Workers -> [science : Replies \cup {"none"}, manifest : Replies \cup {"none"}]]
      /\ permit' \in BOOLEAN
  BY <1>1 DEF FollowIInv, FollowTypeOK
<1>4. Gate(q) /\ q.pc \notin {"send", "save"}
  BY <1>2 DEF Gate
<1>5. QED
  BY <1>1, <1>2, <1>3, <1>4, QuietAct

\* The original, then the XML, is archived.
LEMMA StoreKeeps ==
    ASSUME FollowIInv, NEW w \in Workers, StoreOriginal(w) \/ StoreXml(w)
    PROVE  FollowIInv'
<1>1. /\ act[w].pc \in {"original", "parse"} /\ permit /\ (act[w].pc = "parse" => "original" \in evidence)
      /\ UNCHANGED <<answer, permit, manifest, allowed, overrun>>
  BY ActRow DEF StoreOriginal, StoreXml, Gate
<1>2. PICK q \in ActRows : /\ q.pc \in {"parse", "end"} /\ (q.pc = "parse" => "original" \in evidence')
                           /\ q.j = act[w].j /\ act' = [act EXCEPT ![w] = q]
  <2>1. CASE \E k \in {"permanent", "success"} : EndAct(w, k)
    BY <2>1, ActEnds
  <2>2. CASE At(w, "parse") /\ "original" \in evidence'
    BY <2>2, ActMoves DEF ActPcs
  <2>3. QED
    BY <2>1, <2>2 DEF StoreOriginal, StoreXml
<1>3. /\ evidence \subseteq evidence' /\ evidence' \subseteq {"original", "xml"}
      /\ ("xml" \in evidence' => "original" \in evidence')
  BY <1>1 DEF StoreOriginal, StoreXml, FollowIInv, FollowTypeOK
<1>4. FollowTypeOK'
  BY <1>1, <1>3 DEF FollowIInv, FollowTypeOK
<1>5. Gate(q)' /\ q.pc \notin {"send", "save"}
  BY <1>1, <1>2 DEF Gate
<1>6. QED
  BY <1>1, <1>2, <1>3, <1>4, <1>5, ActStep

\* handle_manifestation_job looks at the row: only an open one is sent.
LEMMA ReadManifestationKeeps ==
    ASSUME FollowIInv, NEW w \in Workers, ReadManifestation(w)
    PROVE  FollowIInv'
<1>1. /\ act[w].pc = "manifest" /\ act[w].j = "manifest"
      /\ UNCHANGED <<answer, permit, evidence, manifest, allowed, overrun>>
  BY ActRow DEF ReadManifestation, Gate
<1>2. PICK q \in ActRows : /\ q.pc \in {"send", "end"} /\ q.j = act[w].j
                           /\ (q.pc = "send" => manifest \notin Settled \cup {"accepted"})
                           /\ act' = [act EXCEPT ![w] = q]
  <2>1. CASE \E k \in {"permanent", "success"} : EndAct(w, k)
    BY <2>1, ActEnds
  <2>2. CASE At(w, "send") /\ manifest \notin Settled \cup {"accepted"}
    BY <2>2, ActMoves DEF ActPcs
  <2>3. QED
    BY <2>1, <2>2 DEF ReadManifestation
<1>3. /\ answer' \in [Workers -> [science : Replies \cup {"none"}, manifest : Replies \cup {"none"}]]
      /\ permit' \in BOOLEAN
  BY <1>1 DEF FollowIInv, FollowTypeOK
<1>4. Gate(q) /\ q.pc # "save"
  BY <1>1, <1>2 DEF Gate
<1>5. QED
  BY <1>1, <1>2, <1>3, <1>4, QuietAct

\* The manifestation is sent.
LEMMA SendManifestationKeeps ==
    ASSUME FollowIInv, NEW w \in Workers, SendManifestation(w)
    PROVE  FollowIInv'
<1>1. /\ act[w].pc = "send" /\ act[w].j = "manifest" /\ act[w] \in ActRows
      /\ (~overrun => manifest \notin Settled \cup {"accepted"})
      /\ UNCHANGED <<permit, evidence, manifest, allowed, overrun>>
  BY ActRow DEF SendManifestation, Gate, LoneAct
<1>2. permit' \in BOOLEAN /\ FollowTypeOK
  BY <1>1 DEF FollowIInv, FollowTypeOK
<1>3. PICK r \in Replies \cup {"rejected", "orphan"} :
           /\ act' = [act EXCEPT ![w] = [act[w] EXCEPT !.pc = "save", !.reply = r]]
           /\ UNCHANGED answer \/ (r \in Replies /\ Ask(w, "manifest", r))
  BY DEF SendManifestation
<1>4. PICK q : q = [act[w] EXCEPT !.pc = "save", !.reply = r]
  OBVIOUS
<1>5. q \in ActRows /\ q.pc = "save" /\ q.j = act[w].j
  BY <1>1, <1>4 DEF ActRows, ActPcs
<1>6. answer' \in [Workers -> [science : Replies \cup {"none"}, manifest : Replies \cup {"none"}]]
  <2>1. CASE UNCHANGED answer
    BY <1>2, <2>1 DEF FollowTypeOK
  <2>2. CASE r \in Replies /\ Ask(w, "manifest", r)
    BY <1>2, <2>2, AskTyped
  <2>3. QED
    BY <1>3, <2>1, <2>2
<1>7. Gate(q)
  BY <1>1, <1>5 DEF Gate
<1>8. QED
  BY <1>1, <1>2, <1>3, <1>4, <1>5, <1>6, <1>7, QuietAct

\* _save_manifestation_state.
LEMMA SaveManifestationKeeps ==
    ASSUME FollowIInv, NEW w \in Workers, SaveManifestation(w)
    PROVE  FollowIInv'
<1>1. /\ act[w].pc = "save" /\ act[w].j = "manifest"
      /\ UNCHANGED <<answer, permit, evidence, allowed, overrun>>
  BY ActRow DEF SaveManifestation, Gate
<1>2. PICK k \in {"success", "cooldown", "temporary", "permanent", "partial"} : EndAct(w, k)
  BY DEF SaveManifestation
<1>3. PICK q \in ActRows : q.pc = "end" /\ q.j = act[w].j /\ act' = [act EXCEPT ![w] = q]
  BY <1>2, ActEnds
<1>4. manifest' \in {"accepted", "cooldown", "retry", "denied", "blocked", "conflict", "quarantined"}
  BY DEF SaveManifestation, ManifestState
<1>5. FollowTypeOK'
  BY <1>1, <1>4 DEF FollowIInv, FollowTypeOK
<1>6. Gate(q)' /\ q.pc \notin {"send", "save"}
  BY <1>3 DEF Gate
<1>7. QED
  BY <1>1, <1>3, <1>5, <1>6, ActStep DEF FollowIInv

\* The handler ends, or the process.
LEMMA EndFollowUpKeeps ==
    ASSUME FollowIInv, NEW w \in Workers, EndFollowUp(w) \/ FollowUpDies(w)
    PROVE  FollowIInv'
<1>1. /\ act[w].pc # "idle" /\ act' = [act EXCEPT ![w] = IdleAct]
      /\ UNCHANGED <<evidence, manifest, allowed, overrun>>
  BY DEF EndFollowUp, FollowUpDies
<1>2. permit \in BOOLEAN /\ FollowTypeOK
  BY DEF FollowIInv, FollowTypeOK
<1>3. permit' \in BOOLEAN /\ (permit => permit')
  <2>1. CASE EndFollowUp(w)
    BY <1>2, <2>1 DEF EndFollowUp
  <2>2. CASE FollowUpDies(w)
    BY <1>2, <2>2 DEF FollowUpDies
  <2>3. QED
    BY <2>1, <2>2
<1>4. answer' \in [Workers -> [science : Replies \cup {"none"}, manifest : Replies \cup {"none"}]]
  <2>1. Unasked \in [science : Replies \cup {"none"}, manifest : Replies \cup {"none"}]
    BY DEF Unasked
  <2>2. UNCHANGED answer \/ answer' = [answer EXCEPT ![w] = Unasked]
    BY DEF EndFollowUp, FollowUpDies
  <2>3. QED
    BY <1>2, <2>1, <2>2 DEF FollowTypeOK
<1>5. IdleAct \in ActRows /\ IdleAct.pc = "idle" /\ Gate(IdleAct)
  BY ActRow, OpenGate DEF IdleAct
<1>6. QED
  BY <1>1, <1>3, <1>4, <1>5, QuietAct

\* A claim: the worker is alone on the job, or a lease has run out.
LEMMA ClaimFollowUpKeeps ==
    ASSUME FollowIInv, NEW w \in Workers, NEW j \in {"science", "xml", "manifest"}, ClaimFollowUp(w, j)
    PROVE  FollowIInv'
<1>1. /\ UNCHANGED <<answer, permit, evidence, manifest, allowed>>
      /\ overrun' = (overrun \/ ActiveOn(j) # {}) /\ act[w].pc = "idle"
  BY DEF ClaimFollowUp, Claim
<1>2. PICK q : q = [IdleAct EXCEPT !.pc = j, !.j = j]
  OBVIOUS
<1>3. q \in ActRows /\ q.pc = j /\ q.j = j
  <2>1. IdleAct \in ActRows
    BY ActRow
  <2>2. j \in ActPcs /\ j \in JobIds
    BY DEF ActPcs, JobIds
  <2>3. QED
    BY <1>2, <2>1, <2>2 DEF ActRows
<1>4. /\ act' \in [Workers -> ActRows] /\ act'[w] = q
      /\ \A v \in Workers \ {w} : act'[v] = act[v]
  BY <1>2, <1>3 DEF ClaimFollowUp, FollowIInv
<1>5. overrun' \in BOOLEAN /\ FollowTypeOK'
  BY <1>1 DEF FollowIInv, FollowTypeOK
<1>6. ~overrun' => ~overrun /\ \A v \in Workers : act[v].pc # "idle" => act[v].j # j
  BY <1>1 DEF ActiveOn
<1>7. ASSUME NEW v \in Workers PROVE Gate(act[v])' /\ LoneAct(v)'
  <2>1. CASE v = w
    <3>1. Gate(act[v])'
      BY <1>3, <1>4, <2>1 DEF Gate
    <3>2. LoneAct(v)'
      BY <1>3, <1>4, <1>6, <2>1 DEF LoneAct
    <3>3. QED
      BY <3>1, <3>2
  <2>2. CASE v # w
    <3>1. act'[v] = act[v] /\ Gate(act[v]) /\ LoneAct(v)
      BY <1>4, <2>2 DEF FollowIInv
    <3>2. Gate(act[v])'
      BY <1>1, <3>1 DEF Gate
    <3>3. LoneAct(v)'
      BY <1>1, <1>3, <1>4, <1>6, <3>1 DEF LoneAct
    <3>4. QED
      BY <3>2, <3>3
  <2>3. QED
    BY <2>1, <2>2
<1>8. QED
  BY <1>1, <1>4, <1>5, <1>7 DEF FollowIInv

\* Requests and a withdrawn permission disturb no handler; a manifestation is only
\* enqueued when there is none.
LEMMA OutsideAct ==
    ASSUME FollowIInv, EnqueueScience \/ EnqueueManifestation \/ Withdraw \/ UNCHANGED <<followVars, jobVars>>
    PROVE  FollowIInv'
<1>1. UNCHANGED <<act, answer, permit, evidence, overrun>> /\ allowed' \in BOOLEAN
  BY DEF EnqueueScience, EnqueueManifestation, Withdraw, followVars, jobVars, FollowIInv, FollowTypeOK
<1>2. manifest' = manifest \/ manifest' = "queued"
  BY DEF EnqueueScience, EnqueueManifestation, Withdraw, followVars
<1>3. FollowTypeOK'
  BY <1>1, <1>2 DEF FollowIInv, FollowTypeOK
<1>4. manifest \notin Settled \cup {"accepted"} => manifest' \notin Settled \cup {"accepted"}
  BY <1>2 DEF Settled
<1>5. ASSUME NEW w \in Workers PROVE Gate(act[w])' /\ LoneAct(w)'
  <2>1. Gate(act[w]) /\ LoneAct(w)
    BY DEF FollowIInv
  <2>2. QED
    BY <1>1, <1>4, <2>1 DEF Gate, LoneAct
<1>6. QED
  BY <1>1, <1>3, <1>5 DEF FollowIInv

\* Every step of a follow-up keeps the invariant.
LEMMA FollowNextKeeps ==
    ASSUME FollowIInv, [ScienceNext \/ ManifestNext]_<<followVars, jobVars>>
    PROVE  FollowIInv'
<1>1. CASE EnqueueScience \/ EnqueueManifestation \/ Withdraw \/ UNCHANGED <<followVars, jobVars>>
  BY <1>1, OutsideAct
<1>2. CASE \E w \in Workers, j \in {"science", "xml", "manifest"} : ClaimFollowUp(w, j)
  BY <1>2, ClaimFollowUpKeeps
<1>3. CASE \E w \in Workers : \/ HandleScience(w) \/ EnqueueXml(w) \/ HandleXml(w)
                              \/ StoreOriginal(w) \/ StoreXml(w)
  BY <1>3, HandleScienceKeeps, EnqueueXmlKeeps, HandleXmlKeeps, StoreKeeps
<1>4. CASE \E w \in Workers : \/ ReadManifestation(w) \/ SendManifestation(w) \/ SaveManifestation(w)
                              \/ EndFollowUp(w) \/ FollowUpDies(w)
  BY <1>4, ReadManifestationKeeps, SendManifestationKeeps, SaveManifestationKeeps, EndFollowUpKeeps
<1>5. QED
  BY <1>1, <1>2, <1>3, <1>4 DEF ScienceNext, ManifestNext

\* The invariant of the follow-up jobs of nfx.adapters.nfe, Ciencia, retrieval and
\* manifestation of one document running side by side.
THEOREM FollowInvariantHolds == FollowSpec => []FollowIInv
<1>1. JobInit /\ FollowInit => FollowIInv
  <2> SUFFICES ASSUME JobInit, FollowInit PROVE FollowIInv
    OBVIOUS
  <2>1. IdleAct \in ActRows /\ IdleAct.pc = "idle"
    BY DEF IdleAct, ActRows, ActPcs
  <2>2. Unasked \in [science : Replies \cup {"none"}, manifest : Replies \cup {"none"}]
    BY DEF Unasked
  <2>3. FollowTypeOK
    BY <2>2 DEF FollowInit, FollowTypeOK
  <2>4. act \in [Workers -> ActRows] /\ \A w \in Workers : act[w].pc = "idle"
    BY <2>1 DEF FollowInit
  <2>5. \A w \in Workers : Gate(act[w]) /\ LoneAct(w)
    BY <2>4 DEF Gate, LoneAct
  <2>6. evidence = {} /\ overrun \in BOOLEAN
    BY DEF FollowInit, JobInit
  <2>7. QED
    BY <2>3, <2>4, <2>5, <2>6 DEF FollowIInv
<1>2. FollowIInv /\ [ScienceNext \/ ManifestNext]_<<followVars, jobVars>> => FollowIInv'
  BY FollowNextKeeps
<1>3. QED
  BY <1>1, <1>2, PTL DEF FollowSpec

\* The complete XML is only obtained after a permitted Ciencia was recorded, and never
\* without the original response archived before it (handle_xml_job).
THEOREM XmlNeedsScienceHolds == FollowSpec => []XmlNeedsScience
<1>1. FollowIInv => XmlNeedsScience
  BY DEF FollowIInv, XmlNeedsScience
<1>2. QED
  BY <1>1, FollowInvariantHolds, PTL

\* The row of a settled manifestation is never rewritten, across crashes and retries,
\* unless a lease ran out under a live worker (handle_manifestation_job answers from
\* the row).
THEOREM SettledStaysHolds == FollowSpec => SettledStays
<1> DEFINE Stays == (manifest \in Settled \cup {"accepted"}) /\ ~overrun => manifest' = manifest
<1>1. FollowIInv /\ [ScienceNext \/ ManifestNext]_<<followVars, jobVars>> => [Stays]_followVars
  <2> SUFFICES ASSUME FollowIInv, ScienceNext \/ ManifestNext PROVE Stays
    BY DEF followVars, jobVars
  <2>1. CASE UNCHANGED manifest
    BY <2>1
  <2>2. CASE EnqueueManifestation
    BY <2>2 DEF EnqueueManifestation, Settled
  <2>3. ASSUME NEW w \in Workers, SaveManifestation(w) PROVE Stays
    BY <2>3, ActRow DEF SaveManifestation, LoneAct
  <2>4. UNCHANGED manifest \/ EnqueueManifestation \/ \E w \in Workers : SaveManifestation(w)
    BY DEF ScienceNext, ManifestNext, EnqueueScience, Withdraw, ClaimFollowUp, HandleScience, EnqueueXml,
           HandleXml, StoreOriginal, StoreXml, ReadManifestation, SendManifestation, EndFollowUp,
           FollowUpDies
  <2>5. QED
    BY <2>1, <2>2, <2>3, <2>4
<1>2. QED
  BY <1>1, FollowInvariantHolds, PTL DEF FollowSpec, SettledStays

----------------------------------------------------------------------------
(* Why a permitted retrieval is refused.  handle_science_job enqueues it   *)
(* before its own job is completed, and the permission is in the memory of *)
(* the process that asked: those are the only two causes.                  *)

\* Whoever runs the retrieval finds the science job completed, by its own process.
XmlFollowsScience ==
    \A w \in Workers : act[w].pc = "xml" =>
        job["science"].state = "completed" /\ answer[w]["science"] = "success"

\* The job a handler serves, and how a retrieval ends.
XmlRow(q) ==
    /\ q.pc # "idle" => q.j \in {"science", "xml", "manifest"}
    /\ q.pc \in {"science", "enqueue"} => q.j = "science"
    /\ faults = 0 /\ q.pc = "end" /\ q.j = "xml" => q.kind = "success"

XmlIInv ==
    /\ JobTypeOK
    /\ faults \in Nat
    /\ allowed
    /\ job["science"].state = "completed" => permit
    /\ \A w \in Workers : XmlRow(act[w])
    /\ PermittedXmlArrives

\* A step of one handler.
LEMMA XmlStep ==
    ASSUME FollowIInv, XmlIInv, NEW w \in Workers, NEW q,
           act' = [act EXCEPT ![w] = q], XmlRow(q)',
           faults' \in Nat, faults' = 0 => faults = 0, allowed' = allowed, JobTypeOK',
           job'["science"].state = "completed" => permit',
           faults' = 0 => job'["xml"].state # "blocked"
    PROVE  XmlIInv'
<1>1. ASSUME NEW v \in Workers PROVE XmlRow(act[v])'
  <2>1. CASE v = w
    BY <2>1 DEF FollowIInv
  <2>2. CASE v # w
    <3>1. act'[v] = act[v] /\ XmlRow(act[v])
      BY <2>2 DEF FollowIInv, XmlIInv
    <3>2. QED
      BY <3>1 DEF XmlRow
  <2>3. QED
    BY <2>1, <2>2
<1>2. QED
  BY <1>1 DEF XmlIInv, PermittedXmlArrives

\* A step of a handler that changes neither a job nor a permission.
LEMMA XmlQuiet ==
    ASSUME FollowIInv, XmlIInv, NEW w \in Workers, NEW q,
           act' = [act EXCEPT ![w] = q], XmlRow(q),
           UNCHANGED <<job, faults, allowed, permit>>
    PROVE  XmlIInv'
<1>1. XmlRow(q)' /\ JobTypeOK'
  BY DEF XmlRow, XmlIInv, JobTypeOK
<1>2. QED
  BY <1>1, XmlStep DEF XmlIInv, PermittedXmlArrives

\* What a worker was doing.
LEMMA XmlActRow ==
    ASSUME FollowIInv, XmlIInv, NEW w \in Workers
    PROVE  act[w] \in ActRows /\ XmlRow(act[w]) /\ Gate(act[w])
BY DEF FollowIInv, XmlIInv

\* A handler ends, or goes on, on a job that is not the retrieval.
LEMMA OtherJobMoves ==
    ASSUME FollowIInv, XmlIInv, NEW w \in Workers, act[w].j \in {"science", "manifest"},
           UNCHANGED <<job, faults, allowed, permit>>,
           \/ \E kind : EndAct(w, kind)
           \/ At(w, "enqueue") /\ act[w].j = "science"
           \/ At(w, "send")
           \/ \E r : act' = [act EXCEPT ![w].pc = "save", ![w].reply = r]
    PROVE  XmlIInv'
<1>1. act[w] \in ActRows
  BY XmlActRow
<1>2. CASE \E kind : EndAct(w, kind)
  <2>1. PICK kind : act' = [act EXCEPT ![w] = [act[w] EXCEPT !.pc = "end", !.kind = kind]]
    BY <1>2 DEF EndAct
  <2>2. XmlRow([act[w] EXCEPT !.pc = "end", !.kind = kind])
    BY <1>1 DEF XmlRow, ActRows
  <2>3. QED
    BY <2>1, <2>2, XmlQuiet
<1>3. CASE \E pc \in {"enqueue", "send"} : At(w, pc) /\ (pc = "enqueue" => act[w].j = "science")
  <2>1. PICK pc \in {"enqueue", "send"} :
            At(w, pc) /\ (pc = "enqueue" => act[w].j = "science")
    BY <1>3
  <2>2. act' = [act EXCEPT ![w] = [act[w] EXCEPT !.pc = pc]]
    BY <2>1 DEF At
  <2>3. XmlRow([act[w] EXCEPT !.pc = pc])
    BY <1>1, <2>1 DEF XmlRow, ActRows
  <2>4. QED
    BY <2>2, <2>3, XmlQuiet
<1>4. CASE \E r : act' = [act EXCEPT ![w].pc = "save", ![w].reply = r]
  <2>1. PICK r : act' = [act EXCEPT ![w] = [act[w] EXCEPT !.pc = "save", !.reply = r]]
    BY <1>4
  <2>2. XmlRow([act[w] EXCEPT !.pc = "save", !.reply = r])
    BY <1>1 DEF XmlRow, ActRows
  <2>3. QED
    BY <2>1, <2>2, XmlQuiet
<1>5. QED
  BY <1>2, <1>3, <1>4

LEMMA OtherHandlersKeepXml ==
    ASSUME FollowIInv, XmlIInv, NEW w \in Workers,
           \/ HandleScience(w)
           \/ ReadManifestation(w) \/ SendManifestation(w) \/ SaveManifestation(w)
    PROVE  XmlIInv'
<1>1. XmlRow(act[w]) /\ Gate(act[w])
  BY XmlActRow
<1>2. CASE HandleScience(w)
  <2>1. act[w].j = "science"
    BY <1>1, <1>2 DEF HandleScience, XmlRow
  <2>2. (\E kind : EndAct(w, kind)) \/ At(w, "enqueue")
    BY <1>2 DEF HandleScience
  <2>3. UNCHANGED <<job, faults, allowed, permit>>
    BY <1>2 DEF HandleScience
  <2>4. QED
    BY <2>1, <2>2, <2>3, OtherJobMoves
<1>3. CASE ReadManifestation(w)
  <2>1. act[w].j = "manifest"
    BY <1>1, <1>3 DEF ReadManifestation, Gate
  <2>2. (\E kind : EndAct(w, kind)) \/ At(w, "send")
    BY <1>3 DEF ReadManifestation
  <2>3. UNCHANGED <<job, faults, allowed, permit>>
    BY <1>3 DEF ReadManifestation
  <2>4. QED
    BY <2>1, <2>2, <2>3, OtherJobMoves
<1>4. CASE SendManifestation(w)
  <2>1. act[w].j = "manifest"
    BY <1>1, <1>4 DEF SendManifestation, Gate
  <2>2. \E r : act' = [act EXCEPT ![w].pc = "save", ![w].reply = r]
    BY <1>4 DEF SendManifestation
  <2>3. UNCHANGED <<job, faults, allowed, permit>>
    BY <1>4 DEF SendManifestation
  <2>4. QED
    BY <2>1, <2>2, <2>3, OtherJobMoves
<1>5. CASE SaveManifestation(w)
  <2>1. act[w].j = "manifest"
    BY <1>1, <1>5 DEF SaveManifestation, Gate
  <2>2. \E kind : EndAct(w, kind)
    BY <1>5 DEF SaveManifestation
  <2>3. UNCHANGED <<job, faults, allowed, permit>>
    BY <1>5 DEF SaveManifestation
  <2>4. QED
    BY <2>1, <2>2, <2>3, OtherJobMoves
<1>6. QED
  BY <1>2, <1>3, <1>4, <1>5

\* enqueue of another job, and of the retrieval itself: its row is queued or running.
LEMMA EnqueueKeepsXml ==
    ASSUME FollowIInv, XmlIInv, NEW j \in {"science", "xml", "manifest"}, Enqueue(j)
    PROVE  /\ JobTypeOK'
           /\ j # "science" => job'["science"] = job["science"]
           /\ job'[j].state \in {"queued", "running"}
           /\ j # "xml" => job'["xml"] = job["xml"]
<1>1. job \in [JobIds -> JobRows] /\ JobTypeOK /\ j \in JobIds
  BY DEF XmlIInv, JobTypeOK, JobRows, JobIds
<1>2. JobTypeOK'
  BY <1>1, EnqueueTyped
<1>3. job' = [job EXCEPT ![j] = EnqueuedJob(j)]
  BY DEF Enqueue
<1>4. EnqueuedJob(j).state \in {"queued", "running"}
  BY DEF EnqueuedJob, NoJob, Active
<1>5. QED
  BY <1>1, <1>2, <1>3, <1>4 DEF JobIds

LEMMA EnqueueingKeepsXml ==
    ASSUME FollowIInv, XmlIInv, EnqueueScience \/ EnqueueManifestation
    PROVE  XmlIInv'
<1>1. PICK j \in {"science", "manifest"} : Enqueue(j)
  BY DEF EnqueueScience, EnqueueManifestation
<1>2. UNCHANGED <<act, permit, allowed, faults>>
  BY DEF EnqueueScience, EnqueueManifestation
<1>3. /\ JobTypeOK' /\ job'["xml"] = job["xml"]
      /\ job'["science"].state = "completed" => permit
  BY <1>1, EnqueueKeepsXml DEF XmlIInv
<1>4. \A w \in Workers : XmlRow(act[w])'
  BY <1>2 DEF XmlIInv, XmlRow
<1>5. QED
  BY <1>2, <1>3, <1>4 DEF XmlIInv, PermittedXmlArrives

\* The science handler enqueues the retrieval.
LEMMA EnqueueXmlKeepsXml ==
    ASSUME FollowIInv, XmlIInv, NEW w \in Workers, EnqueueXml(w)
    PROVE  XmlIInv'
<1>1. act[w].j = "science" /\ act[w] \in ActRows
  BY XmlActRow DEF EnqueueXml, XmlRow
<1>2. PICK q : act' = [act EXCEPT ![w] = q] /\ \E kind : q = [act[w] EXCEPT !.pc = "end", !.kind = kind]
  <2>1. PICK kind : act' = [act EXCEPT ![w] = [act[w] EXCEPT !.pc = "end", !.kind = kind]]
    BY DEF EnqueueXml, EndAct
  <2>2. QED
    BY <2>1
<1>3. UNCHANGED <<permit, allowed, faults>>
  BY DEF EnqueueXml
<1>4. XmlRow(q)'
  BY <1>1, <1>2 DEF XmlRow, ActRows
<1>5. JobTypeOK' /\ job'["science"] = job["science"] /\ (faults = 0 => job'["xml"].state # "blocked")
  <2>1. CASE UNCHANGED job
    BY <2>1 DEF XmlIInv, JobTypeOK, PermittedXmlArrives
  <2>2. CASE Enqueue("xml")
    BY <2>2, EnqueueKeepsXml
  <2>3. QED
    BY <2>1, <2>2 DEF EnqueueXml
<1>6. QED
  BY <1>2, <1>3, <1>4, <1>5, XmlStep DEF XmlIInv

\* The gate opens, and only a fault makes the rest of the handler fail.
LEMMA RetrievalKeepsXml ==
    ASSUME Fixed, FollowIInv, XmlIInv, XmlFollowsScience, NEW w \in Workers,
           HandleXml(w) \/ StoreOriginal(w) \/ StoreXml(w)
    PROVE  XmlIInv'
<1>1. act[w] \in ActRows /\ XmlRow(act[w])
  BY XmlActRow
<1>2. UNCHANGED <<permit, allowed, job>>
  BY DEF HandleXml, StoreOriginal, StoreXml
<1>3. JobTypeOK'
  BY <1>2 DEF XmlIInv, JobTypeOK
<1>4. faults' \in Nat /\ (faults' = 0 => faults = 0)
  <2>1. faults' = faults \/ faults' = faults + 1
    BY DEF HandleXml, StoreOriginal, StoreXml, SpendFault
  <2>2. QED
    BY <2>1 DEF XmlIInv
<1>5. (\E pc \in {"original", "parse"} : At(w, pc)) \/ EndAct(w, "success")
      \/ (faults' # 0 /\ EndAct(w, "permanent"))
  <2>1. CASE HandleXml(w)
    BY <2>1 DEF HandleXml, XmlFollowsScience, XmlIInv
  <2>2. CASE StoreOriginal(w) \/ StoreXml(w)
    <3>1. SpendFault => faults' # 0
      BY DEF SpendFault, XmlIInv
    <3>2. QED
      BY <2>2, <3>1 DEF StoreOriginal, StoreXml
  <2>3. QED
    BY <2>1, <2>2
<1>6. PICK q : act' = [act EXCEPT ![w] = q] /\ XmlRow(q)'
  <2>1. act[w].pc # "idle" /\ act[w].j \in {"science", "xml", "manifest"}
    BY <1>1 DEF HandleXml, StoreOriginal, StoreXml, XmlRow
  <2>2. ASSUME NEW pc \in {"original", "parse"}, At(w, pc)
        PROVE  \E q : act' = [act EXCEPT ![w] = q] /\ XmlRow(q)'
    <3>1. PICK q : q = [act[w] EXCEPT !.pc = pc] /\ act' = [act EXCEPT ![w] = q]
      BY <2>2 DEF At
    <3>2. XmlRow(q)'
      BY <1>1, <2>1, <3>1 DEF XmlRow, ActRows
    <3>3. QED
      BY <3>1, <3>2
  <2>3. ASSUME NEW kind, EndAct(w, kind), kind = "success" \/ faults' # 0
        PROVE  \E q : act' = [act EXCEPT ![w] = q] /\ XmlRow(q)'
    <3>1. PICK q : q = [act[w] EXCEPT !.pc = "end", !.kind = kind] /\ act' = [act EXCEPT ![w] = q]
      BY <2>3 DEF EndAct
    <3>2. XmlRow(q)'
      BY <1>1, <2>1, <2>3, <3>1 DEF XmlRow, ActRows
    <3>3. QED
      BY <3>1, <3>2
  <2>4. QED
    BY <1>5, <2>2, <2>3
<1>7. QED
  BY <1>2, <1>3, <1>4, <1>6, XmlStep DEF XmlIInv, PermittedXmlArrives

\* claim: the job runs.
LEMMA ClaimKeepsXml ==
    ASSUME FollowIInv, XmlIInv, NEW w \in Workers, NEW j \in {"science", "xml", "manifest"},
           ClaimFollowUp(w, j)
    PROVE  XmlIInv'
<1>1. job \in [JobIds -> JobRows] /\ JobTypeOK /\ j \in JobIds
  BY DEF XmlIInv, JobTypeOK, JobRows, JobIds
<1>2. Claim(w, j, ActiveOn(j)) /\ UNCHANGED <<permit, allowed, faults>>
  BY DEF ClaimFollowUp
<1>3. JobTypeOK'
  BY <1>1, <1>2, ClaimTyped
<1>4. PICK row : job' = [job EXCEPT ![j] = row] /\ row.state = "running"
  <2>1. PICK n : n = job[j].attempt + 1
    OBVIOUS
  <2>2. PICK r : r = [state |-> "running", holder |-> w, attempt |-> n]
    OBVIOUS
  <2>3. r.state = "running"
    BY <2>2
  <2>4. job' = [job EXCEPT ![j] = r]
    BY <1>2, <2>1, <2>2 DEF Claim
  <2>5. QED
    BY <2>3, <2>4
<1>5. /\ job'["science"].state = "completed" => permit
      /\ faults = 0 => job'["xml"].state # "blocked"
  BY <1>1, <1>4 DEF XmlIInv, PermittedXmlArrives, JobIds
<1>6. act' = [act EXCEPT ![w] = [IdleAct EXCEPT !.pc = j, !.j = j]]
  BY DEF ClaimFollowUp
<1>7. XmlRow([IdleAct EXCEPT !.pc = j, !.j = j])'
  BY DEF XmlRow, IdleAct
<1>8. QED
  BY <1>2, <1>3, <1>5, <1>6, <1>7, XmlStep DEF XmlIInv

\* finalize: a retrieval that ends without a fault is completed, and a completed
\* science permits.
LEMMA EndKeepsXml ==
    ASSUME FollowIInv, XmlIInv, NEW w \in Workers, EndFollowUp(w)
    PROVE  XmlIInv'
<1>1. PICK j \in {"science", "xml", "manifest"} : j = act[w].j
  BY XmlActRow DEF EndFollowUp, XmlRow
<1>2. job \in [JobIds -> JobRows] /\ JobTypeOK /\ j \in JobIds
  BY DEF XmlIInv, JobTypeOK, JobRows, JobIds
<1>3. PICK kind : kind = act[w].kind /\ EndJob(w, j, kind) /\ (j = "xml" /\ faults = 0 => kind = "success")
  BY <1>1, XmlActRow DEF EndFollowUp, XmlRow
<1>4. JobTypeOK'
  BY <1>2, <1>3, EndTyped
<1>5. act' = [act EXCEPT ![w] = IdleAct] /\ UNCHANGED <<allowed, faults>>
  BY DEF EndFollowUp
<1>6. XmlRow(IdleAct)'
  BY DEF XmlRow, IdleAct
<1>7. faults = 0 => job'["xml"].state # "blocked"
  <2> SUFFICES ASSUME faults = 0 PROVE job'["xml"].state # "blocked"
    OBVIOUS
  <2>1. CASE j = "xml" /\ job' # job
    <3>1. job' = [job EXCEPT !["xml"] = FinalizedJob("xml", "success")]
      BY <1>3, <2>1 DEF EndJob
    <3>2. FinalizedJob("xml", "success") = [job["xml"] EXCEPT !.state = "completed", !.holder = NoWorker]
      BY DEF FinalizedJob
    <3>3. job["xml"] \in JobRows
      BY <1>2 DEF JobIds
    <3>4. FinalizedJob("xml", "success").state = "completed"
      BY <3>2, <3>3 DEF JobRows
    <3>5. QED
      BY <1>2, <2>1, <3>1, <3>4
  <2>2. CASE j # "xml" \/ job' = job
    <3>1. job'["xml"] = job["xml"]
      BY <1>2, <1>3, <2>2 DEF EndJob, JobIds
    <3>2. QED
      BY <3>1 DEF XmlIInv, PermittedXmlArrives
  <2>3. QED
    BY <2>1, <2>2
<1>8. job'["science"].state = "completed" => permit'
  <2> SUFFICES ASSUME job'["science"].state = "completed" PROVE permit'
    OBVIOUS
  <2>1. permit' = (permit \/ (j = "science" /\ job'[j].state = "completed" /\ job[j].holder = w))
    BY <1>1 DEF EndFollowUp
  <2>2. CASE job["science"].state = "completed"
    BY <2>1, <2>2 DEF XmlIInv
  <2>3. CASE job["science"].state # "completed"
    <3>1. job' # job /\ job'["science"] # job["science"]
      BY <2>3
    <3>2. j = "science" /\ job[j].holder = w
      BY <1>2, <1>3, <3>1 DEF EndJob, JobIds
    <3>3. QED
      BY <2>1, <3>2
  <2>4. QED
    BY <2>2, <2>3
<1>9. QED
  BY <1>4, <1>5, <1>6, <1>7, <1>8, XmlStep DEF XmlIInv

LEMMA DeathKeepsXml ==
    ASSUME FollowIInv, XmlIInv, NEW w \in Workers, FollowUpDies(w)
    PROVE  XmlIInv'
<1>1. act' = [act EXCEPT ![w] = IdleAct] /\ UNCHANGED <<permit, allowed, job>> /\ faults' = faults + 1
  BY DEF FollowUpDies, SpendFault
<1>2. JobTypeOK' /\ XmlRow(IdleAct)'
  BY <1>1 DEF XmlIInv, JobTypeOK, XmlRow, IdleAct
<1>3. faults' \in Nat /\ faults' # 0
  BY <1>1 DEF XmlIInv
<1>4. QED
  BY <1>1, <1>2, <1>3, XmlStep DEF XmlIInv

\* The causes of a refused retrieval: with nothing withdrawn and no fault, a retrieval
\* that is only run once the science job is completed, and by the process that asked,
\* is never refused (handle_science_job, handle_xml_job).
THEOREM XmlArrivesAfterScience ==
    ASSUME Fixed
    PROVE  FollowSpec /\ []XmlFollowsScience => []PermittedXmlArrives
<1>1. JobInit /\ FollowInit => XmlIInv
  <2> SUFFICES ASSUME JobInit, FollowInit PROVE XmlIInv
    OBVIOUS
  <2>1. NoJob \in JobRows /\ NoJob.state = "none"
    BY DEF NoJob, JobRows
  <2>2. JobTypeOK /\ job["science"].state = "none" /\ job["xml"].state = "none"
    BY <2>1 DEF JobInit, JobTypeOK, JobRows, JobIds
  <2>3. \A w \in Workers : XmlRow(act[w])
    BY DEF FollowInit, IdleAct, XmlRow
  <2>4. faults \in Nat /\ allowed
    BY DEF JobInit, FollowInit
  <2>5. QED
    BY <2>2, <2>3, <2>4 DEF XmlIInv, PermittedXmlArrives
<1>2. FollowIInv /\ XmlIInv /\ XmlFollowsScience /\ [ScienceNext \/ ManifestNext]_<<followVars, jobVars>>
        => XmlIInv'
  <2> SUFFICES ASSUME FollowIInv, XmlIInv, XmlFollowsScience,
                      [ScienceNext \/ ManifestNext]_<<followVars, jobVars>>
               PROVE  XmlIInv'
    OBVIOUS
  <2>1. CASE UNCHANGED <<followVars, jobVars>>
    <3>1. UNCHANGED <<act, permit, allowed, job, faults>>
      BY <2>1 DEF followVars, jobVars
    <3>2. QED
      BY <3>1 DEF XmlIInv, JobTypeOK, XmlRow, PermittedXmlArrives
  <2>2. CASE EnqueueScience \/ EnqueueManifestation
    BY <2>2, EnqueueingKeepsXml
  <2>3. CASE Withdraw
    BY <2>3 DEF Withdraw
  <2>4. CASE \E w \in Workers, j \in {"science", "xml", "manifest"} : ClaimFollowUp(w, j)
    BY <2>4, ClaimKeepsXml
  <2>5. CASE \E w \in Workers : HandleXml(w) \/ StoreOriginal(w) \/ StoreXml(w)
    BY <2>5, RetrievalKeepsXml
  <2>6. CASE \E w \in Workers : \/ HandleScience(w) \/ ReadManifestation(w)
                                \/ SendManifestation(w) \/ SaveManifestation(w)
    BY <2>6, OtherHandlersKeepXml
  <2>7. CASE \E w \in Workers : EnqueueXml(w) \/ EndFollowUp(w) \/ FollowUpDies(w)
    BY <2>7, EnqueueXmlKeepsXml, EndKeepsXml, DeathKeepsXml
  <2>8. QED
    BY <2>1, <2>2, <2>3, <2>4, <2>5, <2>6, <2>7 DEF ScienceNext, ManifestNext
<1>3. XmlIInv => PermittedXmlArrives
  BY DEF XmlIInv
<1>4. QED
  BY <1>1, <1>2, <1>3, FollowInvariantHolds, PTL DEF FollowSpec

====
