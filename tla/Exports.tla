------------------------------ MODULE Exports ------------------------------
(***************************************************************************)
(* One ZIP export (nfx.exports): a frozen selection, composed by a job     *)
(* that may be run again or by two workers at once, offered until it       *)
(* expires, and cleaned up by administrators' requests.                    *)
(***************************************************************************)
EXTENDS JobRun

CONSTANTS
    Items,      \* the frozen selection
    Cleaners,   \* requests that run cleanup_expired
    MaxZips     \* bound: ZIP artifacts ever begun

ASSUME ExportAssumption == MaxZips \in Nat

VARIABLES
    export,     \* nfx_export; stamp is updated_at
    item,       \* state of nfx_export_item
    source,     \* the artifact each item was frozen with
    zips,       \* artifacts of class export_zip_temp
    compose,    \* what each worker is doing in compose_export
    clean,      \* what each cleaner is doing
    late        \* expires_at has passed

exportVars == <<export, item, source, zips, compose, clean, late>>

Zips == 1..MaxZips
NoZip == [state |-> "none", items |-> {}, key |-> 0]
IdleCompose == [pc |-> "idle", todo |-> {}, got |-> {}, failed |-> FALSE, key |-> 0, zip |-> 0,
                kind |-> "none"]
IdleClean == [pc |-> "idle", zip |-> 0]

ExportInit ==
    /\ export = [state |-> "none", zip |-> 0, stamp |-> 0]
    /\ item = [i \in Items |-> "pending"]
    /\ source = [i \in Items |-> "none"]
    /\ zips = [z \in Zips |-> NoZip]
    /\ compose = [w \in Workers |-> IdleCompose]
    /\ clean = [c \in Cleaners |-> IdleClean]
    /\ late = FALSE

----------------------------------------------------------------------------

\* Every update renews updated_at, which is no longer read once the export is late.
SetExport(s, z) ==
    export' = [state |-> s, zip |-> z, stamp |-> IF late THEN export.stamp ELSE export.stamp + 1]
Composing == {w \in Workers : compose[w].pc # "idle"}
LiveZip(z) == z \in Zips /\ zips[z].state \in {"whole", "hollow"}

\* request_export: the row, its items, some of them without evidence, and its job in
\* one transaction.  The unique key of the requester makes every other request find
\* this one.
RequestExport ==
    /\ export.state = "none"
    /\ SetExport("pending", 0)
    /\ source' \in [Items -> {"ok", "none"}]
    /\ Enqueue("export")
    /\ UNCHANGED <<item, zips, compose, clean, late, faults, overrun>>

ClaimExport(w) ==
    /\ compose[w].pc = "idle"
    /\ Claim(w, "export", Composing)
    /\ compose' = [compose EXCEPT ![w].pc = "read"]
    /\ UNCHANGED <<export, item, source, zips, clean, late, faults>>

\* compose_export reads the export and the clock.
ReadExport(w) ==
    /\ compose[w].pc = "read"
    /\ compose' = [compose EXCEPT ![w] =
          IF export.state \in {"available", "expired"} THEN [@ EXCEPT !.pc = "end", !.kind = "success"]
          ELSE [@ EXCEPT !.pc = IF late THEN "expire" ELSE "mark", !.key = export.stamp]]
    /\ UNCHANGED <<export, item, source, zips, clean, late, job, faults, overrun>>

ComposeExpired(w) ==
    /\ compose[w].pc = "expire"
    /\ SetExport("expired", export.zip)
    /\ compose' = [compose EXCEPT ![w].pc = "end", ![w].kind = "success"]
    /\ UNCHANGED <<item, source, zips, clean, late, job, faults, overrun>>

MarkProcessing(w) ==
    /\ compose[w].pc = "mark"
    /\ SetExport("processing", export.zip)
    /\ compose' = [compose EXCEPT ![w].pc = "items", ![w].todo = Items]
    /\ UNCHANGED <<item, source, zips, clean, late, job, faults, overrun>>

\* Mutant: an item that cannot be read is left out and not counted.
AddItem_Uncounted(w, i) ==
    /\ compose[w].pc = "items"
    /\ i \in compose[w].todo
    /\ IF source[i] = "ok"
       THEN /\ item' = [item EXCEPT ![i] = "included"]
            /\ compose' = [compose EXCEPT ![w].todo = @ \ {i}, ![w].got = @ \cup {i}]
       ELSE /\ item' = [item EXCEPT ![i] = "missing"]
            /\ compose' = [compose EXCEPT ![w].todo = @ \ {i}]
    /\ UNCHANGED <<export, source, zips, clean, late, job, faults, overrun>>

\* Each item is read and verified, or recorded as missing or divergent.  Its path
\* carries the document's id, so two paths never collide.
AddItem(w, i) ==
    /\ compose[w].pc = "items"
    /\ i \in compose[w].todo
    /\ \/ /\ source[i] = "ok"
          /\ item' = [item EXCEPT ![i] = "included"]
          /\ compose' = [compose EXCEPT ![w].todo = @ \ {i}, ![w].got = @ \cup {i}]
       \/ /\ source[i] # "ok"
          /\ \E s \in IF source[i] = "altered" THEN {"missing", "divergent"} ELSE {"missing"} :
                item' = [item EXCEPT ![i] = s]
          /\ compose' = [compose EXCEPT ![w].todo = @ \ {i}, ![w].failed = TRUE]
    /\ UNCHANGED <<export, source, zips, clean, late, job, faults, overrun>>

\* With a failed item there is no ZIP.
FinishPartial(w) ==
    /\ compose[w].pc = "items"
    /\ compose[w].todo = {}
    /\ compose[w].failed
    /\ SetExport(IF compose[w].got # {} THEN "partial" ELSE "failed", export.zip)
    /\ compose' = [compose EXCEPT ![w].pc = "end", ![w].kind = "success"]
    /\ UNCHANGED <<item, source, zips, clean, late, job, faults, overrun>>

\* begin and transmit.  A finalized ZIP of the same key, from a worker that read the
\* same updated_at, refuses other bytes.
StoreZip(w) ==
    LET free == {z \in Zips : zips[z].state = "none"}
        same == {z \in Zips : LiveZip(z) /\ zips[z].key = compose[w].key} IN
    /\ compose[w].pc = "items"
    /\ compose[w].todo = {}
    /\ ~compose[w].failed
    /\ \/ /\ same = {}
          /\ free # {}
          /\ LET z == Min(free) IN
             /\ zips' = [zips EXCEPT ![z] = [state |-> "whole", items |-> compose[w].got,
                                             key |-> compose[w].key]]
             /\ compose' = [compose EXCEPT ![w].pc = "publish", ![w].zip = z]
          /\ UNCHANGED faults
       \/ /\ SpendFault \/ (same # {} /\ UNCHANGED faults)
          /\ compose' = [compose EXCEPT ![w].pc = "end", ![w].kind = "temporary"]
          /\ UNCHANGED zips
    /\ UNCHANGED <<export, item, source, clean, late, job, overrun>>

\* The update is unconditional: whatever the row says by now.
PublishZip(w) ==
    /\ compose[w].pc = "publish"
    /\ SetExport("available", compose[w].zip)
    /\ compose' = [compose EXCEPT ![w].pc = "end", ![w].kind = "success"]
    /\ UNCHANGED <<item, source, zips, clean, late, job, faults, overrun>>

EndExportJob(w) ==
    /\ compose[w].pc = "end"
    /\ EndJob(w, "export", compose[w].kind)
    /\ compose' = [compose EXCEPT ![w] = IdleCompose]
    /\ UNCHANGED <<export, item, source, zips, clean, late, faults, overrun>>

\* The worker dies, or the database fails it and the handler raises.
ComposeDies(w) ==
    /\ compose[w].pc # "idle"
    /\ SpendFault
    /\ \/ UNCHANGED job
       \/ EndJob(w, "export", "raised")
    /\ compose' = [compose EXCEPT ![w] = IdleCompose]
    /\ UNCHANGED <<export, item, source, zips, clean, late, overrun>>

----------------------------------------------------------------------------
(* cleanup_expired.                                                        *)

ListExpired(c) ==
    /\ clean[c].pc = "idle"
    /\ late
    /\ export.state # "none"
    /\ export.state # "expired" \/ export.zip # 0
    /\ clean' = [clean EXCEPT ![c] = [pc |-> "mark", zip |-> export.zip]]
    /\ UNCHANGED <<export, item, source, zips, compose, late, job, faults, overrun>>

MarkExpired(c) ==
    /\ clean[c].pc = "mark"
    /\ SetExport("expired", export.zip)
    /\ clean' = [clean EXCEPT ![c] = IF @.zip = 0 THEN IdleClean ELSE [@ EXCEPT !.pc = "unlink"]]
    /\ UNCHANGED <<item, source, zips, compose, late, job, faults, overrun>>

Unlink(c) ==
    /\ clean[c].pc = "unlink"
    /\ SetExport(export.state, 0)
    /\ clean' = [clean EXCEPT ![c].pc = "delete"]
    /\ UNCHANGED <<item, source, zips, compose, late, job, faults, overrun>>

\* delete_temporary removes the object, then the row, unless the row is linked
\* again or a call fails.
DeleteZip(c) ==
    LET z == clean[c].zip IN
    /\ clean[c].pc = "delete"
    /\ \/ /\ LiveZip(z) /\ export.zip # z
          /\ zips' = [zips EXCEPT ![z] = [NoZip EXCEPT !.state = "deleted"]]
          /\ clean' = [clean EXCEPT ![c] = IdleClean]
          /\ UNCHANGED faults
       \/ /\ IF LiveZip(z) /\ export.zip # z THEN SpendFault ELSE UNCHANGED faults
          /\ zips' = IF LiveZip(z) THEN [zips EXCEPT ![z].state = "hollow"] ELSE zips
          /\ clean' = [clean EXCEPT ![c].pc = "relink"]
    /\ UNCHANGED <<export, item, source, compose, late, job, overrun>>

\* The failed deletion is linked again for the next cleanup; the foreign key
\* refuses a row that another cleaner has deleted.
Relink(c) ==
    /\ clean[c].pc = "relink"
    /\ IF LiveZip(clean[c].zip) THEN SetExport(export.state, clean[c].zip) ELSE UNCHANGED export
    /\ clean' = [clean EXCEPT ![c] = IdleClean]
    /\ UNCHANGED <<item, source, zips, compose, late, job, faults, overrun>>

\* The download view serves an available export before its expiry.
Downloadable == export.state = "available" /\ ~late

TimePasses ==
    /\ ~late
    /\ export.state # "none"
    /\ late' = TRUE
    /\ UNCHANGED <<export, item, source, zips, compose, clean, job, faults, overrun>>

\* A source artifact is lost or altered, or removed by a controlled deletion.
LoseSource(i) ==
    /\ source[i] = "ok"
    /\ SpendFault
    /\ \E s \in {"gone", "altered"} : source' = [source EXCEPT ![i] = s]
    /\ UNCHANGED <<export, item, zips, compose, clean, late, job, overrun>>

ExportNext ==
    \/ RequestExport \/ TimePasses
    \/ \E w \in Workers :
        \/ ClaimExport(w) \/ ReadExport(w) \/ ComposeExpired(w) \/ MarkProcessing(w)
        \/ FinishPartial(w) \/ StoreZip(w) \/ PublishZip(w) \/ EndExportJob(w) \/ ComposeDies(w)
        \/ \E i \in Items : AddItem(w, i)
    \/ \E c \in Cleaners :
        ListExpired(c) \/ MarkExpired(c) \/ Unlink(c) \/ DeleteZip(c) \/ Relink(c)
    \/ \E i \in Items : LoseSource(i)

ExportSpec == JobInit /\ ExportInit /\ [][ExportNext]_<<exportVars, jobVars>>

----------------------------------------------------------------------------
(* Properties.                                                             *)

ExportTypeOK ==
    /\ export \in [state : {"none", "pending", "processing", "partial", "failed", "available",
                            "expired"}, zip : 0..MaxZips, stamp : Nat]
    /\ item \in [Items -> {"pending", "included", "missing", "divergent"}]
    /\ source \in [Items -> {"ok", "none", "gone", "altered"}]
    /\ zips \in [Zips -> [state : {"none", "whole", "hollow", "deleted"}, items : SUBSET Items,
                          key : Nat]]
    /\ late \in BOOLEAN

\* The variables keep their types, what an export points to is a row, however many
\* cleaners and workers race, fail and link again, and whatever can be downloaded is
\* complete: the ZIP is whole and holds every item of the frozen selection, with any
\* number of workers composing it at once.
DownloadIsComplete ==
    /\ JobTypeOK /\ ExportTypeOK
    /\ export.zip # 0 => LiveZip(export.zip)
    /\ Downloadable =>
        /\ export.zip \in Zips
        /\ zips[export.zip].state = "whole"
        /\ zips[export.zip].items = Items

============================================================================
