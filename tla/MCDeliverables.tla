--------------------------- MODULE MCDeliverables ---------------------------
\* TLC instances of what workers produce for users: an export, the PDF of a
\* document, the follow-up of an NF-e.  They share no state but the job engine, so
\* a behaviour is about one of them.
EXTENDS Exports, Rendering, FollowUp, TLC

CONSTANT Parts

VARIABLE part

vars == <<part, exportVars, renderVars, followVars, jobVars>>

Init ==
    /\ part \in Parts
    /\ JobInit /\ ExportInit /\ RenderInit /\ FollowInit

Next ==
    /\ UNCHANGED part
    /\ \/ part = "export" /\ ExportNext /\ UNCHANGED <<renderVars, followVars>>
       \/ part = "render" /\ RenderNext /\ UNCHANGED <<exportVars, followVars>>
       \/ part = "science" /\ ScienceNext /\ UNCHANGED <<exportVars, renderVars>>
       \/ part = "manifest" /\ ManifestNext /\ UNCHANGED <<exportVars, renderVars>>

Spec == Init /\ [][Next]_vars

Symmetry == Permutations(Workers) \cup Permutations(Cleaners)

============================================================================
