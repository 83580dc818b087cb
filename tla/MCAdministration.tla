-------------------------- MODULE MCAdministration --------------------------
\* TLC instances of the administration of users and of companies and of the rules
\* that are pure computations.  They share no state, so a behaviour is about one of
\* them; those about users offer some of the operations each, to a bound of events
\* that suits them.
EXTENDS Access, Registry, Rules, TLC

CONSTANT Parts

VARIABLE part

vars == <<part, auditVars, accessVars, registryVars, question>>

\* part |-> operations and roles offered, events, session rows in use.
Offer == [changes |-> [ops |-> {"login", "create", "role", "deactivate", "activate", "update"},
                       roles |-> Roles, events |-> 4, sessions |-> {1}],
          sessions |-> [ops |-> {"login", "denied", "logout", "expired", "reset", "own_password"},
                        roles |-> {"viewer"}, events |-> 4, sessions |-> {1, 2}],
          reopening |-> [ops |-> {"login", "create", "deactivate", "activate"},
                         roles |-> {"viewer"}, events |-> 5, sessions |-> {1, 2}]]

Offered(offer) ==
    /\ \A r \in Requests : req'[r].op \in offer.ops \cup {"none"} /\ req'[r].role \in offer.roles
    /\ Len(log') <= offer.events
    /\ \A t \in Tokens : session'[t].state # "none" => t \in offer.sessions
    /\ "expired" \in offer.ops \/ \A t \in Tokens : session'[t].state # "timed_out"

\* The end of February in a leap and in a common year, the turn of a year, a century
\* without a leap day, each just before, at and well after midnight in Sao Paulo.
MCMoments == {[date |-> d, hour |-> h[1], behind |-> h[2]] :
                 d \in {<<2023, 2, 28>>, <<2024, 2, 29>>, <<2024, 3, 1>>, <<2025, 1, 1>>,
                        <<2088, 12, 31>>, <<2100, 3, 1>>},
                 h \in {<<2, 3>>, <<2, 2>>, <<12, 3>>}}

\* No row, an intact one, that and one in conflict, one whose artifact is not finalized.
MCEvidence == {{}, {IntactRow}, {IntactRow, [IntactRow EXCEPT !.conflicting = TRUE]},
               {[IntactRow EXCEPT !.finalized = FALSE]}}

Init ==
    /\ part \in Parts
    /\ AuditInit /\ AccessInit /\ RegistryInit /\ RulesInit

Next ==
    /\ UNCHANGED part
    /\ \/ part \in DOMAIN Offer /\ AccessNext /\ Offered(Offer[part]) /\ UNCHANGED <<registryVars, question>>
       \/ part = "companies" /\ RegistryNext /\ UNCHANGED <<auditVars, accessVars, question>>
       \/ part = "rules" /\ RulesNext /\ UNCHANGED <<auditVars, accessVars, registryVars>>

Spec == Init /\ [][Next]_vars

Symmetry == Permutations(Requests) \cup Permutations(Companies)

============================================================================
