----------------------------- MODULE LeaseQueue -----------------------------
(***************************************************************************)
(* What the job engine promises its clients, without clocks, rows or       *)
(* policies: work that is granted under a token, may be revoked at any     *)
(* time and granted again, and is finished once, by the worker whose grant *)
(* carries the current token.                                              *)
(***************************************************************************)
EXTENDS Integers

CONSTANTS Ids, Clients, Nobody

VARIABLES
    status,   \* "absent", "waiting" or "done"
    holder,   \* the client a piece of work is granted to, or Nobody
    token,    \* how many times it has been granted
    grant     \* the grant each client acts on: <<id, token>>, or <<>>

qvars == <<status, holder, token, grant>>

Init ==
    /\ status = [i \in Ids |-> "absent"]
    /\ holder = [i \in Ids |-> Nobody]
    /\ token = [i \in Ids |-> 0]
    /\ grant = [c \in Clients |-> <<>>]

\* A client's transaction submits one piece of work or several.
Submit(S) ==
    /\ \A i \in S : status[i] = "absent"
    /\ status' = [i \in Ids |-> IF i \in S THEN "waiting" ELSE status[i]]
    /\ UNCHANGED <<holder, token, grant>>

\* Take work away from the clients of the set S of ids; they are not told.
Revoked(S) == [i \in Ids |-> IF i \in S THEN Nobody ELSE holder[i]]

Revoke(S) ==
    /\ holder' = Revoked(S)
    /\ UNCHANGED <<status, token, grant>>

\* Grant waiting work that nobody holds, after revoking the grants in S.
Grant(c, i, S) ==
    /\ grant[c] = <<>>
    /\ status[i] = "waiting"
    /\ Revoked(S)[i] = Nobody
    /\ holder' = [Revoked(S) EXCEPT ![i] = c]
    /\ token' = [token EXCEPT ![i] = @ + 1]
    /\ grant' = [grant EXCEPT ![c] = <<i, token[i] + 1>>]
    /\ UNCHANGED status

\* The holder of the current token gives the work back, finished or not.
Settle(c, i, outcome) ==
    /\ grant[c] = <<i, token[i]>>
    /\ holder[i] = c
    /\ status[i] = "waiting"
    /\ status' = [status EXCEPT ![i] = outcome]
    /\ holder' = [holder EXCEPT ![i] = Nobody]
    /\ grant' = [grant EXCEPT ![c] = <<>>]
    /\ UNCHANGED token

\* A client forgets its grant: it died, or learnt that it lost it.
Forget(c) ==
    /\ grant[c] # <<>>
    /\ grant' = [grant EXCEPT ![c] = <<>>]
    /\ UNCHANGED <<status, holder, token>>

Next ==
    \/ \E S \in SUBSET Ids : Submit(S)
    \/ \E S \in SUBSET Ids : Revoke(S)
    \/ \E c \in Clients, i \in Ids, S \in SUBSET Ids : Grant(c, i, S)
    \/ \E c \in Clients, i \in Ids, outcome \in {"waiting", "done"} : Settle(c, i, outcome)
    \/ \E c \in Clients : Forget(c)

Spec == Init /\ [][Next]_qvars
=============================================================================
