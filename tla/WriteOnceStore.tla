--------------------------- MODULE WriteOnceStore ---------------------------
(***************************************************************************)
(* What artifact storage promises its callers: under a logical key there   *)
(* is at most one content; it is stored once and never replaced in place.  *)
(* It may be lost or withdrawn.                                            *)
(***************************************************************************)
CONSTANTS Keys, Contents, Nothing

VARIABLE stored

StoreInit == stored = [k \in Keys |-> Nothing]

Put(k, c) == stored[k] = Nothing /\ stored' = [stored EXCEPT ![k] = c]

Withdraw(k) == stored[k] # Nothing /\ stored' = [stored EXCEPT ![k] = Nothing]

StoreNext == \E k \in Keys : Withdraw(k) \/ \E c \in Contents : Put(k, c)

StoreSpec == StoreInit /\ [][StoreNext]_stored

============================================================================
