---------------------------- MODULE MCJobEngine ----------------------------
(* Small instances of JobEngine for TLC.                                   *)
EXTENDS JobEngine, TLC

CONSTANTS k1, k2, p1, w1, w2, c1, c2

\* k1 is enqueued with a policy, k2 without one (as exports are).
MCPolicyOf == k1 :> p1 @@ k2 :> NoPolicy
MCPriority == [k \in Keys |-> 0]
MCPriorityMixed == k1 :> 0 @@ k2 :> 1

\* One retry, then blocked: attempts 1 and 2.
MCRetryLimit == p1 :> 1
MCBackoffInitial == p1 :> 1
MCBackoffCap == p1 :> 1
MCBackoffCap2 == p1 :> 2
MCJitter == p1 :> 2
MCNoJitter == p1 :> 0
MCCooldown == p1 :> 2
MCNoCooldown == p1 :> 0

MCPastHint == {0, 2}
=============================================================================
