----------------------------- MODULE MCAuthority -----------------------------
(* A delegated grant under a root grant of the same quota, one request that   *)
(* both grants match and one that only the root grant matches.                *)
EXTENDS Authority, TLC

CONSTANTS r1, r2, root, child, v1, v2, a1, revokeId, rotateId, a2

MCCandidates == (r1 :> {root, child}) @@ (r2 :> {root})
MCChain == (root :> {root}) @@ (child :> {root, child})
MCRank == (root :> 0) @@ (child :> 1)
MCQuota == (root :> 1) @@ (child :> 1)
MCExpires == (root :> 4) @@ (child :> 3)
MCAdminOp == {[kind |-> "revoke", grant |-> root],
              [kind |-> "rotate", version |-> v2]}
Symmetry == Permutations({a1, a2}) \cup Permutations({revokeId, rotateId})
=============================================================================
