--------------------------- MODULE MCEffectDispatch ---------------------------
(* One objective under one grant that may be revoked. *)
EXTENDS EffectDispatch, TLC

CONSTANTS o1, root, v1

MCCandidates == o1 :> {root}
MCChain == root :> {root}
MCRank == root :> 0
MCQuota == root :> 1
MCExpires == root :> 9
MCAdminOp == {[kind |-> "revoke", grant |-> root]}
=============================================================================
