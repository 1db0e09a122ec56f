---------------------------- MODULE MCLifecycleTwo ----------------------------
(* Two objectives, either of which may be claimed once.                       *)
EXTENDS Lifecycle, TLC

CONSTANTS o1, o2, a1, c1, k1, s1, g1

RankOf == o1 :> 1 @@ o2 :> 2
GenerationOf == s1 :> g1
=============================================================================
