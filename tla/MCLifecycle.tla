----------------------------- MODULE MCLifecycle -----------------------------
(* One objective that two agents may claim, one set for each generation.      *)
EXTENDS Lifecycle, TLC

CONSTANTS o1, a1, a2, c1, c2, k1, s1, s2, g1, g2

RankOf == o1 :> 1
GenerationOf == s1 :> g1 @@ s2 :> g2
Symmetry == Permutations({a1, a2}) \cup Permutations({c1, c2})
=============================================================================
