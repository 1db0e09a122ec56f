--------------------------- MODULE MCGovernedChange ---------------------------
(* Two candidates over the boot generation, each with its own capability set. *)
EXTENDS GovernedChange, TLC

CONSTANTS c1, c2, boot, g1, g2, d1, d2, k1, k2, s1, s2, full, narrow

Symmetry == Permutations({c1, c2}) \cup Permutations({d1, d2})
              \cup Permutations({k1, k2}) \cup Permutations({g1, g2})
              \cup Permutations({s1, s2}) \cup Permutations({full, narrow})
=============================================================================
