---------------------------- MODULE MCStateStore ----------------------------
(* Two clients, one of them allowed to restore and to reset, on the smallest     *)
(* tables in which versions, replays and a second kind can disagree.             *)
EXTENDS StateStore, TLC

CONSTANTS p1, p2, k1, k2, c1, c2, t1

Symmetry == Permutations({k1, k2}) \cup Permutations({c1, c2})
=============================================================================
