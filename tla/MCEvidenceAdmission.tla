------------------------- MODULE MCEvidenceAdmission -------------------------
(* Two callers and two workers; the signer retries one command with a second       *)
(* payload, the evaluator quotes the signer's evidence, and a quota of one row.     *)
EXTENDS EvidenceAdmission, TLC

CONSTANTS c1, c2, w1, w2, k1, k2

Sealed(p, d, n) == [producer |-> p, subject |-> "candidate", operation |-> "change",
                    source |-> "sha256", disposition |-> d, payload |-> n]
Ask(p, k, x, s) == [principal |-> p, command |-> k, envelope |-> x, state |-> s]

MCRequests == {
  Ask("signer", k1, Sealed("signer", "SIGNED", 0), "SIGNED"),
  Ask("signer", k1, Sealed("signer", "SIGNED", 1), "SIGNED"),
  Ask("signer", k2, Sealed("signer", "EVALUATED", 0), "EVALUATED"),
  Ask("evaluator", k2, Sealed("signer", "EVALUATED", 0), "EVALUATED"),
  Ask("evaluator", k2, Sealed("evaluator", "EVALUATED", 0), "EVALUATED")}

Symmetry == Permutations({c1, c2}) \cup Permutations({w1, w2})
=============================================================================
