------------------------ MODULE GovernedChange_proofs ------------------------
(* The theorems about governed change. Every transition of a candidate has    *)
(* the shape Entry, so that the invariants are shown for three kinds of step: *)
(* a proposal, an Entry and a publication.                                    *)
EXTENDS GovernedChange, TLAPS

USE DEF Principal, Stage, State

-----------------------------------------------------------------------------
(* The shape of a step *)

\* The row of c in change_candidates is rewritten for its entry to state.
Rewritten(c, state, owned) ==
  /\ candidate' = [candidate EXCEPT ![c] = candidate'[c]]
  /\ candidate'[c] \in CandidateRow
  /\ candidate'[c].state = state
  /\ candidate'[c].source = candidate[c].source
  /\ candidate'[c].target = candidate[c].target
  /\ candidate'[c].rollback = candidate[c].rollback
  /\ candidate'[c].expected = candidate[c].expected
  /\ candidate'[c].owned = owned

\* The binding moves with an activation and with a rollback only.
Bound(c, state) ==
  CASE state = "ACTIVATED" -> /\ UnchangedSinceProposal(c)
                              /\ binding' = Switched(candidate[c].target, c)
    [] state = "ROLLED_BACK" -> /\ Owns(c)
                                /\ binding' = Switched(candidate[c].rollback, c)
    [] OTHER -> binding' = binding

OwnedAfter(c, state) ==
  IF state \in {"ACTIVATED", "ROLLED_BACK"} THEN binding.version + 1 ELSE candidate[c].owned

Entry(c, state, artifact) ==
  /\ c \in Candidate /\ state \in State
  /\ candidate[c] \in CandidateRow
  /\ state \in Legal(candidate[c].state)
  /\ artifact \in Digest \cup {Nothing}
  /\ state \in Stage => artifact \in Digest
  /\ state \in Stage \ {"BUILT"} => artifact = history[c][candidate[c].state].digest
  /\ state = "EVALUATED" => artifact = candidate[c].source
  /\ history' = Appended(c, state, Owner(state), artifact)
  /\ Rewritten(c, state, OwnedAfter(c, state))
  /\ Bound(c, state)
  /\ sets' = sets

Proposal(c, source, closure, target, rollback) ==
  /\ c \in Candidate /\ source \in Digest /\ closure \in Closure
  /\ target \in Generation /\ rollback \in Generation
  /\ \E who \in Principal : Propose(c, who, source, closure, target, rollback)

Publication(s, generation, grants) ==
  /\ s \in CapabilitySet /\ generation \in Generation /\ grants \in Grants
  /\ \E expected \in CapabilitySet \cup {Nothing}, version \in 0..MaxVersion :
       Publish(s, generation, grants, expected, version)

LEMMA LegalFacts ==
  /\ Legal("NONE") = {}
  /\ Legal("REJECTED") = {} /\ Legal("CONFIRMED") = {} /\ Legal("ROLLED_BACK") = {}
  /\ Legal("QUARANTINED") = {"ROLLED_BACK"}
  /\ Legal("ACTIVATED") = {"CONFIRMED", "QUARANTINED", "ROLLED_BACK"}
  /\ Legal("STAGED") = {"ACTIVATED", "QUARANTINED"}
  /\ Legal("SIGNED") = {"STAGED", "QUARANTINED"}
  /\ Legal("EVALUATED") = {"SIGNED", "REJECTED", "QUARANTINED"}
  /\ Legal("BUILT") = {"EVALUATED", "REJECTED", "QUARANTINED"}
  /\ Legal("PROPOSED") = {"BUILT", "REJECTED"}
BY DEF Legal

\* A candidate that may enter a state exists.
LEMMA EntersExisting ==
  ASSUME TypeOK, NEW c \in Candidate, NEW who, NEW state, MayEnter(c, who, state)
  PROVE  candidate[c] \in CandidateRow
BY LegalFacts DEF TypeOK, MayEnter, NoCandidate

\* Every step is a proposal, the entry of a candidate to a state, or a
\* publication.
LEMMA Shape ==
  ASSUME TypeOK, Next
  PROVE  \/ \E c, source, closure, target, rollback :
              Proposal(c, source, closure, target, rollback)
         \/ \E c, state, artifact : Entry(c, state, artifact)
         \/ \E s, generation, grants : Publication(s, generation, grants)
<1>1. ASSUME NEW c \in Candidate, NEW who \in Principal, NEW state \in State,
             NEW ob \in Observation, Advance(c, who, state, ob)
      PROVE  Entry(c, state, ob.digest)
  <2>1. candidate[c] \in CandidateRow
    BY <1>1, EntersExisting DEF Advance
  <2>2. candidate'[c] = [candidate[c] EXCEPT !.state = state]
    BY <1>1 DEF Advance, Moved, TypeOK
  <2>3. Rewritten(c, state, OwnedAfter(c, state))
    BY <1>1, <2>1, <2>2 DEF Advance, Moved, Rewritten, OwnedAfter, CandidateRow, TypeOK
  <2>4. ob.digest \in Digest
    BY <1>1 DEF Observation
  <2>. QED
    BY <1>1, <2>1, <2>3, <2>4 DEF Advance, MayEnter, Measured, Bound, Entry
<1>2. ASSUME NEW c \in Candidate, NEW who \in Principal, NEW ob \in Observation,
             Evaluate(c, who, ob)
      PROVE  Entry(c, "EVALUATED", ob.digest)
  <2>1. candidate[c] \in CandidateRow
    BY <1>2, EntersExisting DEF Evaluate
  <2>2. candidate'[c] = [candidate[c] EXCEPT !.state = "EVALUATED"]
    BY <1>2 DEF Evaluate, Moved, TypeOK
  <2>3. Rewritten(c, "EVALUATED", OwnedAfter(c, "EVALUATED"))
    BY <1>2, <2>1, <2>2 DEF Evaluate, Moved, Rewritten, OwnedAfter, CandidateRow, TypeOK
  <2>4. ob.digest \in Digest
    BY <1>2 DEF Observation
  <2>. QED
    BY <1>2, <2>1, <2>3, <2>4 DEF Evaluate, MayEnter, Measured, Bound, Entry
<1>3. ASSUME NEW c \in Candidate, NEW who \in Principal, NEW ob \in Observation,
             Activate(c, who, ob)
      PROVE  Entry(c, "ACTIVATED", ob.digest)
  <2>1. candidate[c] \in CandidateRow
    BY <1>3, EntersExisting DEF Activate
  <2>2. candidate'[c] = [candidate[c] EXCEPT !.state = "ACTIVATED",
                                             !.owned = binding.version + 1]
    BY <1>3 DEF Activate, Activated, TypeOK
  <2>3. Rewritten(c, "ACTIVATED", OwnedAfter(c, "ACTIVATED"))
    <3>1. binding.version + 1 \in Nat
      BY DEF TypeOK
    <3>2. candidate' = [candidate EXCEPT ![c] = candidate'[c]]
      BY <1>3, <2>2 DEF Activate, Activated, TypeOK
    <3>3. candidate'[c] \in CandidateRow
      BY <2>1, <2>2, <3>1 DEF CandidateRow
    <3>4. /\ candidate'[c].state = "ACTIVATED"
          /\ candidate'[c].source = candidate[c].source
          /\ candidate'[c].target = candidate[c].target
          /\ candidate'[c].rollback = candidate[c].rollback
          /\ candidate'[c].expected = candidate[c].expected
          /\ candidate'[c].owned = binding.version + 1
      BY <2>1, <2>2 DEF CandidateRow
    <3>. QED
      BY <3>2, <3>3, <3>4 DEF Rewritten, OwnedAfter
  <2>4. ob.digest \in Digest
    BY <1>3 DEF Observation
  <2>. QED
    BY <1>3, <2>1, <2>3, <2>4 DEF Activate, MayEnter, Measured, Bound, Entry
<1>4. ASSUME NEW c \in Candidate, NEW who \in Principal, NEW ob \in Observation,
             Confirm(c, who, ob)
      PROVE  Entry(c, "CONFIRMED", Nothing)
  <2>1. candidate[c] \in CandidateRow
    BY <1>4, EntersExisting DEF Confirm
  <2>2. candidate'[c] = [candidate[c] EXCEPT !.state = "CONFIRMED"]
    BY <1>4 DEF Confirm, Moved, TypeOK
  <2>3. Rewritten(c, "CONFIRMED", OwnedAfter(c, "CONFIRMED"))
    BY <1>4, <2>1, <2>2 DEF Confirm, Moved, Rewritten, OwnedAfter, CandidateRow, TypeOK
  <2>. QED
    BY <1>4, <2>1, <2>3 DEF Confirm, MayEnter, Bound, Entry
<1>5. ASSUME NEW c \in Candidate, NEW who \in Principal, NEW state \in State,
             Withdraw(c, who, state)
      PROVE  Entry(c, state, Nothing)
  <2>1. candidate[c] \in CandidateRow
    BY <1>5, EntersExisting DEF Withdraw
  <2>2. candidate'[c] = [candidate[c] EXCEPT !.state = state]
    BY <1>5 DEF Withdraw, Moved, TypeOK
  <2>3. Rewritten(c, state, OwnedAfter(c, state))
    BY <1>5, <2>1, <2>2 DEF Withdraw, Moved, Rewritten, OwnedAfter, CandidateRow, TypeOK
  <2>. QED
    BY <1>5, <2>1, <2>3 DEF Withdraw, MayEnter, Bound, Entry
<1>6. ASSUME NEW c \in Candidate, NEW who \in Principal, RollBack(c, who)
      PROVE  Entry(c, "ROLLED_BACK", Nothing)
  <2>1. candidate[c] \in CandidateRow
    BY <1>6, EntersExisting DEF RollBack
  <2>2. candidate'[c] = [candidate[c] EXCEPT !.state = "ROLLED_BACK",
                                             !.owned = binding.version + 1]
    BY <1>6 DEF RollBack, TypeOK
  <2>3. Rewritten(c, "ROLLED_BACK", OwnedAfter(c, "ROLLED_BACK"))
    <3>1. binding.version + 1 \in Nat
      BY DEF TypeOK
    <3>2. candidate' = [candidate EXCEPT ![c] = candidate'[c]]
      BY <1>6, <2>2 DEF RollBack, TypeOK
    <3>3. candidate'[c] \in CandidateRow
      BY <2>1, <2>2, <3>1 DEF CandidateRow
    <3>4. /\ candidate'[c].state = "ROLLED_BACK"
          /\ candidate'[c].source = candidate[c].source
          /\ candidate'[c].target = candidate[c].target
          /\ candidate'[c].rollback = candidate[c].rollback
          /\ candidate'[c].expected = candidate[c].expected
          /\ candidate'[c].owned = binding.version + 1
      BY <2>1, <2>2 DEF CandidateRow
    <3>. QED
      BY <3>2, <3>3, <3>4 DEF Rewritten, OwnedAfter
  <2>. QED
    BY <1>6, <2>1, <2>3 DEF RollBack, MayEnter, Bound, Entry
<1>7. CASE \E c \in Candidate, who \in Principal : Step(c, who)
  <2>1. PICK c \in Candidate, who \in Principal : Step(c, who)
    BY <1>7
  <2>2. CASE \E source \in Digest, closure \in Closure, target, rollback \in Generation :
               Propose(c, who, source, closure, target, rollback)
    BY <2>2 DEF Proposal
  <2>3. CASE \E ob \in Observation :
               \/ \E state \in State : Advance(c, who, state, ob)
               \/ Evaluate(c, who, ob)
               \/ Activate(c, who, ob)
               \/ Confirm(c, who, ob)
    BY <2>3, <1>1, <1>2, <1>3, <1>4
  <2>4. CASE (\E state \in State : Withdraw(c, who, state)) \/ RollBack(c, who)
    BY <2>4, <1>5, <1>6
  <2>. QED
    BY <2>1, <2>2, <2>3, <2>4 DEF Step
<1>8. CASE \E s \in CapabilitySet, generation \in Generation, grants \in Grants,
             expected \in CapabilitySet \cup {Nothing}, version \in 0..MaxVersion :
               Publish(s, generation, grants, expected, version)
  BY <1>8 DEF Publication
<1>. QED
  BY <1>7, <1>8 DEF Next

-----------------------------------------------------------------------------
(* Which rows a step writes *)

LEMMA ProposalRows ==
  ASSUME TypeOK, NEW c, NEW source, NEW closure, NEW target, NEW rollback,
         Proposal(c, source, closure, target, rollback)
  PROVE  /\ c \in Candidate /\ candidate[c] = NoCandidate /\ rollback = binding.active
         /\ candidate'[c] \in CandidateRow
         /\ candidate'[c].state = "PROPOSED" /\ candidate'[c].source = source
         /\ candidate'[c].target = target /\ candidate'[c].rollback = rollback
         /\ candidate'[c].expected = binding.version
         /\ history'[c]["PROPOSED"] \in HistoryRow
         /\ \A s \in State \ {"PROPOSED"} : history'[c][s] = history[c][s]
         /\ \A d \in Candidate \ {c} : candidate'[d] = candidate[d] /\ history'[d] = history[d]
         /\ binding' = binding /\ sets' = sets
<1>1. /\ c \in Candidate /\ source \in Digest /\ closure \in Closure
      /\ target \in Generation /\ rollback \in Generation
  BY DEF Proposal
<1>2. /\ candidate[c] = NoCandidate /\ rollback = binding.active
      /\ candidate' = [candidate EXCEPT ![c] =
           [state |-> "PROPOSED", source |-> source, closure |-> closure,
            target |-> target, rollback |-> rollback,
            expected |-> binding.version, owned |-> 0]]
      /\ history' = Appended(c, "PROPOSED", "evaluator", Nothing)
      /\ binding' = binding /\ sets' = sets
  BY DEF Proposal, Propose
<1>3. candidate'[c] = [state |-> "PROPOSED", source |-> source, closure |-> closure,
                       target |-> target, rollback |-> rollback,
                       expected |-> binding.version, owned |-> 0]
  BY <1>1, <1>2 DEF TypeOK
<1>4. candidate'[c] \in CandidateRow
  BY <1>1, <1>3 DEF TypeOK, CandidateRow
<1>5. /\ history'[c]["PROPOSED"] \in HistoryRow
      /\ \A s \in State \ {"PROPOSED"} : history'[c][s] = history[c][s]
      /\ \A d \in Candidate \ {c} : history'[d] = history[d]
  BY <1>1, <1>2 DEF TypeOK, Appended, HistoryRow
<1>6. \A d \in Candidate \ {c} : candidate'[d] = candidate[d]
  BY <1>1, <1>2 DEF TypeOK
<1>. QED
  BY <1>1, <1>2, <1>3, <1>4, <1>5, <1>6

LEMMA EntryRows ==
  ASSUME TypeOK, NEW c, NEW state, NEW artifact, Entry(c, state, artifact)
  PROVE  /\ c \in Candidate /\ state \in State
         /\ candidate[c] \in CandidateRow /\ candidate'[c] \in CandidateRow
         /\ history'[c][state] = [actor |-> Owner(state), digest |-> artifact]
         /\ \A s \in State \ {state} : history'[c][s] = history[c][s]
         /\ \A d \in Candidate \ {c} : candidate'[d] = candidate[d] /\ history'[d] = history[d]
BY DEF Entry, Rewritten, Appended, TypeOK

\* The row a publication leaves for each set.
LEMMA PublicationRows ==
  ASSUME TypeOK, NEW s, NEW generation, NEW grants,
         Publication(s, generation, grants)
  PROVE  /\ s \in CapabilitySet /\ generation = binding.active
         /\ UNCHANGED <<binding, candidate, history>>
         /\ sets' \in [CapabilitySet -> SetRow \cup {NoSet}]
         /\ sets'[s] = [version |-> sets[s].version + 1, active |-> TRUE,
                        generation |-> generation, grants |-> grants]
         /\ sets[s] # NoSet => sets[s].generation = generation /\ sets[s].grants = grants
         /\ \A t \in CapabilitySet \ {s} :
              IF sets[t].active
              THEN /\ sets[t] # NoSet /\ sets'[t] # NoSet
                   /\ sets'[t].active = FALSE
                   /\ sets'[t].version = sets[t].version + 1
                   /\ sets'[t].generation = sets[t].generation
                   /\ sets'[t].grants = sets[t].grants
              ELSE sets'[t] = sets[t]
<1>1. /\ s \in CapabilitySet /\ generation \in Generation /\ grants \in Grants
      /\ generation = binding.active
      /\ UNCHANGED <<binding, candidate, history>>
      /\ sets[s] # NoSet => sets[s].generation = generation /\ sets[s].grants = grants
      /\ \A t \in {s} \cup ActiveSets : sets[t].version < MaxVersion
      /\ sets' = Replaced(s, generation, grants)
  BY DEF Publication, Publish, IsActiveGeneration, Denotes
<1>2. MaxVersion \in Nat
  BY ChangeAssumption DEF ChangeAssumption
<1>3. sets'[s] = [version |-> sets[s].version + 1, active |-> TRUE,
                  generation |-> generation, grants |-> grants]
  BY <1>1 DEF Replaced
<1>4. sets[s].version \in 0..MaxVersion
  BY <1>1, <1>2 DEF TypeOK, SetRow, NoSet
<1>5. sets'[s] \in SetRow
  BY <1>1, <1>2, <1>3, <1>4 DEF SetRow
<1>6. ASSUME NEW t \in CapabilitySet \ {s}, sets[t].active
      PROVE  /\ sets[t] \in SetRow /\ sets'[t] \in SetRow
             /\ sets'[t].active = FALSE
             /\ sets'[t].version = sets[t].version + 1
             /\ sets'[t].generation = sets[t].generation
             /\ sets'[t].grants = sets[t].grants
  <2>1. sets[t] \in SetRow
    BY <1>6 DEF TypeOK, NoSet
  <2>2. sets[t].version \in 1..MaxVersion /\ sets[t].version < MaxVersion
    BY <1>1, <1>6, <2>1 DEF ActiveSets, SetRow
  <2>3. sets'[t] = [sets[t] EXCEPT !.active = FALSE, !.version = sets[t].version + 1]
    BY <1>1, <1>6 DEF Replaced
  <2>4. sets[t].version + 1 \in 1..MaxVersion
    BY <1>2, <2>2
  <2>. QED
    BY <2>1, <2>3, <2>4 DEF SetRow
<1>7. ASSUME NEW t \in CapabilitySet \ {s}, ~sets[t].active
      PROVE  sets'[t] = sets[t]
  BY <1>1, <1>7 DEF Replaced
<1>8. NoSet \notin SetRow
  BY <1>2 DEF NoSet, SetRow
<1>9. sets' \in [CapabilitySet -> SetRow \cup {NoSet}]
  <2>1. \A t \in CapabilitySet : sets'[t] \in SetRow \cup {NoSet}
    BY <1>5, <1>6, <1>7 DEF TypeOK
  <2>2. sets' = [t \in CapabilitySet |-> sets'[t]]
    BY <1>1 DEF Replaced
  <2>. QED
    BY <2>1, <2>2
<1>. QED
  BY <1>1, <1>3, <1>6, <1>7, <1>8, <1>9

\* What a publication does to the sets it does not publish.
LEMMA OtherSets ==
  ASSUME TypeOK, NEW s, NEW generation, NEW grants,
         Publication(s, generation, grants), NEW t \in CapabilitySet \ {s}
  PROVE  /\ sets[t].active =>
              /\ sets[t] # NoSet /\ sets'[t] # NoSet
              /\ sets'[t].generation = sets[t].generation
              /\ sets'[t].grants = sets[t].grants
         /\ ~sets[t].active => sets'[t] = sets[t]
<1>1. \A u \in CapabilitySet \ {s} :
        IF sets[u].active
        THEN /\ sets[u] # NoSet /\ sets'[u] # NoSet
             /\ sets'[u].active = FALSE
             /\ sets'[u].version = sets[u].version + 1
             /\ sets'[u].generation = sets[u].generation
             /\ sets'[u].grants = sets[u].grants
        ELSE sets'[u] = sets[u]
  BY PublicationRows
<1>. QED
  BY <1>1

-----------------------------------------------------------------------------
(* The inductive invariant *)

\* Nothing is recorded of a candidate that was not proposed.
Untouched ==
  \A c \in Candidate : candidate[c] = NoCandidate =>
    \A s \in State : history[c][s] = NoRow

\* The stage a candidate is in is on record.
PresentEntered ==
  \A c \in Candidate : candidate[c].state \in Stage => Entered(c, candidate[c].state)

\* What is on record was asked for by its owner.
ByOwner ==
  \A c \in Candidate : \A s \in State \ {"PROPOSED"} :
    Entered(c, s) => history[c][s].actor = Owner(s)

\* The stages are on record in their order, and from the evaluation on each
\* measured the source. A candidate that was only proposed has no evaluation.
MeasuredAt(c, s) == Entered(c, s) /\ history[c][s].digest = candidate[c].source

StagesInOrder(c) ==
  /\ Entered(c, "EVALUATED") => MeasuredAt(c, "EVALUATED") /\ MeasuredAt(c, "BUILT")
  /\ Entered(c, "SIGNED") => MeasuredAt(c, "SIGNED") /\ Entered(c, "EVALUATED")
  /\ Entered(c, "STAGED") => MeasuredAt(c, "STAGED") /\ Entered(c, "SIGNED")
  /\ Entered(c, "ACTIVATED") => MeasuredAt(c, "ACTIVATED") /\ Entered(c, "STAGED")
  /\ Entered(c, "CONFIRMED") => Entered(c, "ACTIVATED")
  /\ candidate[c].state = "PROPOSED" => ~Entered(c, "EVALUATED")

Chain == \A c \in Candidate : StagesInOrder(c)

\* A proposal is made against a version of the past, and an activated one
\* against a version that is gone.
Versions ==
  \A c \in Candidate : candidate[c] # NoCandidate =>
    /\ candidate[c].expected <= binding.version
    /\ Entered(c, "ACTIVATED") => candidate[c].expected < binding.version

RollbacksVouched ==
  \A c \in Candidate : candidate[c] # NoCandidate => Vouched(candidate[c].rollback)

Records == Untouched /\ PresentEntered /\ ByOwner /\ Chain

IInv == /\ TypeOK /\ Records /\ Versions /\ OwnerAgrees
        /\ RollbacksVouched /\ GenerationsAreEvaluated

\* Every binding, candidate, record and set is of its type: the refusals of the
\* handlers leave no row half written (lifecycle.py).
THEOREM TypeCorrect == Spec => []TypeOK
<1>1. Init => TypeOK
  <2>. SUFFICES ASSUME Init PROVE TypeOK
    OBVIOUS
  <2>1. BootGeneration \in Generation
    BY ChangeAssumption DEF ChangeAssumption
  <2>. QED
    BY <2>1 DEF Init, TypeOK
<1>2. TypeOK /\ [Next]_vars => TypeOK'
  <2>. SUFFICES ASSUME TypeOK, [Next]_vars PROVE TypeOK'
    OBVIOUS
  <2>1. CASE UNCHANGED vars
    BY <2>1 DEF vars, TypeOK
  <2>2. ASSUME NEW c, NEW source, NEW closure, NEW target, NEW rollback,
               Proposal(c, source, closure, target, rollback)
        PROVE  TypeOK'
    <3>1. candidate' \in [Candidate -> CandidateRow \cup {NoCandidate}]
      <4>1. candidate' = [candidate EXCEPT ![c] =
              [state |-> "PROPOSED", source |-> source, closure |-> closure,
               target |-> target, rollback |-> rollback,
               expected |-> binding.version, owned |-> 0]]
        BY <2>2 DEF Proposal, Propose
      <4>2. candidate' = [candidate EXCEPT ![c] = candidate'[c]]
        BY <2>2, <4>1 DEF Proposal, TypeOK
      <4>. QED
        BY <2>2, <4>2, ProposalRows DEF TypeOK
    <3>2. history' \in [Candidate -> [State -> HistoryRow \cup {NoRow}]]
      BY <2>2 DEF TypeOK, Proposal, Propose, Appended, HistoryRow
    <3>. QED
      BY <2>2, <3>1, <3>2, ProposalRows DEF TypeOK
  <2>3. ASSUME NEW c, NEW state, NEW artifact, Entry(c, state, artifact)
        PROVE  TypeOK'
    <3>1. Owner(state) \in Principal
      BY <2>3, LegalFacts DEF Entry, Owner, CandidateRow
    <3>2. [actor |-> Owner(state), digest |-> artifact] \in HistoryRow
      BY <2>3, <3>1 DEF Entry, HistoryRow
    <3>3. history' \in [Candidate -> [State -> HistoryRow \cup {NoRow}]]
      BY <2>3, <3>2 DEF Entry, Appended, TypeOK
    <3>4. candidate' \in [Candidate -> CandidateRow \cup {NoCandidate}]
      BY <2>3 DEF Entry, Rewritten, TypeOK
    <3>5. candidate[c] \in CandidateRow /\ c \in Candidate
      BY <2>3 DEF Entry
    <3>6. \A generation \in Generation :
            Switched(generation, c) \in [active : Generation,
              previous : Generation \cup {Nothing},
              owner : Candidate \cup {"system:boot"}, version : Nat \ {0}]
      BY <3>5 DEF Switched, TypeOK
    <3>7. binding' \in [active : Generation, previous : Generation \cup {Nothing},
                        owner : Candidate \cup {"system:boot"}, version : Nat \ {0}]
      BY <2>3, <3>5, <3>6 DEF Entry, Bound, TypeOK, CandidateRow
    <3>. QED
      BY <2>3, <3>3, <3>4, <3>7 DEF Entry, TypeOK
  <2>4. ASSUME NEW s, NEW generation, NEW grants, Publication(s, generation, grants)
        PROVE  TypeOK'
    BY <2>4, PublicationRows DEF TypeOK
  <2>. QED
    BY <2>1, <2>2, <2>3, <2>4, Shape
<1>. QED
  BY <1>1, <1>2, PTL DEF Spec

\* The artifact of a stage after the build is the source of the candidate.
LEMMA StageDigest ==
  ASSUME TypeOK, Records, NEW c, NEW state \in Stage \ {"BUILT"}, NEW artifact,
         Entry(c, state, artifact)
  PROVE  artifact = candidate[c].source
<1>1. c \in Candidate
  BY DEF Entry
<1>2. CASE state = "EVALUATED"
  BY <1>2 DEF Entry
<1>3. CASE state # "EVALUATED"
  <2>1. candidate[c].state \in {"EVALUATED", "SIGNED", "STAGED"}
    BY <1>3, LegalFacts DEF Entry, CandidateRow
  <2>2. Entered(c, candidate[c].state)
    BY <1>1, <2>1 DEF Records, PresentEntered
  <2>3. history[c][candidate[c].state].digest = candidate[c].source
    BY <1>1, <2>1, <2>2 DEF Records, Chain, StagesInOrder, MeasuredAt
  <2>. QED
    BY <2>3 DEF Entry
<1>. QED
  BY <1>2, <1>3

LEMMA RecordsStay ==
  ASSUME TypeOK, TypeOK', Records, [Next]_vars
  PROVE  Records'
<1>. USE DEF Records, Untouched, PresentEntered, ByOwner, Chain, StagesInOrder, MeasuredAt, Entered
<1>1. CASE UNCHANGED <<binding, candidate, history>>
  BY <1>1
<1>2. ASSUME NEW c, NEW source, NEW closure, NEW target, NEW rollback,
             Proposal(c, source, closure, target, rollback)
      PROVE  Records'
  <2>1. \A s \in State \ {"PROPOSED"} : history'[c][s] = NoRow
    BY <1>2, ProposalRows
  <2>2. Untouched' /\ PresentEntered'
    BY <1>2, ProposalRows DEF CandidateRow, NoCandidate
  <2>3. ByOwner'
    BY <1>2, <2>1, ProposalRows
  <2>4. Chain'
    BY <1>2, <2>1, ProposalRows
  <2>. QED
    BY <2>2, <2>3, <2>4
<1>3. ASSUME NEW c, NEW state, NEW artifact, Entry(c, state, artifact)
      PROVE  Records'
  <2>0. /\ c \in Candidate /\ state \in State
        /\ candidate[c] \in CandidateRow /\ candidate'[c] \in CandidateRow
        /\ history'[c][state] = [actor |-> Owner(state), digest |-> artifact]
        /\ \A s \in State \ {state} : history'[c][s] = history[c][s]
        /\ \A d \in Candidate \ {c} : candidate'[d] = candidate[d] /\ history'[d] = history[d]
    BY <1>3, EntryRows
  <2>1. state # "PROPOSED" /\ state \in Legal(candidate[c].state)
    BY <1>3, <2>0, LegalFacts DEF Entry, CandidateRow
  <2>2. candidate'[c].state = state /\ candidate'[c].source = candidate[c].source
    BY <1>3 DEF Entry, Rewritten
  <2>3. state \in Stage => history'[c][state] # NoRow
    <3>1. state \in Stage => artifact # Nothing
      BY <1>3, ChangeAssumption DEF Entry, ChangeAssumption
    <3>. QED
      BY <2>0, <3>1 DEF NoRow
  <2>4. Untouched' /\ PresentEntered'
    BY <2>0, <2>2, <2>3 DEF CandidateRow, NoCandidate
  <2>5. ByOwner'
    BY <2>0
  <2>6. ASSUME NEW d \in Candidate, d # c PROVE StagesInOrder(d)'
    BY <2>0, <2>6
  <2>7. StagesInOrder(c)'
    <3>1. c \in Candidate /\ candidate[c].state \in State
      BY <2>0 DEF CandidateRow
    <3>2. CASE state = "BUILT"
      <4>1. candidate[c].state = "PROPOSED"
        BY <2>1, <3>1, <3>2, LegalFacts
      <4>. QED
        BY <2>0, <2>2, <3>1, <3>2, <4>1
    <3>3. CASE state \in Stage \ {"BUILT"}
      <4>1. artifact = candidate[c].source
        BY <1>3, <3>3, StageDigest
      <4>2. /\ Entered(c, candidate[c].state)
            /\ state = "EVALUATED" => candidate[c].state = "BUILT"
            /\ state = "SIGNED" => candidate[c].state = "EVALUATED"
            /\ state = "STAGED" => candidate[c].state = "SIGNED"
            /\ state = "ACTIVATED" => candidate[c].state = "STAGED"
        BY <2>1, <3>1, <3>3, LegalFacts
      <4>3. history[c][candidate[c].state].digest = artifact
        BY <1>3, <3>3 DEF Entry
      <4>4. MeasuredAt(c, state)' /\ candidate[c].state # state
        BY <2>0, <2>2, <2>3, <3>3, <4>1, <4>2
      <4>. QED
        BY <2>0, <2>2, <3>1, <3>3, <4>1, <4>2, <4>3, <4>4
    <3>4. CASE state = "CONFIRMED"
      <4>1. Entered(c, "ACTIVATED")
        BY <2>1, <3>1, <3>4, LegalFacts
      <4>. QED
        BY <2>0, <2>2, <3>1, <3>4, <4>1
    <3>5. CASE state \in {"REJECTED", "QUARANTINED", "ROLLED_BACK"}
      BY <2>0, <2>2, <3>1, <3>5
    <3>. QED
      BY <2>0, <2>1, <3>2, <3>3, <3>4, <3>5
  <2>. QED
    BY <2>4, <2>5, <2>6, <2>7
<1>4. ASSUME NEW s, NEW generation, NEW grants, Publication(s, generation, grants)
      PROVE  Records'
  BY <1>1, <1>4, PublicationRows
<1>. QED
  BY <1>1, <1>2, <1>3, <1>4, Shape DEF vars

-----------------------------------------------------------------------------
(* Versions and ownership *)

LEMMA VersionsStay ==
  ASSUME TypeOK, Versions, Untouched, [Next]_vars
  PROVE  Versions'
<1>. USE DEF Versions, Untouched, Entered
<1>1. CASE UNCHANGED <<binding, candidate, history>>
  BY <1>1
<1>2. ASSUME NEW c, NEW source, NEW closure, NEW target, NEW rollback,
             Proposal(c, source, closure, target, rollback)
      PROVE  Versions'
  <2>1. /\ c \in Candidate /\ candidate[c] = NoCandidate /\ binding' = binding
        /\ candidate'[c].expected = binding.version
        /\ history'[c]["ACTIVATED"] = history[c]["ACTIVATED"]
        /\ \A d \in Candidate \ {c} : candidate'[d] = candidate[d] /\ history'[d] = history[d]
    BY <1>2, ProposalRows
  <2>2. history'[c]["ACTIVATED"] = NoRow
    BY <2>1
  <2>. QED
    BY <2>1, <2>2 DEF TypeOK
<1>3. ASSUME NEW c, NEW state, NEW artifact, Entry(c, state, artifact)
      PROVE  Versions'
  <2>1. /\ c \in Candidate /\ state \in State
        /\ candidate[c] \in CandidateRow
        /\ \A s \in State \ {state} : history'[c][s] = history[c][s]
        /\ \A d \in Candidate \ {c} : candidate'[d] = candidate[d] /\ history'[d] = history[d]
    BY <1>3, EntryRows
  <2>2. candidate'[c].expected = candidate[c].expected
    BY <1>3 DEF Entry, Rewritten
  <2>3. candidate[c] # NoCandidate
    BY <2>1 DEF CandidateRow, NoCandidate
  <2>4. /\ binding.version \in Nat
        /\ \A d \in Candidate : candidate[d] # NoCandidate => candidate[d].expected \in Nat
    BY DEF TypeOK, CandidateRow
  <2>5. CASE state \in {"ACTIVATED", "ROLLED_BACK"}
    <3>1. binding'.version = binding.version + 1
      BY <1>3, <2>5 DEF Entry, Bound, Switched
    <3>. QED
      BY <2>1, <2>2, <2>3, <2>4, <3>1
  <2>6. CASE state \notin {"ACTIVATED", "ROLLED_BACK"}
    <3>1. binding' = binding
      BY <1>3, <2>6 DEF Entry, Bound
    <3>. QED
      BY <2>1, <2>2, <2>3, <2>6, <3>1
  <2>. QED
    BY <2>5, <2>6
<1>4. ASSUME NEW s, NEW generation, NEW grants, Publication(s, generation, grants)
      PROVE  Versions'
  BY <1>1, <1>4, PublicationRows
<1>. QED
  BY <1>1, <1>2, <1>3, <1>4, Shape DEF vars

LEMMA OwnerAgreesStays ==
  ASSUME TypeOK, OwnerAgrees, [Next]_vars
  PROVE  OwnerAgrees'
<1>. USE DEF OwnerAgrees
<1>1. CASE UNCHANGED <<binding, candidate, history>>
  BY <1>1
<1>2. ASSUME NEW c, NEW source, NEW closure, NEW target, NEW rollback,
             Proposal(c, source, closure, target, rollback)
      PROVE  OwnerAgrees'
  <2>1. /\ c \in Candidate /\ candidate[c] = NoCandidate /\ binding' = binding
        /\ \A d \in Candidate \ {c} : candidate'[d] = candidate[d]
    BY <1>2, ProposalRows
  <2>. QED
    BY <2>1
<1>3. ASSUME NEW c, NEW state, NEW artifact, Entry(c, state, artifact)
      PROVE  OwnerAgrees'
  <2>1. /\ c \in Candidate /\ state \in State
        /\ candidate[c] \in CandidateRow /\ candidate'[c] \in CandidateRow
        /\ \A d \in Candidate \ {c} : candidate'[d] = candidate[d]
    BY <1>3, EntryRows
  <2>2. /\ candidate'[c].state = state
        /\ candidate'[c].target = candidate[c].target
        /\ candidate'[c].rollback = candidate[c].rollback
        /\ candidate'[c].owned = OwnedAfter(c, state)
    BY <1>3 DEF Entry, Rewritten
  <2>3. candidate'[c] # NoCandidate
    BY <2>1 DEF CandidateRow, NoCandidate
  <2>4. candidate[c].state # "ROLLED_BACK"
    BY <1>3, LegalFacts DEF Entry
  <2>5. CASE state = "ACTIVATED"
    <3>1. binding' = [active |-> candidate[c].target, previous |-> candidate[c].rollback,
                      owner |-> c, version |-> binding.version + 1]
      BY <1>3, <2>5 DEF Entry, Bound, UnchangedSinceProposal, Switched
    <3>. QED
      BY <2>1, <2>2, <2>3, <2>5, <3>1 DEF OwnedAfter
  <2>6. CASE state = "ROLLED_BACK"
    <3>1. binding' = [active |-> candidate[c].rollback, previous |-> candidate[c].target,
                      owner |-> c, version |-> binding.version + 1]
      BY <1>3, <2>6 DEF Entry, Bound, Owns, Switched
    <3>. QED
      BY <2>1, <2>2, <2>3, <2>6, <3>1 DEF OwnedAfter
  <2>7. CASE state \notin {"ACTIVATED", "ROLLED_BACK"}
    <3>1. binding' = binding /\ candidate'[c].owned = candidate[c].owned
      BY <1>3, <2>2, <2>7 DEF Entry, Bound, OwnedAfter
    <3>. QED
      BY <2>1, <2>2, <2>3, <2>4, <2>7, <3>1
  <2>. QED
    BY <2>5, <2>6, <2>7
<1>4. ASSUME NEW s, NEW generation, NEW grants, Publication(s, generation, grants)
      PROVE  OwnerAgrees'
  BY <1>1, <1>4, PublicationRows
<1>. QED
  BY <1>1, <1>2, <1>3, <1>4, Shape DEF vars

-----------------------------------------------------------------------------
(* Generations *)

\* A generation that is vouched for stays so: no stage of the candidate that
\* vouches for it is recorded again with another artifact.
LEMMA VouchedStays ==
  ASSUME TypeOK, Records, [Next]_vars, NEW generation, Vouched(generation)
  PROVE  Vouched(generation)'
<1>. USE DEF Entered
<1>1. CASE generation = BootGeneration
  BY <1>1 DEF Vouched
<1>2. CASE UNCHANGED <<binding, candidate, history>>
  BY <1>2 DEF Vouched
<1>3. ASSUME NEW d \in Candidate, candidate[d] # NoCandidate,
             candidate[d].target = generation,
             \A state \in Stage : /\ history[d][state] # NoRow
                                  /\ history[d][state].digest = candidate[d].source
      PROVE  Vouched(generation)'
  <2>1. ASSUME NEW c, NEW source, NEW closure, NEW target, NEW rollback,
               Proposal(c, source, closure, target, rollback)
        PROVE  Vouched(generation)'
    <3>1. c # d /\ \A e \in Candidate \ {c} : /\ candidate'[e] = candidate[e]
                                              /\ history'[e] = history[e]
      BY <1>3, <2>1, ProposalRows
    <3>2. candidate'[d] = candidate[d] /\ history'[d] = history[d]
      BY <3>1
    <3>. QED
      BY <1>3, <3>2 DEF Vouched
  <2>2. ASSUME NEW c, NEW state, NEW artifact, Entry(c, state, artifact)
        PROVE  Vouched(generation)'
    <3>1. /\ c \in Candidate /\ state \in State
          /\ candidate[c] \in CandidateRow /\ candidate'[c] \in CandidateRow
          /\ history'[c][state] = [actor |-> Owner(state), digest |-> artifact]
          /\ \A s \in State \ {state} : history'[c][s] = history[c][s]
          /\ \A e \in Candidate \ {c} : /\ candidate'[e] = candidate[e]
                                         /\ history'[e] = history[e]
      BY <2>2, EntryRows
    <3>2. CASE c # d
      <4>1. candidate'[d] = candidate[d] /\ history'[d] = history[d]
        BY <3>1, <3>2
      <4>. QED
        BY <1>3, <4>1 DEF Vouched
    <3>3. CASE c = d
      <4>1. /\ candidate'[d].target = generation
            /\ candidate'[d].source = candidate[d].source
        BY <1>3, <2>2, <3>3 DEF Entry, Rewritten
      <4>2. candidate'[d] # NoCandidate
        BY <3>1, <3>3 DEF CandidateRow, NoCandidate
      <4>3. state # "BUILT"
        <5>1. candidate[d].state # "PROPOSED"
          BY <1>3 DEF Records, Chain, StagesInOrder
        <5>. QED
          BY <2>2, <3>1, <3>3, <5>1, LegalFacts DEF Entry, CandidateRow
      <4>4. state \in Stage => artifact = candidate[d].source /\ artifact \in Digest
        BY <2>2, <3>3, <4>3, StageDigest DEF Entry
      <4>5. state \in Stage => history'[d][state] # NoRow
        <5>1. Nothing \notin Digest
          BY ChangeAssumption DEF ChangeAssumption
        <5>. QED
          BY <3>1, <3>3, <4>4, <5>1 DEF NoRow
      <4>6. \A s \in Stage : /\ history'[d][s] # NoRow
                             /\ history'[d][s].digest = candidate'[d].source
        BY <1>3, <3>1, <3>3, <4>1, <4>4, <4>5
      <4>. QED
        BY <4>1, <4>2, <4>6 DEF Vouched
    <3>. QED
      BY <3>2, <3>3
  <2>3. ASSUME NEW s, NEW gen, NEW grants, Publication(s, gen, grants)
        PROVE  Vouched(generation)'
    BY <1>2, <2>3, PublicationRows
  <2>. QED
    BY <1>2, <2>1, <2>2, <2>3, Shape DEF vars
<1>. QED
  BY <1>1, <1>3 DEF Vouched

\* A candidate that has entered ACTIVATED vouches for its target.
LEMMA ActivatedVouches ==
  ASSUME Records, NEW c \in Candidate, candidate[c] # NoCandidate, Entered(c, "ACTIVATED")
  PROVE  Vouched(candidate[c].target)
BY DEF Records, Chain, StagesInOrder, MeasuredAt, Vouched

LEMMA RollbacksVouchedStay ==
  ASSUME TypeOK, Records, GenerationsAreEvaluated, RollbacksVouched, [Next]_vars
  PROVE  RollbacksVouched'
<1>1. SUFFICES ASSUME NEW c \in Candidate, candidate'[c] # NoCandidate, NEW generation,
                      generation = candidate'[c].rollback
               PROVE  Vouched(generation)'
  BY DEF RollbacksVouched, Vouched
<1>2. Vouched(generation)
  <2>1. CASE UNCHANGED <<binding, candidate, history>>
    BY <1>1, <2>1 DEF RollbacksVouched
  <2>2. ASSUME NEW d, NEW source, NEW closure, NEW target, NEW rollback,
               Proposal(d, source, closure, target, rollback)
        PROVE  Vouched(generation)
    <3>1. /\ d \in Candidate /\ candidate'[d].rollback = binding.active
          /\ \A e \in Candidate \ {d} : candidate'[e] = candidate[e]
      BY <2>2, ProposalRows
    <3>2. CASE c = d
      BY <1>1, <3>1, <3>2 DEF GenerationsAreEvaluated
    <3>3. CASE c # d
      BY <1>1, <3>1, <3>3 DEF RollbacksVouched
    <3>. QED
      BY <3>2, <3>3
  <2>3. ASSUME NEW d, NEW state, NEW artifact, Entry(d, state, artifact)
        PROVE  Vouched(generation)
    <3>1. /\ d \in Candidate /\ candidate[d] # NoCandidate
          /\ candidate'[d].rollback = candidate[d].rollback
          /\ \A e \in Candidate \ {d} : candidate'[e] = candidate[e]
      <4>1. /\ d \in Candidate /\ candidate[d] \in CandidateRow
            /\ \A e \in Candidate \ {d} : candidate'[e] = candidate[e]
        BY <2>3, EntryRows
      <4>2. candidate[d] # NoCandidate
        BY <4>1 DEF CandidateRow, NoCandidate
      <4>3. candidate'[d].rollback = candidate[d].rollback
        BY <2>3 DEF Entry, Rewritten
      <4>. QED
        BY <4>1, <4>2, <4>3
    <3>. QED
      BY <1>1, <3>1 DEF RollbacksVouched
  <2>4. ASSUME NEW s, NEW gen, NEW grants, Publication(s, gen, grants)
        PROVE  Vouched(generation)
    BY <2>1, <2>4, PublicationRows
  <2>. QED
    BY <2>1, <2>2, <2>3, <2>4, Shape DEF vars
<1>. QED
  BY <1>2, VouchedStays

LEMMA GenerationsStay ==
  ASSUME TypeOK, TypeOK', Records, Records', GenerationsAreEvaluated, RollbacksVouched,
         [Next]_vars
  PROVE  GenerationsAreEvaluated'
<1>1. ASSUME NEW generation, generation = binding'.active
      PROVE  Vouched(generation)'
  <2>1. CASE binding' = binding
    <3>1. Vouched(generation)
      BY <1>1, <2>1 DEF GenerationsAreEvaluated
    <3>. QED
      BY <3>1, VouchedStays
  <2>2. ASSUME NEW c, NEW state, NEW artifact, Entry(c, state, artifact), binding' # binding
        PROVE  Vouched(generation)'
    <3>1. /\ c \in Candidate
          /\ candidate[c] \in CandidateRow /\ candidate'[c] \in CandidateRow
          /\ history'[c][state] = [actor |-> Owner(state), digest |-> artifact]
      BY <2>2, EntryRows
    <3>2. CASE state = "ACTIVATED"
      <4>1. candidate'[c].target = generation
        BY <1>1, <2>2, <3>2 DEF Entry, Bound, Switched, Rewritten
      <4>2. candidate'[c] # NoCandidate
        BY <3>1 DEF CandidateRow, NoCandidate
      <4>3. history'[c]["ACTIVATED"] # NoRow
        <5>1. artifact \in Digest /\ Nothing \notin Digest
          BY <2>2, <3>2, ChangeAssumption DEF Entry, ChangeAssumption
        <5>. QED
          BY <3>1, <3>2, <5>1 DEF NoRow
      <4>. QED
        BY <3>1, <4>1, <4>2, <4>3
           DEF Records, Chain, StagesInOrder, MeasuredAt, Entered, Vouched
    <3>3. CASE state = "ROLLED_BACK"
      <4>1. generation = candidate[c].rollback /\ candidate[c] # NoCandidate
        BY <1>1, <2>2, <3>1, <3>3 DEF Entry, Bound, Switched, CandidateRow, NoCandidate
      <4>2. Vouched(generation)
        BY <3>1, <4>1 DEF RollbacksVouched
      <4>. QED
        BY <4>2, VouchedStays
    <3>. QED
      BY <2>2, <3>2, <3>3 DEF Entry, Bound
  <2>3. ASSUME NEW c, NEW source, NEW closure, NEW target, NEW rollback,
               Proposal(c, source, closure, target, rollback)
        PROVE  binding' = binding
    BY <2>3, ProposalRows
  <2>4. ASSUME NEW s, NEW gen, NEW grants, Publication(s, gen, grants)
        PROVE  binding' = binding
    BY <2>4, PublicationRows
  <2>. QED
    BY <2>1, <2>2, <2>3, <2>4, Shape DEF vars
<1>2. ASSUME NEW s \in CapabilitySet, sets'[s] # NoSet, NEW generation,
             generation = sets'[s].generation
      PROVE  Vouched(generation)
  <2>1. CASE sets' = sets
    BY <1>2, <2>1 DEF GenerationsAreEvaluated
  <2>2. ASSUME NEW r, NEW gen, NEW grants, Publication(r, gen, grants)
        PROVE  Vouched(generation)
    <3>1. /\ r \in CapabilitySet /\ sets'[r].generation = binding.active
          /\ \A u \in CapabilitySet \ {r} :
               sets'[u] # NoSet => sets[u] # NoSet /\ sets'[u].generation = sets[u].generation
      <4>1. /\ r \in CapabilitySet /\ gen = binding.active
            /\ sets'[r].generation = gen
        <5>1. r \in CapabilitySet /\ gen = binding.active
          <6>1. Publication(r, gen, grants)
            BY <2>2
          <6>2. r \in CapabilitySet
            BY <6>1 DEF Publication
          <6>3. gen = binding.active
            BY <6>1 DEF Publication, Publish, IsActiveGeneration
          <6>. QED
            BY <6>2, <6>3
        <5>2. sets' = Replaced(r, gen, grants)
          BY <2>2 DEF Publication, Publish
        <5>3. sets'[r] = [version |-> sets[r].version + 1, active |-> TRUE,
                          generation |-> gen, grants |-> grants]
          BY <5>1, <5>2 DEF Replaced
        <5>. QED
          BY <5>1, <5>3
      <4>2. ASSUME NEW u \in CapabilitySet \ {r}, sets'[u] # NoSet
            PROVE  sets[u] # NoSet /\ sets'[u].generation = sets[u].generation
        <5>1. CASE sets[u].active
          BY <2>2, <4>2, <5>1, OtherSets
        <5>2. CASE ~sets[u].active
          <6>1. sets'[u] = sets[u]
            BY <2>2, <4>2, <5>2, OtherSets
          <6>. QED
            BY <4>2, <6>1
        <5>. QED
          BY <5>1, <5>2
      <4>. QED
        BY <4>1, <4>2
    <3>. QED
      BY <1>2, <3>1 DEF GenerationsAreEvaluated
  <2>3. ASSUME NEW c, NEW source, NEW closure, NEW target, NEW rollback,
               Proposal(c, source, closure, target, rollback)
        PROVE  sets' = sets
    BY <2>3, ProposalRows
  <2>4. ASSUME NEW c, NEW state, NEW artifact, Entry(c, state, artifact)
        PROVE  sets' = sets
    BY <2>4 DEF Entry
  <2>. QED
    BY <2>1, <2>2, <2>3, <2>4, Shape DEF vars
<1>3. Vouched(binding.active)'
  <2>1. PICK generation : generation = binding'.active
    OBVIOUS
  <2>2. Vouched(generation)'
    BY <1>1, <2>1
  <2>. QED
    BY <2>1, <2>2 DEF Vouched
<1>4. ASSUME NEW s \in CapabilitySet, sets'[s] # NoSet
      PROVE  Vouched(sets[s].generation)'
  <2>1. PICK generation : generation = sets'[s].generation
    OBVIOUS
  <2>2. Vouched(generation)'
    BY <1>2, <1>4, <2>1, VouchedStays
  <2>. QED
    BY <2>1, <2>2 DEF Vouched
<1>. QED
  BY <1>3, <1>4 DEF GenerationsAreEvaluated

-----------------------------------------------------------------------------
(* The theorems *)

LEMMA IInvHolds == Spec => []IInv
<1>1. Init => Records /\ Versions /\ OwnerAgrees /\ RollbacksVouched /\ GenerationsAreEvaluated
  <2>. SUFFICES ASSUME Init
                PROVE  Records /\ Versions /\ OwnerAgrees /\ RollbacksVouched
                       /\ GenerationsAreEvaluated
    OBVIOUS
  <2>1. \A c \in Candidate : /\ candidate[c] = NoCandidate /\ candidate[c].state = "NONE"
                             /\ \A s \in State : history[c][s] = NoRow
    BY DEF Init, NoCandidate
  <2>2. Records
    BY <2>1 DEF Records, Untouched, PresentEntered, ByOwner, Chain, StagesInOrder, Entered
  <2>3. Versions /\ RollbacksVouched
    BY <2>1 DEF Versions, RollbacksVouched
  <2>4. OwnerAgrees
    BY ChangeAssumption DEF ChangeAssumption, Init, OwnerAgrees
  <2>5. GenerationsAreEvaluated
    BY DEF Init, GenerationsAreEvaluated, Vouched
  <2>. QED
    BY <2>2, <2>3, <2>4, <2>5
<1>2. ASSUME TypeOK, TypeOK', Records, Versions, OwnerAgrees, RollbacksVouched,
             GenerationsAreEvaluated, [Next]_vars
      PROVE  (Records /\ Versions /\ OwnerAgrees /\ RollbacksVouched
              /\ GenerationsAreEvaluated)'
  <2>1. Records'
    BY <1>2, RecordsStay
  <2>2. Versions'
    BY <1>2, VersionsStay DEF Records
  <2>3. OwnerAgrees'
    BY <1>2, OwnerAgreesStays
  <2>4. RollbacksVouched'
    BY <1>2, RollbacksVouchedStay
  <2>5. GenerationsAreEvaluated'
    BY <1>2, <2>1, GenerationsStay
  <2>. QED
    BY <2>1, <2>2, <2>3, <2>4, <2>5
<1>. QED
  BY <1>1, <1>2, TypeCorrect, PTL DEF Spec, IInv

\* Whatever activations and rollbacks happen, what runs and what grants are
\* offered for was evaluated and carried through every stage unchanged.
THEOREM EvaluatedBeforeActive == Spec => []GenerationsAreEvaluated
BY IInvHolds, PTL DEF IInv

\* The binding and the candidate that moved it last agree.
THEOREM OwnerIsRight == Spec => []OwnerAgrees
BY IInvHolds, PTL DEF IInv

\* The roles of change_role.ROLE_STATES stay apart in the history.
THEOREM SeparationOfDuties == Spec => []DutiesAreSeparate
<1>1. IInv => DutiesAreSeparate
  BY DEF IInv, Records, ByOwner, Chain, StagesInOrder, MeasuredAt, DutiesAreSeparate, Owner
<1>. QED
  BY <1>1, IInvHolds, PTL

\* Two candidates proposed against the same version are not both activated,
\* even when the generation of that version came back in between.
THEOREM OneActivation == Spec => []OneActivationPerVersion
<1>1. Init => OneActivationPerVersion
  BY DEF Init, OneActivationPerVersion, Entered
<1>2. ASSUME IInv, OneActivationPerVersion, [Next]_vars
      PROVE  OneActivationPerVersion'
  <2>. USE DEF OneActivationPerVersion, Entered
  <2>1. TypeOK /\ Untouched /\ Versions
    BY <1>2 DEF IInv, Records
  <2>2. CASE UNCHANGED <<binding, candidate, history>>
    BY <1>2, <2>2
  <2>3. ASSUME NEW c, NEW source, NEW closure, NEW target, NEW rollback,
               Proposal(c, source, closure, target, rollback)
        PROVE  OneActivationPerVersion'
    <3>1. /\ c \in Candidate /\ candidate[c] = NoCandidate
          /\ history'[c]["ACTIVATED"] = history[c]["ACTIVATED"]
          /\ \A d \in Candidate \ {c} : candidate'[d] = candidate[d] /\ history'[d] = history[d]
      BY <2>1, <2>3, ProposalRows
    <3>2. history'[c]["ACTIVATED"] = NoRow
      BY <2>1, <3>1 DEF Untouched
    <3>. QED
      BY <1>2, <3>1, <3>2
  <2>4. ASSUME NEW c, NEW state, NEW artifact, Entry(c, state, artifact)
        PROVE  OneActivationPerVersion'
    <3>1. /\ c \in Candidate /\ candidate[c] \in CandidateRow
          /\ \A s \in State \ {state} : history'[c][s] = history[c][s]
          /\ \A d \in Candidate \ {c} : candidate'[d] = candidate[d] /\ history'[d] = history[d]
      BY <2>1, <2>4, EntryRows
    <3>2. candidate'[c].expected = candidate[c].expected
      BY <2>4 DEF Entry, Rewritten
    <3>3. CASE state # "ACTIVATED"
      <4>1. history'[c]["ACTIVATED"] = history[c]["ACTIVATED"]
        BY <3>1, <3>3
      <4>2. \A d \in Candidate : /\ candidate'[d].expected = candidate[d].expected
                                /\ history'[d]["ACTIVATED"] = history[d]["ACTIVATED"]
        BY <3>1, <3>2, <4>1
      <4>. QED
        BY <1>2, <4>2
    <3>4. CASE state = "ACTIVATED"
      <4>1. candidate[c].expected = binding.version
        BY <2>4, <3>4 DEF Entry, Bound, UnchangedSinceProposal
      <4>2. ASSUME NEW d \in Candidate \ {c}, history[d]["ACTIVATED"] # NoRow
            PROVE  candidate[d].expected # candidate[c].expected
        <5>1. candidate[d] # NoCandidate
          BY <2>1, <4>2 DEF Untouched
        <5>2. candidate[d].expected < binding.version
          BY <2>1, <4>2, <5>1 DEF Versions
        <5>3. candidate[d].expected \in Nat /\ binding.version \in Nat
          BY <2>1, <5>1 DEF TypeOK, CandidateRow
        <5>. QED
          BY <4>1, <5>2, <5>3
      <4>. QED
        BY <1>2, <3>1, <3>2, <4>2
    <3>. QED
      BY <3>3, <3>4
  <2>5. ASSUME NEW s, NEW generation, NEW grants, Publication(s, generation, grants)
        PROVE  OneActivationPerVersion'
    BY <2>1, <2>2, <2>5, PublicationRows
  <2>. QED
    BY <1>2, <2>1, <2>2, <2>3, <2>4, <2>5, Shape DEF vars
<1>. QED
  BY <1>1, <1>2, IInvHolds, PTL DEF Spec

\* The set that is published replaces the one that was active.
THEOREM AtMostOneActiveSet == Spec => []OneActiveSet
<1>1. Init => OneActiveSet
  BY DEF Init, OneActiveSet, ActiveSets, NoSet
<1>2. ASSUME TypeOK, OneActiveSet, [Next]_vars
      PROVE  OneActiveSet'
  <2>1. CASE sets' = sets
    BY <1>2, <2>1 DEF OneActiveSet, ActiveSets
  <2>2. ASSUME NEW s, NEW generation, NEW grants, Publication(s, generation, grants)
        PROVE  OneActiveSet'
    <3>1. \A r \in CapabilitySet \ {s} : sets'[r].active => FALSE
      BY <1>2, <2>2, PublicationRows
    <3>. QED
      BY <3>1 DEF OneActiveSet, ActiveSets
  <2>3. ASSUME NEW c, NEW source, NEW closure, NEW target, NEW rollback,
               Proposal(c, source, closure, target, rollback)
        PROVE  sets' = sets
    BY <1>2, <2>3, ProposalRows
  <2>4. ASSUME NEW c, NEW state, NEW artifact, Entry(c, state, artifact)
        PROVE  sets' = sets
    BY <2>4 DEF Entry
  <2>. QED
    BY <1>2, <2>1, <2>2, <2>3, <2>4, Shape DEF vars
<1>. QED
  BY <1>1, <1>2, TypeCorrect, PTL DEF Spec

\* A rollback makes active what its activation replaced.
THEOREM RollbackIsExact == Spec => RollbackRestores
<1>1. ASSUME IInv, [Next]_vars, NEW c \in Candidate,
             ~Entered(c, "ROLLED_BACK"), Entered(c, "ROLLED_BACK")'
      PROVE  binding.owner = c /\ binding'.active = binding.previous
  <2>. USE DEF Entered
  <2>1. TypeOK /\ OwnerAgrees
    BY <1>1 DEF IInv
  <2>2. CASE history' = history
    BY <1>1, <2>2
  <2>3. ASSUME NEW d, NEW source, NEW closure, NEW target, NEW rollback,
               Proposal(d, source, closure, target, rollback)
        PROVE  FALSE
    <3>1. history'[c]["ROLLED_BACK"] = history[c]["ROLLED_BACK"]
      BY <2>1, <2>3, ProposalRows
    <3>. QED
      BY <1>1, <3>1
  <2>4. ASSUME NEW d, NEW state, NEW artifact, Entry(d, state, artifact)
        PROVE  binding.owner = c /\ binding'.active = binding.previous
    <3>1. /\ d \in Candidate
          /\ \A s \in State \ {state} : history'[d][s] = history[d][s]
          /\ \A e \in Candidate \ {d} : history'[e] = history[e]
      BY <2>1, <2>4, EntryRows
    <3>2. d = c /\ state = "ROLLED_BACK"
      BY <1>1, <3>1
    <3>3. /\ Owns(c) /\ binding' = Switched(candidate[c].rollback, c)
          /\ candidate[c].state # "ROLLED_BACK"
      BY <2>4, <3>2, LegalFacts DEF Entry, Bound
    <3>4. binding.owner = c /\ binding.previous = candidate[c].rollback
      BY <2>1, <3>3 DEF Owns, OwnerAgrees
    <3>. QED
      BY <3>3, <3>4 DEF Switched
  <2>5. ASSUME NEW s, NEW generation, NEW grants, Publication(s, generation, grants)
        PROVE  history' = history
    BY <2>1, <2>5, PublicationRows
  <2>. QED
    BY <1>1, <2>1, <2>2, <2>3, <2>4, <2>5, Shape DEF vars
<1>2. IInv /\ [Next]_vars
        => [\A c \in Candidate : ~Entered(c, "ROLLED_BACK") /\ Entered(c, "ROLLED_BACK")'
              => binding.owner = c /\ binding'.active = binding.previous]_vars
  BY <1>1
<1>. QED
  BY <1>2, IInvHolds, PTL DEF Spec, RollbackRestores

\* What an activation recorded of its capability set stays true of that set.
THEOREM SetsKeepTheirMeaning == Spec => SetIdentityIsFixed
<1>1. ASSUME TypeOK, [Next]_vars, NEW s \in CapabilitySet, sets[s] # NoSet
      PROVE  /\ sets'[s] # NoSet
             /\ sets'[s].generation = sets[s].generation
             /\ sets'[s].grants = sets[s].grants
  <2>1. CASE sets' = sets
    BY <1>1, <2>1
  <2>2. ASSUME NEW r, NEW gen, NEW grants, Publication(r, gen, grants)
        PROVE  /\ sets'[s] # NoSet
               /\ sets'[s].generation = sets[s].generation
               /\ sets'[s].grants = sets[s].grants
    <3>1. CASE s = r
      <4>1. Publication(s, gen, grants)
        BY <2>2, <3>1
      <4>2. sets'[s] = [version |-> sets[s].version + 1, active |-> TRUE,
                        generation |-> gen, grants |-> grants]
        BY <1>1, <4>1, PublicationRows
      <4>3. sets[s].generation = gen /\ sets[s].grants = grants
        BY <1>1, <4>1 DEF Publication, Publish, Denotes
      <4>4. sets'[s].active /\ ~NoSet.active
        BY <4>2 DEF NoSet
      <4>. QED
        BY <4>2, <4>3, <4>4
    <3>2. CASE s # r /\ sets[s].active
      BY <1>1, <2>2, <3>2, OtherSets
    <3>3. CASE s # r /\ ~sets[s].active
      <4>1. sets'[s] = sets[s]
        BY <1>1, <2>2, <3>3, OtherSets
      <4>. QED
        BY <1>1, <4>1
    <3>. QED
      BY <3>1, <3>2, <3>3
  <2>3. ASSUME NEW c, NEW source, NEW closure, NEW target, NEW rollback,
               Proposal(c, source, closure, target, rollback)
        PROVE  sets' = sets
    BY <1>1, <2>3, ProposalRows
  <2>4. ASSUME NEW c, NEW state, NEW artifact, Entry(c, state, artifact)
        PROVE  sets' = sets
    BY <2>4 DEF Entry
  <2>. QED
    BY <1>1, <2>1, <2>2, <2>3, <2>4, Shape DEF vars
<1>2. TypeOK /\ [Next]_vars
        => [\A s \in CapabilitySet : sets[s] # NoSet =>
              /\ sets'[s] # NoSet
              /\ sets'[s].generation = sets[s].generation
              /\ sets'[s].grants = sets[s].grants]_vars
  BY <1>1
<1>. QED
  BY <1>2, TypeCorrect, PTL DEF Spec, SetIdentityIsFixed

\* What a publisher or a proposer compared against does not come back under the
\* version it had.
THEOREM VersionsAreFresh == Spec => VersionsMoveOn
<1>1. ASSUME TypeOK, [Next]_vars
      PROVE  /\ \A s \in CapabilitySet :
                  sets'[s] # sets[s] => sets'[s].version = sets[s].version + 1
             /\ binding' # binding => binding'.version = binding.version + 1
  <2>1. CASE UNCHANGED vars
    BY <2>1 DEF vars
  <2>2. ASSUME NEW c, NEW source, NEW closure, NEW target, NEW rollback,
               Proposal(c, source, closure, target, rollback)
        PROVE  binding' = binding /\ sets' = sets
    BY <1>1, <2>2, ProposalRows
  <2>3. ASSUME NEW c, NEW state, NEW artifact, Entry(c, state, artifact)
        PROVE  /\ sets' = sets
               /\ binding' # binding => binding'.version = binding.version + 1
    BY <2>3 DEF Entry, Bound, Switched
  <2>4. ASSUME NEW r, NEW gen, NEW grants, Publication(r, gen, grants)
        PROVE  /\ binding' = binding
               /\ \A s \in CapabilitySet :
                    sets'[s] # sets[s] => sets'[s].version = sets[s].version + 1
    <3>1. binding' = binding
      BY <1>1, <2>4, PublicationRows
    <3>2. ASSUME NEW s \in CapabilitySet, sets'[s] # sets[s]
          PROVE  sets'[s].version = sets[s].version + 1
      <4>1. CASE s = r
        <5>1. Publication(s, gen, grants)
          BY <2>4, <4>1
        <5>2. sets'[s] = [version |-> sets[s].version + 1, active |-> TRUE,
                          generation |-> gen, grants |-> grants]
          BY <5>1 DEF Publication, Publish, Replaced
        <5>. QED
          BY <5>2
      <4>2. CASE s # r /\ sets[s].active
        BY <1>1, <2>4, <4>2, PublicationRows
      <4>3. CASE s # r /\ ~sets[s].active
        <5>1. sets'[s] = sets[s]
          BY <2>4, <3>2, <4>3 DEF Publication, Publish, Replaced
        <5>. QED
          BY <3>2, <5>1
      <4>. QED
        BY <4>1, <4>2, <4>3
    <3>. QED
      BY <3>1, <3>2
  <2>. QED
    BY <1>1, <2>1, <2>2, <2>3, <2>4, Shape DEF vars
<1>2. TypeOK /\ [Next]_vars
        => [/\ \A s \in CapabilitySet :
                 sets'[s] # sets[s] => sets'[s].version = sets[s].version + 1
            /\ binding' # binding => binding'.version = binding.version + 1]_vars
  BY <1>1
<1>. QED
  BY <1>2, TypeCorrect, PTL DEF Spec, VersionsMoveOn

-----------------------------------------------------------------------------
(* The running system *)

LEMMA SystemInit ==
  ASSUME Init
  PROVE  System!Init
<1>1. Undoable = Nothing
  BY ChangeAssumption DEF ChangeAssumption, Init, Undoable
<1>2. \A s \in CapabilitySet : sets[s] = NoSet
  BY DEF Init
<1>3. Offered = {}
  BY <1>2 DEF Offered, ActiveSets, NoSet
<1>4. PastOffers = {}
  BY <1>2, ChangeAssumption DEF ChangeAssumption, NoSet, PastOffers
<1>5. Seen = [c \in Candidate |-> 0] /\ Meaning = [s \in CapabilitySet |-> Nothing]
  BY <1>2 DEF Init, Seen, Meaning
<1> QED
  BY <1>1, <1>3, <1>4, <1>5 DEF Init, System!Init, Before

\* A candidate that moved the binding last has not gone back before its
\* activation: without it a candidate that is not undoable could become so.
OwnerWasActivated ==
  \A c \in Candidate : binding.owner = c =>
    candidate[c].state \in {"ACTIVATED", "CONFIRMED", "QUARANTINED", "ROLLED_BACK"}

LEMMA OwnerWasActivatedStays ==
  ASSUME TypeOK, OwnerAgrees, OwnerWasActivated, [Next]_vars
  PROVE  OwnerWasActivated'
<1> USE DEF OwnerWasActivated
<1>1. CASE UNCHANGED <<binding, candidate>>
  BY <1>1
<1>2. ASSUME NEW c, NEW source, NEW closure, NEW target, NEW rollback,
             Proposal(c, source, closure, target, rollback)
      PROVE  OwnerWasActivated'
  <2>1. /\ c \in Candidate /\ candidate[c] = NoCandidate /\ binding' = binding
        /\ \A d \in Candidate \ {c} : candidate'[d] = candidate[d]
    BY <1>2, ProposalRows
  <2> QED
    BY <2>1 DEF OwnerAgrees
<1>3. ASSUME NEW c, NEW state, NEW artifact, Entry(c, state, artifact)
      PROVE  OwnerWasActivated'
  <2>1. /\ c \in Candidate
        /\ \A d \in Candidate \ {c} : candidate'[d] = candidate[d]
    BY <1>3, EntryRows
  <2>2. state \in Legal(candidate[c].state) /\ candidate'[c].state = state
    BY <1>3 DEF Entry, Rewritten
  <2>3. CASE state \in {"ACTIVATED", "ROLLED_BACK"}
    <3>1. binding'.owner = c
      BY <1>3, <2>3 DEF Entry, Bound, Switched
    <3> QED
      BY <2>1, <2>2, <2>3, <3>1
  <2>4. CASE state \notin {"ACTIVATED", "ROLLED_BACK"}
    <3>1. binding' = binding
      BY <1>3, <2>4 DEF Entry, Bound
    <3> QED
      BY <2>1, <2>2, <3>1, LegalFacts
  <2> QED
    BY <2>3, <2>4
<1>4. ASSUME NEW s, NEW generation, NEW grants, Publication(s, generation, grants)
      PROVE  OwnerWasActivated'
  BY <1>1, <1>4, PublicationRows
<1> QED
  BY <1>1, <1>2, <1>3, <1>4, Shape DEF vars

\* What is offered depends on the sets alone.
LEMMA OffersStay ==
  ASSUME sets' = sets
  PROVE  UNCHANGED <<Meaning, Offered, PastOffers>>
BY DEF Meaning, Offered, PastOffers, ActiveSets

LEMMA LookStep ==
  ASSUME TypeOK, OwnerAgrees, NEW c, NEW source, NEW closure, NEW target, NEW rollback,
         Proposal(c, source, closure, target, rollback)
  PROVE  c \in Candidate /\ System!Look(c)
<1>1. /\ c \in Candidate /\ candidate[c] = NoCandidate
      /\ candidate'[c] \in CandidateRow /\ candidate'[c].expected = binding.version
      /\ \A d \in Candidate \ {c} : candidate'[d] = candidate[d]
      /\ binding' = binding /\ sets' = sets
  BY ProposalRows
<1>2. binding.owner # c
  BY <1>1 DEF OwnerAgrees
<1>3. Undoable' = Undoable
  BY <1>1, <1>2 DEF Undoable
<1>4. candidate'[c] # NoCandidate
  BY <1>1 DEF CandidateRow, NoCandidate
<1>5. Seen[c] = 0 /\ Seen' = [Seen EXCEPT ![c] = binding.version]
  BY <1>1, <1>4 DEF Seen
<1> QED
  BY <1>1, <1>3, <1>5, OffersStay DEF System!Look, System!offers, Before

LEMMA EntrySystem ==
  ASSUME TypeOK, OwnerAgrees, OwnerWasActivated,
         NEW c, NEW state, NEW artifact, Entry(c, state, artifact)
  PROVE  [System!Next]_System!vars
<1> USE DEF System!Next
<1>1. /\ c \in Candidate /\ state \in State
      /\ candidate[c] \in CandidateRow /\ candidate'[c] \in CandidateRow
      /\ \A d \in Candidate \ {c} : candidate'[d] = candidate[d]
  BY EntryRows
<1>2. /\ state \in Legal(candidate[c].state)
      /\ candidate'[c].state = state
      /\ candidate'[c].expected = candidate[c].expected
      /\ sets' = sets
  BY DEF Entry, Rewritten
<1>3. candidate[c] # NoCandidate /\ candidate'[c] # NoCandidate
  BY <1>1 DEF CandidateRow, NoCandidate
<1>4. Seen' = Seen
  BY <1>1, <1>2, <1>3 DEF Seen
<1>5. UNCHANGED System!offers
  BY <1>2, OffersStay DEF System!offers
<1>6. Nothing \notin Candidate
  BY ChangeAssumption DEF ChangeAssumption
<1>7. CASE state = "ACTIVATED"
  <2>1. /\ candidate[c].expected = binding.version
        /\ binding' = [active |-> candidate[c].target, previous |-> binding.active,
                       owner |-> c, version |-> binding.version + 1]
    BY <1>7 DEF Entry, Bound, UnchangedSinceProposal, Switched
  <2>2. Undoable' = c
    BY <1>1, <1>2, <1>7, <2>1, LegalFacts DEF Undoable
  <2>3. Seen[c] = binding.version /\ Before' = binding.active
    BY <1>1, <1>3, <1>6, <2>1, <2>2 DEF Seen, Before
  <2>4. candidate[c].target \in Generation
    BY <1>1 DEF CandidateRow
  <2>5. System!Change(c, candidate[c].target)
    BY <1>4, <1>5, <2>1, <2>2, <2>3 DEF System!Change
  <2> QED
    BY <1>1, <2>4, <2>5
<1>8. CASE state = "ROLLED_BACK"
  <2>1. /\ Owns(c)
        /\ binding' = [active |-> candidate[c].rollback, previous |-> binding.active,
                       owner |-> c, version |-> binding.version + 1]
    BY <1>8 DEF Entry, Bound, Switched
  <2>2. binding.owner = c /\ Undoable = c
    BY <1>1, <1>2, <1>8, <2>1 DEF Owns, Undoable
  <2>3. candidate[c].state # "ROLLED_BACK"
    BY <1>2, LegalFacts
  <2>4. binding.previous = candidate[c].rollback
    BY <1>1, <2>2, <2>3 DEF OwnerAgrees
  <2>5. Undoable' = Nothing
    BY <1>1, <1>2, <1>8, <2>1, LegalFacts DEF Undoable
  <2>6. System!Undo
    BY <1>1, <1>4, <1>5, <1>6, <2>1, <2>2, <2>4, <2>5 DEF System!Undo, Before
  <2> QED
    BY <2>6
<1>9. CASE state \notin {"ACTIVATED", "ROLLED_BACK"}
  <2>1. binding' = binding
    BY <1>9 DEF Entry, Bound
  <2>2. CASE binding.owner # c
    <3>1. Undoable' = Undoable
      BY <1>1, <2>1, <2>2 DEF Undoable
    <3> QED
      BY <1>4, <1>5, <2>1, <3>1 DEF System!vars, System!offers, Before
  <2>3. CASE binding.owner = c
    <3>1. candidate[c].state = "ACTIVATED" /\ state \in {"CONFIRMED", "QUARANTINED"}
      BY <1>1, <1>2, <1>9, <2>3, LegalFacts DEF OwnerWasActivated
    <3>2. Undoable = c
      BY <1>1, <2>3, <3>1, LegalFacts DEF Undoable
    <3>3. CASE state = "CONFIRMED"
      <4>1. Undoable' = Nothing
        BY <1>1, <1>2, <2>1, <2>3, <3>3, LegalFacts DEF Undoable
      <4>2. System!Confirm
        BY <1>1, <1>4, <1>5, <1>6, <2>1, <3>2, <4>1 DEF System!Confirm, Before
      <4> QED
        BY <4>2
    <3>4. CASE state = "QUARANTINED"
      <4>1. Undoable' = c
        BY <1>1, <1>2, <2>1, <2>3, <3>4, LegalFacts DEF Undoable
      <4> QED
        BY <1>4, <1>5, <2>1, <3>2, <4>1 DEF System!vars, System!offers, Before
    <3> QED
      BY <3>1, <3>3, <3>4
  <2> QED
    BY <2>2, <2>3
<1> QED
  BY <1>7, <1>8, <1>9

LEMMA MakeStep ==
  ASSUME TypeOK, NEW s, NEW generation, NEW grants, Publication(s, generation, grants)
  PROVE  /\ s \in CapabilitySet /\ grants \in Grants
         /\ System!Make(s, grants)
<1>1. /\ s \in CapabilitySet /\ generation = binding.active /\ grants \in Grants
      /\ UNCHANGED <<binding, candidate, history>>
      /\ sets' \in [CapabilitySet -> SetRow \cup {NoSet}]
      /\ sets'[s] = [version |-> sets[s].version + 1, active |-> TRUE,
                     generation |-> generation, grants |-> grants]
      /\ sets[s] # NoSet => sets[s].generation = generation /\ sets[s].grants = grants
  <2>1. sets' \in [CapabilitySet -> SetRow \cup {NoSet}]
    BY PublicationRows
  <2>2. /\ s \in CapabilitySet /\ generation = binding.active /\ grants \in Grants
        /\ UNCHANGED <<binding, candidate, history>>
        /\ sets[s] # NoSet => sets[s].generation = generation /\ sets[s].grants = grants
        /\ sets' = Replaced(s, generation, grants)
    BY DEF Publication, Publish, IsActiveGeneration, Denotes
  <2>3. sets'[s] = [version |-> sets[s].version + 1, active |-> TRUE,
                    generation |-> generation, grants |-> grants]
    BY <2>2 DEF Replaced
  <2> QED
    BY <2>1, <2>2, <2>3
<1>2. ASSUME NEW t \in CapabilitySet \ {s}
      PROVE  /\ ~sets'[t].active
             /\ \/ sets'[t] = sets[t]
                \/ /\ sets[t] # NoSet /\ sets'[t] # NoSet
                   /\ sets'[t].version = sets[t].version + 1
                   /\ sets'[t].generation = sets[t].generation
                   /\ sets'[t].grants = sets[t].grants
  <2>1. /\ s \in CapabilitySet
        /\ \A u \in CapabilitySet \ {s} :
             IF sets[u].active
             THEN /\ sets[u] # NoSet /\ sets'[u] # NoSet
                  /\ sets'[u].active = FALSE
                  /\ sets'[u].version = sets[u].version + 1
                  /\ sets'[u].generation = sets[u].generation
                  /\ sets'[u].grants = sets[u].grants
             ELSE sets'[u] = sets[u]
    BY PublicationRows
  <2>2. CASE sets[t].active
    BY <2>1, <2>2
  <2>3. CASE ~sets[t].active
    BY <2>1, <2>3
  <2> QED
    BY <2>2, <2>3
<1>3. ASSUME NEW t \in CapabilitySet
      PROVE  sets[t].version \in 0..MaxVersion /\ sets'[t].version \in 0..MaxVersion
  BY <1>1, ChangeAssumption DEF ChangeAssumption, TypeOK, SetRow, NoSet
<1>4. sets'[s] # NoSet /\ MaxVersion \in Nat
  BY <1>1, ChangeAssumption DEF ChangeAssumption, NoSet
<1>5. Undoable' = Undoable /\ Before' = Before /\ Seen' = Seen
  BY <1>1 DEF Undoable, Before, Seen
<1>6. /\ Meaning[s] \in {Nothing, <<binding.active, grants>>}
      /\ Meaning' = [Meaning EXCEPT ![s] = <<binding.active, grants>>]
  <2>1. /\ Meaning[s] \in {Nothing, <<binding.active, grants>>}
        /\ Meaning'[s] = <<binding.active, grants>>
    BY <1>1, <1>4 DEF Meaning
  <2>2. \A t \in CapabilitySet \ {s} : Meaning'[t] = Meaning[t]
    BY <1>2 DEF Meaning
  <2>3. Meaning = [t \in CapabilitySet |-> Meaning[t]] /\ Meaning' = [t \in CapabilitySet |-> Meaning'[t]]
    BY DEF Meaning
  <2> QED
    BY <2>1, <2>2, <2>3
<1>7. ActiveSets' = {s}
  BY <1>1, <1>2 DEF ActiveSets
<1> DEFINE made == <<s, sets[s].version + 1>>
<1>8. Offered' = {made} /\ made \in {s} \X (1..MaxVersion)
  BY <1>1, <1>3, <1>4, <1>7 DEF Offered
<1>9. made \notin PastOffers
  BY <1>1, <1>3 DEF PastOffers
<1>10. \A t \in CapabilitySet : sets[t].version <= sets'[t].version
  BY <1>1, <1>2, <1>3
<1>11. PastOffers \subseteq PastOffers' /\ PastOffers' \subseteq CapabilitySet \X (1..MaxVersion)
  <2>1. ASSUME NEW offer \in CapabilitySet \X (1..MaxVersion), offer[2] <= sets[offer[1]].version
        PROVE  offer[2] <= sets'[offer[1]].version
    <3>1. offer[1] \in CapabilitySet /\ offer[2] \in 1..MaxVersion
      BY <2>1
    <3>2. /\ sets[offer[1]].version \in 0..MaxVersion /\ sets'[offer[1]].version \in 0..MaxVersion
          /\ sets[offer[1]].version <= sets'[offer[1]].version
      BY <1>3, <1>10, <3>1
    <3> QED
      BY <1>4, <2>1, <3>1, <3>2
  <2> QED
    BY <2>1 DEF PastOffers
<1>12. made \in PastOffers'
  <2>1. made \in CapabilitySet \X (1..MaxVersion) /\ made[1] = s /\ made[2] = sets[s].version + 1
    BY <1>1, <1>8
  <2>2. made[2] <= sets'[made[1]].version
    BY <1>1, <1>3, <2>1
  <2> QED
    BY <2>1, <2>2 DEF PastOffers
<1> HIDE DEF made
<1> QED
  BY <1>1, <1>5, <1>6, <1>8, <1>9, <1>11, <1>12 DEF System!Make, System!Offer

\* All candidates and publishers together change the running system in the order
\* of what they saw of it: governed change implements the abstract system.
THEOREM SystemImplemented == Spec => ImplementsSystem
<1> DEFINE Inv == TypeOK /\ OwnerAgrees
<1>1. Spec => []Inv
  <2>1. IInv => Inv
    BY DEF IInv
  <2> QED
    BY <2>1, IInvHolds, PTL
<1>2. Init => OwnerWasActivated /\ System!Init
  BY SystemInit, ChangeAssumption DEF ChangeAssumption, Init, OwnerWasActivated
<1>3. Inv /\ OwnerWasActivated /\ [Next]_vars => OwnerWasActivated'
  BY OwnerWasActivatedStays
<1>4. ASSUME Inv, OwnerWasActivated, [Next]_vars
      PROVE  [System!Next]_System!vars
  <2>1. CASE UNCHANGED vars
    <3>1. UNCHANGED <<Undoable, Before, Seen, Meaning, Offered, PastOffers>>
      BY <2>1 DEF vars, Undoable, Before, Seen, Meaning, Offered, PastOffers, ActiveSets
    <3> QED
      BY <2>1, <3>1 DEF vars, System!vars
  <2>2. ASSUME NEW c, NEW source, NEW closure, NEW target, NEW rollback,
               Proposal(c, source, closure, target, rollback)
        PROVE  System!Next
    BY <1>4, <2>2, LookStep DEF System!Next
  <2>3. ASSUME NEW c, NEW state, NEW artifact, Entry(c, state, artifact)
        PROVE  [System!Next]_System!vars
    BY <1>4, <2>3, EntrySystem
  <2>4. ASSUME NEW s, NEW generation, NEW grants, Publication(s, generation, grants)
        PROVE  System!Next
    BY <1>4, <2>4, MakeStep DEF System!Next
  <2> QED
    BY <1>4, <2>1, <2>2, <2>3, <2>4, Shape
<1>5. Inv /\ OwnerWasActivated /\ [Next]_vars => [System!Next]_System!vars
  BY <1>4
<1> HIDE DEF Inv
<1> QED
  BY <1>1, <1>2, <1>3, <1>5, PTL DEF Spec, ImplementsSystem, System!Spec
=============================================================================
