--------------------------- MODULE GovernedChange ---------------------------
(***************************************************************************)
(* Governed change of the running system in the state service              *)
(* (src/habitat_state/lifecycle.py): candidates go from a proposal to      *)
(* activation, confirmation or rollback, each step asked for by the one    *)
(* role that owns it; the binding names the active generation; a           *)
(* capability activation set gives the grants of that generation.          *)
(*                                                                         *)
(* A handler is one PostgreSQL transaction that locks the rows it decides  *)
(* on, hence one action.  Two abstractions:                                *)
(*  - A role puts its evidence and then asks for the transition.  Evidence *)
(*    is immutable and cited by its digest, so what it says is an input of *)
(*    the transition: an observation.                                      *)
(*  - A command that is repeated is answered from lifecycle_commands and   *)
(*    an identity that is reused is refused.  Neither changes a row, so    *)
(*    both are stuttering steps.                                           *)
(***************************************************************************)
EXTENDS Integers, FiniteSets

CONSTANTS
  Candidate,       \* candidate ids
  Generation,      \* system generations
  BootGeneration,  \* HABITAT_ACTIVE_GENERATION of the first start
  Digest,          \* digests of sources and measured artifacts
  Closure,         \* digests of evaluator closures
  CapabilitySet,   \* ids of capability activation sets
  Grants,          \* lists of grants a set may carry
  MaxVersion,      \* bound of the version of a capability activation set
  Nothing          \* NULL

ASSUME ChangeAssumption ==
  /\ BootGeneration \in Generation
  /\ MaxVersion \in Nat
  /\ Nothing \notin Candidate \cup CapabilitySet \cup Digest \cup Generation
  /\ "system:boot" \notin Candidate

VARIABLES
  binding,    \* active_generation_binding, a single row
  candidate,  \* change_candidates
  history,    \* change_history: the row of each state a candidate entered
  sets        \* capability_activation_sets

vars == <<binding, candidate, history, sets>>

-----------------------------------------------------------------------------
(* Types *)

Principal == {"controller", "evaluator", "signer", "health", "runtime"}

\* The stages at which an artifact is measured, in their order, and the rest.
Stage == {"BUILT", "EVALUATED", "SIGNED", "STAGED", "ACTIVATED"}
State == Stage \cup {"PROPOSED", "CONFIRMED", "REJECTED", "QUARANTINED", "ROLLED_BACK"}

Observation == [digest : Digest, closure : Closure, passed : BOOLEAN, ready : BOOLEAN]

NoCandidate == [state |-> "NONE"]
CandidateRow == [state : State, source : Digest, closure : Closure,
                 target : Generation, rollback : Generation,
                 expected : Nat \ {0},         \* expected_active_version
                 owned : Nat]                  \* activation_binding_version, 0 for NULL

NoRow == [actor |-> Nothing, digest |-> Nothing]
HistoryRow == [actor : Principal, digest : Digest \cup {Nothing}]

NoSet == [version |-> 0, active |-> FALSE]
SetRow == [version : 1..MaxVersion, active : BOOLEAN, generation : Generation,
           grants : Grants]

TypeOK ==
  /\ binding \in [active : Generation, previous : Generation \cup {Nothing},
                  owner : Candidate \cup {"system:boot"}, version : Nat \ {0}]
  /\ candidate \in [Candidate -> CandidateRow \cup {NoCandidate}]
  /\ history \in [Candidate -> [State -> HistoryRow \cup {NoRow}]]
  /\ sets \in [CapabilitySet -> SetRow \cup {NoSet}]

Entered(c, state) == history[c][state] # NoRow

\* ensure_active_generation on an empty database; later starts find the row.
Init ==
  /\ binding = [active |-> BootGeneration, previous |-> Nothing,
                owner |-> "system:boot", version |-> 1]
  /\ candidate = [c \in Candidate |-> NoCandidate]
  /\ history = [c \in Candidate |-> [state \in State |-> NoRow]]
  /\ sets = [s \in CapabilitySet |-> NoSet]

-----------------------------------------------------------------------------
(* Candidates *)

\* The only principal that may ask for a state.
Owner(state) ==
  CASE state \in {"BUILT", "STAGED", "ACTIVATED", "ROLLED_BACK"} -> "controller"
    [] state \in {"EVALUATED", "REJECTED"} -> "evaluator"
    [] state = "SIGNED" -> "signer"
    [] state \in {"CONFIRMED", "QUARANTINED"} -> "health"

Legal(state) ==
  CASE state = "PROPOSED" -> {"BUILT", "REJECTED"}
    [] state = "BUILT" -> {"EVALUATED", "REJECTED", "QUARANTINED"}
    [] state = "EVALUATED" -> {"SIGNED", "REJECTED", "QUARANTINED"}
    [] state = "SIGNED" -> {"STAGED", "QUARANTINED"}
    [] state = "STAGED" -> {"ACTIVATED", "QUARANTINED"}
    [] state = "ACTIVATED" -> {"CONFIRMED", "QUARANTINED", "ROLLED_BACK"}
    [] state = "QUARANTINED" -> {"ROLLED_BACK"}
    [] OTHER -> {}

\* The owner of state asks for it and it may follow the present one.
MayEnter(c, who, state) == who = Owner(state) /\ state \in Legal(candidate[c].state)

\* Mutant: only the row of the candidate is checked, not what was measured.
MeasuredAnything(c, state, artifact) == TRUE

\* The artifact is the one that was measured when the present state was entered.
Measured(c, state, artifact) ==
  state = "BUILT" \/ history[c][candidate[c].state].digest = artifact

Appended(c, state, who, artifact) ==
  [history EXCEPT ![c][state] = [actor |-> who, digest |-> artifact]]

Moved(c, state) == [candidate EXCEPT ![c].state = state]

\* propose_governed_change: made against the version the binding has now.
Propose(c, who, source, closure, target, rollback) ==
  /\ who = "controller"
  /\ target # rollback
  /\ binding.active = rollback
  /\ candidate[c] = NoCandidate
  /\ candidate' = [candidate EXCEPT ![c] =
       [state |-> "PROPOSED", source |-> source, closure |-> closure,
        target |-> target, rollback |-> rollback,
        expected |-> binding.version, owned |-> 0]]
  /\ history' = Appended(c, "PROPOSED", "evaluator", Nothing)
  /\ UNCHANGED <<binding, sets>>

\* A stage that only measures the artifact.
Advance(c, who, state, ob) ==
  /\ state \in {"BUILT", "SIGNED", "STAGED"}
  /\ MayEnter(c, who, state)
  /\ Measured(c, state, ob.digest)
  /\ candidate' = Moved(c, state)
  /\ history' = Appended(c, state, who, ob.digest)
  /\ UNCHANGED <<binding, sets>>

\* The protected evaluator passed the source with the closure it is bound to.
Evaluate(c, who, ob) ==
  /\ MayEnter(c, who, "EVALUATED")
  /\ ob.closure = candidate[c].closure
  /\ ob.digest = candidate[c].source
  /\ ob.passed
  /\ Measured(c, "EVALUATED", ob.digest)
  /\ candidate' = Moved(c, "EVALUATED")
  /\ history' = Appended(c, "EVALUATED", who, ob.digest)
  /\ UNCHANGED <<binding, sets>>

\* Mutant: the generation is compared but not the version.
UnchangedSameGeneration(c) == binding.active = candidate[c].rollback

\* The binding is still the one the candidate was proposed against.
UnchangedSinceProposal(c) ==
  /\ binding.active = candidate[c].rollback
  /\ binding.version = candidate[c].expected

Switched(generation, c) ==
  [active |-> generation, previous |-> binding.active, owner |-> c,
   version |-> binding.version + 1]

Activated(c) == [candidate EXCEPT ![c].state = "ACTIVATED",
                                  ![c].owned = binding.version + 1]

Activate(c, who, ob) ==
  /\ MayEnter(c, who, "ACTIVATED")
  /\ Measured(c, "ACTIVATED", ob.digest)
  /\ UnchangedSinceProposal(c)
  /\ binding' = Switched(candidate[c].target, c)
  /\ candidate' = Activated(c)
  /\ history' = Appended(c, "ACTIVATED", who, ob.digest)
  /\ UNCHANGED sets

Confirm(c, who, ob) ==
  /\ MayEnter(c, who, "CONFIRMED")
  /\ who # "evaluator"
  /\ ob.ready
  /\ candidate' = Moved(c, "CONFIRMED")
  /\ history' = Appended(c, "CONFIRMED", who, Nothing)
  /\ UNCHANGED <<binding, sets>>

\* Rejected or quarantined: the binding stays.
Withdraw(c, who, state) ==
  /\ state \in {"REJECTED", "QUARANTINED"}
  /\ MayEnter(c, who, state)
  /\ candidate' = Moved(c, state)
  /\ history' = Appended(c, state, who, Nothing)
  /\ UNCHANGED <<binding, sets>>

\* Mutant: the generation is compared but not who made it active, nor when.
OwnsTargetOnly(c) == binding.active = candidate[c].target

\* The binding is still the one the candidate's activation left.
Owns(c) ==
  /\ binding.active = candidate[c].target
  /\ binding.owner = c
  /\ binding.version = candidate[c].owned

RollBack(c, who) ==
  /\ MayEnter(c, who, "ROLLED_BACK")
  /\ Owns(c)
  /\ binding' = Switched(candidate[c].rollback, c)
  /\ candidate' = [candidate EXCEPT ![c].state = "ROLLED_BACK",
                                    ![c].owned = binding.version + 1]
  /\ history' = Appended(c, "ROLLED_BACK", who, Nothing)
  /\ UNCHANGED sets

-----------------------------------------------------------------------------
(* Capability activation sets *)

ActiveSets == {s \in CapabilitySet : sets[s].active}

\* Mutant: a set that is published again has the version it had.
ReplacedSameVersion(s, generation, grants) ==
  [t \in CapabilitySet |->
     IF t = s THEN [version |-> IF sets[s] = NoSet THEN 1 ELSE sets[s].version, active |-> TRUE,
                    generation |-> generation, grants |-> grants]
     ELSE IF sets[t].active THEN [sets[t] EXCEPT !.active = FALSE,
                                                 !.version = sets[t].version + 1]
     ELSE sets[t]]

\* s becomes the active set; the one that was active moves to its next version.
Replaced(s, generation, grants) ==
  [t \in CapabilitySet |->
     IF t = s THEN [version |-> sets[s].version + 1, active |-> TRUE,
                    generation |-> generation, grants |-> grants]
     ELSE IF sets[t].active THEN [sets[t] EXCEPT !.active = FALSE,
                                                 !.version = sets[t].version + 1]
     ELSE sets[t]]

\* A set id that is known stands for one generation and one list of grants.
Denotes(s, generation, grants) ==
  sets[s] # NoSet => sets[s].generation = generation /\ sets[s].grants = grants

IsActiveGeneration(generation) == binding.active = generation

\* The active set and its version, or NULL and 0.
ActiveIs(expected, version) ==
  \/ expected \in ActiveSets /\ version = sets[expected].version
  \/ ActiveSets = {} /\ expected = Nothing /\ version = 0

\* publish_capability_activation_set
Publish(s, generation, grants, expected, version) ==
  /\ IsActiveGeneration(generation)
  /\ Denotes(s, generation, grants)
  /\ ActiveIs(expected, version)
  /\ \A t \in {s} \cup ActiveSets : sets[t].version < MaxVersion
  /\ sets' = Replaced(s, generation, grants)
  /\ UNCHANGED <<binding, candidate, history>>

-----------------------------------------------------------------------------
(* Specification *)

Step(c, who) ==
  \/ \E source \in Digest, closure \in Closure, target, rollback \in Generation :
       Propose(c, who, source, closure, target, rollback)
  \/ \E ob \in Observation :
       \/ \E state \in State : Advance(c, who, state, ob)
       \/ Evaluate(c, who, ob)
       \/ Activate(c, who, ob)
       \/ Confirm(c, who, ob)
  \/ \E state \in State : Withdraw(c, who, state)
  \/ RollBack(c, who)

Next ==
  \/ \E c \in Candidate, who \in Principal : Step(c, who)
  \/ \E s \in CapabilitySet, generation \in Generation, grants \in Grants,
        expected \in CapabilitySet \cup {Nothing}, version \in 0..MaxVersion :
       Publish(s, generation, grants, expected, version)

Spec == Init /\ [][Next]_vars

-----------------------------------------------------------------------------
(* Properties *)

\* One artifact, the source the evaluator passed, was measured at every stage
\* of a candidate that aimed at this generation.
Vouched(generation) ==
  \/ generation = BootGeneration
  \/ \E c \in Candidate :
       /\ candidate[c] # NoCandidate
       /\ candidate[c].target = generation
       /\ \A state \in Stage : Entered(c, state)
                              /\ history[c][state].digest = candidate[c].source

\* The system never runs a generation, nor offers grants for one, that was not
\* evaluated and carried through every stage unchanged, whatever activations
\* and rollbacks led to it (transition_governed_change, publish_...).
GenerationsAreEvaluated ==
  /\ Vouched(binding.active)
  /\ \A s \in CapabilitySet : sets[s] # NoSet => Vouched(sets[s].generation)

\* The binding agrees with the candidate that moved it last: it holds the two
\* generations of that candidate, and the version the candidate remembers. A
\* rollback decides on that (transition_governed_change, ROLLED_BACK).
OwnerAgrees ==
  \A c \in Candidate : binding.owner = c =>
    /\ candidate[c] # NoCandidate
    /\ candidate[c].owned = binding.version
    /\ IF candidate[c].state = "ROLLED_BACK"
       THEN binding.active = candidate[c].rollback /\ binding.previous = candidate[c].target
       ELSE binding.active = candidate[c].target /\ binding.previous = candidate[c].rollback

\* Of the candidates that were proposed against the same version of the
\* binding, one at most is ever activated: the other was evaluated against a
\* system that no longer runs, even if its generation came back since.
OneActivationPerVersion ==
  \A c, d \in Candidate :
    Entered(c, "ACTIVATED") /\ Entered(d, "ACTIVATED") /\ c # d
      => candidate[c].expected # candidate[d].expected

\* No principal both evaluates and signs or deploys a candidate, and none
\* confirms what it had a part in (change_role.ROLE_STATES, protocol.py).
DutiesAreSeparate ==
  \A c \in Candidate :
    /\ \A state \in Stage \ {"EVALUATED"} :
         Entered(c, state) /\ Entered(c, "EVALUATED")
           => history[c][state].actor # history[c]["EVALUATED"].actor
    /\ Entered(c, "CONFIRMED") =>
         \A state \in Stage :
           Entered(c, state) /\ history[c][state].actor # history[c]["CONFIRMED"].actor

\* Two capability sets are never active at once: a claim takes its grants from
\* the active one (publish_capability_activation_set).
OneActiveSet == \A s, t \in ActiveSets : s = t

\* A rollback makes active what was active before its candidate's activation,
\* and only while that activation is the last thing that happened.
RollbackRestores ==
  [][\A c \in Candidate : ~Entered(c, "ROLLED_BACK") /\ Entered(c, "ROLLED_BACK")'
       => binding.owner = c /\ binding'.active = binding.previous]_vars

\* An activation records the id of its capability set and nothing else of it:
\* the id stands for the same generation and grants ever after.
SetIdentityIsFixed ==
  [][\A s \in CapabilitySet : sets[s] # NoSet =>
       /\ sets'[s] # NoSet
       /\ sets'[s].generation = sets[s].generation
       /\ sets'[s].grants = sets[s].grants]_vars

\* Whatever changes in a set or in the binding has a new version: what a
\* publisher or a proposer compared against cannot come back unnoticed.
VersionsMoveOn ==
  [][/\ \A s \in CapabilitySet : sets'[s] # sets[s] => sets'[s].version = sets[s].version + 1
     /\ binding' # binding => binding'.version = binding.version + 1]_vars

-----------------------------------------------------------------------------
(* Refinement *)

\* The candidate whose activation is the last change and may still be rolled back.
Undoable ==
  IF binding.owner \in Candidate /\ "ROLLED_BACK" \in Legal(candidate[binding.owner].state)
  THEN binding.owner ELSE Nothing

\* What a rollback would bring back.
Before == IF Undoable = Nothing THEN Nothing ELSE binding.previous

Seen == [c \in Candidate |-> IF candidate[c] = NoCandidate THEN 0 ELSE candidate[c].expected]

Meaning ==
  [s \in CapabilitySet |->
     IF sets[s] = NoSet THEN Nothing ELSE <<sets[s].generation, sets[s].grants>>]

Offered == {<<s, sets[s].version>> : s \in ActiveSets}

\* A publisher that compares with one of these, and not with the one that is
\* offered, is refused for ever: the version of a set does not go back.
PastOffers == {offer \in CapabilitySet \X (1..MaxVersion) : offer[2] <= sets[offer[1]].version}

System ==
  INSTANCE RunningSystem
  WITH running <- binding.active, before <- Before, last <- Undoable,
       changes <- binding.version, seen <- Seen,
       meaning <- Meaning, offer <- Offered, past <- PastOffers

\* Proposals, stages and rollbacks of many candidates and publications of many
\* sets, in any order, change the running system one after the other, each on
\* sight of it as it is (transition_governed_change, publish_...).
ImplementsSystem == System!Spec
=============================================================================
