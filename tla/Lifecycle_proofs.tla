--------------------------- MODULE Lifecycle_proofs ---------------------------
(* The theorems about objectives, claims and recovery.  The rows change in    *)
(* seven kinds of step (Rows), locks and system in three (Locks), so that an  *)
(* invariant is shown for these and not for every handler.                    *)
EXTENDS Lifecycle, TLAPS

-----------------------------------------------------------------------------
(* Kinds of steps *)

Quiet == UNCHANGED <<objective, wake, activation, claims>>

Rows ==
  \/ Quiet
  \/ \E o \in Objective :
       \/ Schedule(o) \/ Complete(o) \/ CancelDenied(o) \/ GuardCompensated(o)
       \/ \E state \in {"WAITING_EFFECT", "ENDED"} : Progress(o, state)
       \/ \E c \in ClaimCommand, a \in Agent, seconds \in LeaseSeconds :
            Claim(c, o, a, seconds)
  \/ RecoverExpired

Locks ==
  \/ \E c \in ClaimCommand, k \in AgentCommand : BeginCommit(c, k)
  \/ committing' \subseteq committing /\ UNCHANGED system
  \/ Unlocked /\ UNCHANGED committing

LEMMA StepShape ==
  ASSUME [Next]_vars
  PROVE  Rows /\ Locks
<1>1. CASE UNCHANGED vars
  BY <1>1 DEF vars, rows, claims, commands, Rows, Quiet, Locks
<1>2. ASSUME NEW o \in Objective, Tick(o) \/ TickAmongOthers(o)
      PROVE  Rows /\ Locks
  <2>1. Complete(o)
    BY <1>2 DEF Tick, TickAmongOthers
  <2> QED
    BY <2>1 DEF Complete, Rows, Locks, commands
<1>3. ASSUME NEW o \in Objective,
             Schedule(o) \/ CancelDenied(o) \/ GuardCompensated(o)
      PROVE  Rows /\ Locks
  BY <1>3 DEF Schedule, CancelDenied, GuardCompensated, Rows, Locks, commands
<1>4. ASSUME NEW o \in Objective,
             GuardReady(o) \/ ReserveCompensation(o) \/ ObserveCompensation(o)
      PROVE  Rows /\ Locks
  BY <1>4 DEF GuardReady, ReserveCompensation, ObserveCompensation, Rows, Quiet, Locks, commands
<1>5. ASSUME NEW o \in Objective, NEW state \in {"WAITING_EFFECT", "ENDED"}, Progress(o, state)
      PROVE  Rows /\ Locks
  BY <1>5 DEF Progress, Rows, Locks, commands
<1>6. ASSUME NEW o \in Objective, NEW c \in ClaimCommand, NEW a \in Agent,
             NEW seconds \in LeaseSeconds, Claim(c, o, a, seconds)
      PROVE  Rows /\ Locks
  <2>1. UNCHANGED <<system, commands>>
    BY <1>6 DEF Claim
  <2> QED
    BY <1>6, <2>1 DEF Rows, Locks, commands
<1>7. ASSUME NEW c \in ClaimCommand, NEW k \in AgentCommand, BeginCommit(c, k)
      PROVE  Rows /\ Locks
  BY <1>7 DEF BeginCommit, Rows, Quiet, Locks, rows
<1>8. ASSUME NEW c \in ClaimCommand, NEW k \in AgentCommand, EndCommit(c, k)
      PROVE  Rows /\ Locks
  BY <1>8 DEF EndCommit, Rows, Quiet, Locks, rows
<1>9. ASSUME NEW g \in Generation, SwitchGeneration(g)
      PROVE  Rows /\ Locks
  BY <1>9 DEF SwitchGeneration, Rows, Quiet, Locks, rows, commands
<1>10. ASSUME NEW s \in CapabilitySet, PublishSet(s)
       PROVE  Rows /\ Locks
  BY <1>10 DEF PublishSet, Rows, Quiet, Locks, rows, commands
<1>11. CASE Status \/ Start
  BY <1>11 DEF Status, Start, RecoverExpired, Rows, Locks, commands
<1>12. CASE Crash
  BY <1>12 DEF Crash, Rows, Quiet, Locks, rows
<1>13. CASE Second
  BY <1>13 DEF Second, Rows, Quiet, Locks, rows, commands
<1> QED
  BY <1>1, <1>2, <1>3, <1>4, <1>5, <1>6, <1>7, <1>8, <1>9, <1>10, <1>11, <1>12, <1>13 DEF Next

-----------------------------------------------------------------------------
(* Rows and what a claim does to them *)

LEMMA WakeRow ==
  ASSUME TypeOK, NEW o \in Objective, wake[o].state # "NONE"
  PROVE  wake[o] \in Wake
BY DEF TypeOK, NoWake

LEMMA ActivationRow ==
  ASSUME TypeOK, NEW o \in Objective
  PROVE  /\ activation[o].state # "NONE" => activation[o] \in Activation
         /\ activation[o].fence \in Nat
         /\ activation[o].state = "NONE" => activation[o] = NoActivation
BY LifecycleAssumption DEF LifecycleAssumption, TypeOK, NoActivation, Activation

\* The binding that a claim hands out.
Offer(o, a, seconds) ==
  [objective |-> o, agent |-> a, fence |-> NextFence(o, a), set |-> activeSet,
   deadline |-> clock + seconds]

LEMMA OfferType ==
  ASSUME TypeOK, NEW o \in Objective, NEW a \in Agent, NEW seconds \in LeaseSeconds,
         NEW c \in ClaimCommand, Claim(c, o, a, seconds)
  PROVE  Offer(o, a, seconds) \in Binding
<1>1. NextFence(o, a) \in 1..MaxFence
  <2>1. activation[o].fence \in Nat
    BY ActivationRow
  <2>2. NextFence(o, a) <= MaxFence
    BY DEF Claim
  <2> QED
    BY <2>1, <2>2, LifecycleAssumption DEF LifecycleAssumption, NextFence
<1>2. clock + seconds \in Deadline
  <2>1. clock + seconds <= MaxClock
    BY DEF Claim
  <2>2. clock \in Nat /\ seconds \in Nat
    BY LifecycleAssumption DEF LifecycleAssumption, TypeOK, Deadline
  <2> QED
    BY <2>1, <2>2, LifecycleAssumption DEF LifecycleAssumption, Deadline
<1>3. activeSet \in CapabilitySet
  BY DEF Claim, SystemIsBound, TypeOK
<1> QED
  BY <1>1, <1>2, <1>3 DEF Offer, Binding

LEMMA ClaimStep ==
  ASSUME NEW o, NEW a, NEW seconds, NEW c, Claim(c, o, a, seconds)
  PROVE  /\ claimed[c] = Nothing /\ Claimable(o) /\ SystemIsBound
         /\ PublishClaim(c, Offer(o, a, seconds))
         /\ \/ Lease(c, Offer(o, a, seconds))
            \/ UNCHANGED <<wake, activation, claimed>>
         /\ UNCHANGED <<clock, up, crashes, objective, guard, system, commands>>
BY DEF Claim, Offer

-----------------------------------------------------------------------------
(* Types *)

\* What is being committed was claimed: without it a commit could write
\* something that is no fence.
CommandsAreClaimed == \A t \in committing : claimed[t[1]] # Nothing

LEMMA Zero == 0 \in Deadline /\ 0 \in 0..MaxFence /\ 0 \in 0..MaxCrashes
BY LifecycleAssumption DEF LifecycleAssumption, Deadline

LEMMA TypeInit == ASSUME Init PROVE TypeOK /\ CommandsAreClaimed
BY LifecycleAssumption, Zero DEF LifecycleAssumption, Init, TypeOK, CommandsAreClaimed

LEMMA TypeStep ==
  ASSUME TypeOK, CommandsAreClaimed, [Next]_vars
  PROVE  TypeOK'
<1> USE LifecycleAssumption, Zero DEF LifecycleAssumption
<1>1. CASE UNCHANGED vars
  BY <1>1 DEF vars, rows, system, claims, commands, TypeOK
<1>2. ASSUME NEW o \in Objective, Schedule(o)
      PROVE  TypeOK'
  <2>1. [state |-> "PENDING", due |-> clock, owner |-> Nothing, expires |-> 0] \in Wake
    BY DEF TypeOK, Wake
  <2> QED
    BY <1>2, <2>1 DEF Schedule, TypeOK, system, claims, commands
<1>3. ASSUME NEW o \in Objective, Complete(o)
      PROVE  TypeOK'
  <2>1. [wake[o] EXCEPT !.state = "ACKNOWLEDGED"] \in Wake
    <3>1. wake[o] \in Wake
      BY <1>3, WakeRow DEF Complete, Due
    <3> QED
      BY <3>1 DEF Wake
  <2> QED
    BY <1>3, <2>1 DEF Complete, TypeOK, system, claims, commands
<1>4. ASSUME NEW o \in Objective, CancelDenied(o)
      PROVE  TypeOK'
  <2>1. Acknowledged(o) \in Wake
    <3>1. wake[o] \in Wake
      BY <1>4, WakeRow DEF CancelDenied
    <3> QED
      BY <3>1 DEF Acknowledged, Wake
  <2> QED
    BY <1>4, <2>1 DEF CancelDenied, TypeOK, system, claims, commands
<1>5. ASSUME NEW o \in Objective,
             GuardReady(o) \/ ReserveCompensation(o) \/ ObserveCompensation(o) \/ GuardCompensated(o)
      PROVE  TypeOK'
  BY <1>5 DEF GuardReady, ReserveCompensation, ObserveCompensation, GuardCompensated, TypeOK,
              system, claims, commands
<1>6. ASSUME NEW o \in Objective, NEW state \in {"WAITING_EFFECT", "ENDED"}, Progress(o, state)
      PROVE  TypeOK'
  <2>1. [activation[o] EXCEPT !.state = state] \in Activation
    <3>1. activation[o] \in Activation
      BY <1>6, ActivationRow DEF Progress
    <3> QED
      BY <3>1 DEF Activation
  <2> QED
    BY <1>6, <2>1 DEF Progress, TypeOK, system, claims, commands
<1>7. ASSUME NEW o \in Objective, NEW c \in ClaimCommand, NEW a \in Agent,
             NEW seconds \in LeaseSeconds, Claim(c, o, a, seconds)
      PROVE  TypeOK'
  <2> DEFINE b == Offer(o, a, seconds)
  <2>1. b \in Binding
    BY <1>7, OfferType
  <2>2. /\ PublishClaim(c, b)
        /\ Lease(c, b) \/ UNCHANGED <<wake, activation, claimed>>
        /\ UNCHANGED <<clock, up, crashes, objective, guard, system, commands>>
    BY <1>7, ClaimStep
  <2>3. b.objective = o
    BY DEF Offer
  <2>4. claimed' \in [ClaimCommand -> Binding \cup {Nothing}]
    BY <2>1, <2>2 DEF Lease, TypeOK
  <2>5. evidence' \in [ClaimCommand -> Binding \cup {Nothing}]
    BY <2>1, <2>2 DEF PublishClaim, TypeOK
  <2>6. activation' \in [Objective -> Activation \cup {NoActivation}]
    <3>1. [state |-> "LEASED", agent |-> b.agent, expires |-> b.deadline,
           fence |-> b.fence, set |-> b.set] \in Activation
      BY <2>1 DEF Binding, Activation
    <3> HIDE DEF b
    <3> QED
      BY <2>2, <2>3, <3>1 DEF Lease, TypeOK
  <2>7. wake' \in [Objective -> Wake \cup {NoWake}]
    <3>1. wake[o] \in Wake
      BY <1>7, WakeRow, ClaimStep DEF Claimable
    <3>2. [wake[o] EXCEPT !.state = "LEASED", !.owner = b.agent, !.expires = b.deadline] \in Wake
      BY <2>1, <3>1 DEF Binding, Wake
    <3>3. CASE Lease(c, b)
      <4>1. wake' = [wake EXCEPT ![o] = [wake[o] EXCEPT !.state = "LEASED", !.owner = b.agent,
                                                        !.expires = b.deadline]]
        BY <2>3, <3>3, <3>1 DEF Lease, TypeOK, Wake
      <4> QED
        BY <3>2, <4>1 DEF TypeOK
    <3> QED
      BY <2>2, <3>3 DEF TypeOK
  <2> QED
    BY <2>2, <2>4, <2>5, <2>6, <2>7 DEF TypeOK, system, commands
<1>8. ASSUME NEW c \in ClaimCommand, NEW k \in AgentCommand, BeginCommit(c, k)
      PROVE  TypeOK'
  BY <1>8 DEF BeginCommit, TypeOK, rows, system, claims
<1>9. ASSUME NEW c \in ClaimCommand, NEW k \in AgentCommand, EndCommit(c, k)
      PROVE  TypeOK'
  <2>1. claimed[c] \in Binding
    BY <1>9 DEF EndCommit, CommandsAreClaimed, TypeOK
  <2>2. <<claimed[c].objective, k>> \in Objective \X AgentCommand /\ claimed[c].fence \in 0..MaxFence
    BY <2>1 DEF Binding
  <2>3. ledger' \in [Objective \X AgentCommand -> 0..MaxFence]
    BY <1>9, <2>2 DEF EndCommit, TypeOK
  <2>4. committing' \in SUBSET (ClaimCommand \X AgentCommand)
    BY <1>9 DEF EndCommit, TypeOK
  <2> QED
    BY <1>9, <2>3, <2>4 DEF EndCommit, TypeOK, rows, system, claims
<1>10. ASSUME NEW g \in Generation, SwitchGeneration(g)
       PROVE  TypeOK'
  BY <1>10 DEF SwitchGeneration, TypeOK, rows, claims, commands
<1>11. ASSUME NEW s \in CapabilitySet, PublishSet(s)
       PROVE  TypeOK'
  BY <1>11 DEF PublishSet, TypeOK, rows, claims, commands
<1>12. CASE Status \/ Start
  <2>1. RecoverExpired /\ up' \in BOOLEAN
    BY <1>12 DEF Status, Start, TypeOK
  <2>2. \A o \in Expired : Released(o) \in Wake /\ Reclassified(o) \in Activation
    <3> SUFFICES ASSUME NEW o \in Expired
                 PROVE  Released(o) \in Wake /\ Reclassified(o) \in Activation
      OBVIOUS
    <3>1. wake[o] \in Wake
      BY <2>1, WakeRow DEF RecoverExpired, Recoverable, WakeAgrees, Expired
    <3>2. activation[o] \in Activation
      BY ActivationRow DEF Expired, Live
    <3> QED
      BY <3>1, <3>2 DEF Released, Reclassified, Wake, Activation
  <2> QED
    BY <2>1, <2>2 DEF RecoverExpired, TypeOK, system, claims, commands
<1>13. CASE Crash
  <2>1. crashes' \in 0..MaxCrashes
    BY <1>13 DEF Crash, TypeOK
  <2> QED
    BY <1>13, <2>1 DEF Crash, TypeOK, rows, system, claims
<1>14. CASE Second
  BY <1>14 DEF Second, TypeOK, rows, system, claims, commands, Deadline
<1> QED
  BY <1>1, <1>2, <1>3, <1>4, <1>5, <1>6, <1>7, <1>8, <1>9, <1>10, <1>11, <1>12, <1>13, <1>14
  DEF Next, Tick, TickAmongOthers

LEMMA CommandsStep ==
  ASSUME TypeOK, CommandsAreClaimed, Rows, Locks
  PROVE  CommandsAreClaimed'
<1>1. \A c \in ClaimCommand : claimed[c] # Nothing => claimed'[c] = claimed[c]
  <2>1. ASSUME NEW o \in Objective, NEW c \in ClaimCommand, NEW a \in Agent,
               NEW seconds \in LeaseSeconds, Claim(c, o, a, seconds)
        PROVE  \A d \in ClaimCommand : claimed[d] # Nothing => claimed'[d] = claimed[d]
    BY <2>1, ClaimStep DEF Lease, TypeOK
  <2> QED
    BY <2>1 DEF Rows, Quiet, claims, Schedule, Complete, CancelDenied, GuardCompensated, Progress,
                RecoverExpired
<1>2. ASSUME NEW c \in ClaimCommand, NEW k \in AgentCommand, BeginCommit(c, k)
      PROVE  CommandsAreClaimed'
  BY <1>2 DEF BeginCommit, Resolves, CommandsAreClaimed, claims
<1>3. CASE committing' \subseteq committing
  BY <1>1, <1>3 DEF CommandsAreClaimed, TypeOK
<1> QED
  BY <1>2, <1>3 DEF Locks

\* The variables of the state service have the types that TypeOK gives them.
THEOREM TypeCorrect == Spec => []TypeOK
<1> DEFINE Inv == TypeOK /\ CommandsAreClaimed
<1>1. Init => Inv
  BY TypeInit
<1>2. Inv /\ [Next]_vars => Inv'
  BY TypeStep, CommandsStep, StepShape
<1>3. Inv => TypeOK
  OBVIOUS
<1> QED
  BY <1>1, <1>2, <1>3, PTL DEF Spec

-----------------------------------------------------------------------------
(* Wakes and leases *)

\* An objective that was never scheduled has no rows to disagree.
Unscheduled ==
  \A o \in Objective : objective[o] = "NONE" => wake[o].state = "NONE" /\ activation[o].state = "NONE"

WakeInv == Unscheduled /\ LeasesAgree /\ WakeUntilDone

LEMMA WakeInvStep ==
  ASSUME TypeOK, WakeInv, Rows
  PROVE  WakeInv'
<1> USE DEF WakeInv, Unscheduled, LeasesAgree, WakeUntilDone, WakeAgrees, Live
<1>1. CASE Quiet
  BY <1>1 DEF Quiet, claims
<1>2. ASSUME NEW o \in Objective, Schedule(o)
      PROVE  WakeInv'
  BY <1>2 DEF Schedule, TypeOK
<1>3. ASSUME NEW o \in Objective, Complete(o)
      PROVE  WakeInv'
  <2>1. wake'[o].state = "ACKNOWLEDGED"
    <3>1. wake[o] \in Wake
      BY <1>3, WakeRow DEF Complete, Due
    <3> QED
      BY <1>3, <3>1 DEF Complete, TypeOK, Wake
  <2> QED
    BY <1>3, <2>1 DEF Complete, TypeOK
<1>4. ASSUME NEW o \in Objective, CancelDenied(o)
      PROVE  WakeInv'
  <2>1. wake'[o].state = "ACKNOWLEDGED"
    <3>1. wake[o] \in Wake
      BY <1>4, WakeRow DEF CancelDenied
    <3> QED
      BY <1>4, <3>1 DEF CancelDenied, Acknowledged, TypeOK, Wake
  <2> QED
    BY <1>4, <2>1 DEF CancelDenied, TypeOK
<1>5. ASSUME NEW o \in Objective, GuardCompensated(o)
      PROVE  WakeInv'
  BY <1>5 DEF GuardCompensated, TypeOK
<1>6. ASSUME NEW o \in Objective, NEW state \in {"WAITING_EFFECT", "ENDED"}, Progress(o, state)
      PROVE  WakeInv'
  <2>1. activation[o] \in Activation
    BY <1>6, ActivationRow DEF Progress
  <2>2. /\ activation'[o].state = state
        /\ activation'[o].agent = activation[o].agent
        /\ activation'[o].expires = activation[o].expires
    BY <1>6, <2>1 DEF Progress, TypeOK, Activation
  <2> QED
    BY <1>6, <2>2 DEF Progress, TypeOK
<1>7. ASSUME NEW o \in Objective, NEW c \in ClaimCommand, NEW a \in Agent,
             NEW seconds \in LeaseSeconds, Claim(c, o, a, seconds)
      PROVE  WakeInv'
  <2> DEFINE b == Offer(o, a, seconds)
  <2>1. UNCHANGED objective /\ objective[o] = "PROPOSED"
    BY <1>7 DEF Claim, Claimable
  <2>2. CASE UNCHANGED <<wake, activation>>
    BY <2>1, <2>2
  <2>3. CASE Lease(c, b)
    <3>1. wake[o] \in Wake
      BY <1>7, WakeRow, ClaimStep DEF Claimable
    <3>2. b.objective = o
      BY DEF Offer
    <3> HIDE DEF b
    <3>3. /\ wake'[o].state = "LEASED" /\ wake'[o].owner = b.agent /\ wake'[o].expires = b.deadline
          /\ \A p \in Objective \ {o} : wake'[p] = wake[p]
      BY <2>3, <3>1, <3>2 DEF Lease, TypeOK, Wake
    <3>4. /\ activation'[o].state = "LEASED" /\ activation'[o].agent = b.agent
          /\ activation'[o].expires = b.deadline
          /\ \A p \in Objective \ {o} : activation'[p] = activation[p]
      BY <2>3, <3>2 DEF Lease, TypeOK
    <3> QED
      BY <2>1, <3>3, <3>4
  <2> QED
    BY <1>7, <2>2, <2>3, ClaimStep
<1>8. CASE RecoverExpired
  <2>1. UNCHANGED objective
    BY <1>8 DEF RecoverExpired
  <2>2. ASSUME NEW o \in Objective \ Expired
        PROVE  wake'[o] = wake[o] /\ activation'[o] = activation[o]
    BY <1>8 DEF RecoverExpired
  <2>3. ASSUME NEW o \in Expired
        PROVE  /\ wake[o].state = "LEASED" /\ wake'[o].state = "RELEASED"
               /\ activation'[o].state \in {"ENDED", "REQUESTED"}
    <3>1. wake[o].state = "LEASED" /\ o \in Objective
      BY <1>8 DEF RecoverExpired, Recoverable, Expired
    <3>2. wake[o] \in Wake /\ activation[o] \in Activation
      BY <3>1, WakeRow, ActivationRow DEF Expired
    <3>3. wake'[o] = Released(o) /\ activation'[o] = Reclassified(o)
      BY <1>8, <3>1 DEF RecoverExpired
    <3> QED
      BY <3>1, <3>2, <3>3 DEF Released, Reclassified, Wake, Activation
  <2> QED
    BY <2>1, <2>2, <2>3 DEF TypeOK
<1> QED
  BY <1>1, <1>2, <1>3, <1>4, <1>5, <1>6, <1>7, <1>8 DEF Rows

-----------------------------------------------------------------------------
(* Fences *)

\* An activation has the highest fence under which its objective was claimed,
\* and no fence was given out twice.
FencesAgree ==
  \A c \in ClaimCommand : claimed[c] # Nothing =>
    claimed[c].fence <= activation[claimed[c].objective].fence

FencesAreUnique ==
  \A c, d \in ClaimCommand :
    /\ claimed[c] # Nothing /\ claimed[d] # Nothing
    /\ claimed[c].objective = claimed[d].objective
    /\ claimed[c].fence = claimed[d].fence
    => c = d

\* What is being committed still has what it was resolved under.
HeldIsCurrent ==
  \A t \in committing :
    /\ Live(claimed[t[1]].objective)
    /\ activation[claimed[t[1]].objective].fence = claimed[t[1]].fence
    /\ activation[claimed[t[1]].objective].set = claimed[t[1]].set
    /\ activeSet = claimed[t[1]].set
    /\ SetGeneration[claimed[t[1]].set] = generation

FenceInv == FencesAgree /\ FencesAreUnique /\ HeldIsCurrent

\* A step moves at most the fence of the objective it claims.
LEMMA FenceStep ==
  ASSUME TypeOK, Rows,
         NEW p \in Objective
  PROVE  \/ activation'[p].fence = activation[p].fence
         \/ \E c \in ClaimCommand, a \in Agent, seconds \in LeaseSeconds :
              Claim(c, p, a, seconds) /\ Lease(c, Offer(p, a, seconds))
<1>1. CASE UNCHANGED activation
  BY <1>1
<1>2. ASSUME NEW o \in Objective, NEW state \in {"WAITING_EFFECT", "ENDED"}, Progress(o, state)
      PROVE  activation'[p].fence = activation[p].fence
  <2>1. activation[o] \in Activation
    BY <1>2, ActivationRow DEF Progress
  <2> QED
    BY <1>2, <2>1 DEF Progress, TypeOK, Activation
<1>3. ASSUME NEW o \in Objective, NEW c \in ClaimCommand, NEW a \in Agent,
             NEW seconds \in LeaseSeconds, Claim(c, o, a, seconds)
      PROVE  \/ activation'[p].fence = activation[p].fence
             \/ o = p /\ Lease(c, Offer(p, a, seconds))
  <2>1. Offer(o, a, seconds).objective = o
    BY DEF Offer
  <2>2. CASE Lease(c, Offer(o, a, seconds)) /\ o # p
    BY <2>1, <2>2 DEF Lease, TypeOK
  <2> QED
    BY <1>3, <2>2, ClaimStep
<1>4. CASE RecoverExpired
  <2>1. CASE p \in Expired
    <3>1. activation[p] \in Activation /\ activation'[p] = Reclassified(p)
      BY <1>4, <2>1, ActivationRow DEF RecoverExpired, Expired, Live
    <3> QED
      BY <3>1 DEF Reclassified, Activation
  <2> QED
    BY <1>4, <2>1 DEF RecoverExpired
<1> QED
  BY <1>1, <1>2, <1>3, <1>4
  DEF Rows, Quiet, Schedule, Complete, CancelDenied, GuardCompensated

\* What a claim hands out is new, and above every fence of its objective.
LEMMA ClaimedStep ==
  ASSUME TypeOK, Rows
  PROVE  \/ UNCHANGED claimed
         \/ \E c \in ClaimCommand, o \in Objective, a \in Agent, seconds \in LeaseSeconds :
              /\ Claim(c, o, a, seconds) /\ Lease(c, Offer(o, a, seconds))
              /\ claimed[c] = Nothing
              /\ claimed' = [claimed EXCEPT ![c] = Offer(o, a, seconds)]
              /\ activation'[o].fence = activation[o].fence + 1
              /\ Offer(o, a, seconds).fence = activation[o].fence + 1
              /\ \A p \in Objective \ {o} : activation'[p] = activation[p]
<1>1. ASSUME NEW o \in Objective, NEW c \in ClaimCommand, NEW a \in Agent,
             NEW seconds \in LeaseSeconds, Claim(c, o, a, seconds), Lease(c, Offer(o, a, seconds))
      PROVE  /\ claimed[c] = Nothing
             /\ claimed' = [claimed EXCEPT ![c] = Offer(o, a, seconds)]
             /\ activation'[o].fence = activation[o].fence + 1
             /\ Offer(o, a, seconds).fence = activation[o].fence + 1
             /\ \A p \in Objective \ {o} : activation'[p] = activation[p]
  <2>1. /\ Offer(o, a, seconds).objective = o
        /\ Offer(o, a, seconds).fence = activation[o].fence + 1
    BY DEF Offer, NextFence
  <2> QED
    BY <1>1, <2>1 DEF Claim, Lease, TypeOK
<1> QED
  BY <1>1, ClaimStep
  DEF Rows, Quiet, claims, Schedule, Complete, CancelDenied, GuardCompensated, Progress, RecoverExpired

LEMMA FenceInvStep ==
  ASSUME TypeOK, CommandsAreClaimed, FenceInv, Rows, Locks
  PROVE  FenceInv'
<1> USE DEF FenceInv
<1>1. \A p \in Objective : activation[p].fence \in Nat
  BY ActivationRow
<1>2. \A c \in ClaimCommand : claimed[c] # Nothing =>
        /\ claimed[c].objective \in Objective
        /\ claimed[c].fence \in Nat
  BY LifecycleAssumption DEF LifecycleAssumption, TypeOK, Binding
<1>3. ASSUME UNCHANGED claimed
      PROVE  FencesAgree' /\ FencesAreUnique'
  <2>1. \A p \in Objective : activation'[p].fence = activation[p].fence
                             \/ activation'[p].fence = activation[p].fence + 1
    <3> SUFFICES ASSUME NEW p \in Objective
                 PROVE  \/ activation'[p].fence = activation[p].fence
                        \/ activation'[p].fence = activation[p].fence + 1
      OBVIOUS
    <3>1. ASSUME NEW c \in ClaimCommand, NEW a \in Agent, NEW seconds \in LeaseSeconds,
                 Lease(c, Offer(p, a, seconds))
          PROVE  activation'[p].fence = activation[p].fence + 1
      BY <3>1 DEF Lease, Offer, NextFence, TypeOK
    <3> QED
      BY <3>1, FenceStep
  <2> QED
    BY <1>1, <1>2, <1>3, <2>1 DEF FencesAgree, FencesAreUnique
<1>4. ASSUME NEW c \in ClaimCommand, NEW o \in Objective, NEW a \in Agent,
             NEW seconds \in LeaseSeconds,
             claimed[c] = Nothing,
             claimed' = [claimed EXCEPT ![c] = Offer(o, a, seconds)],
             activation'[o].fence = activation[o].fence + 1,
             Offer(o, a, seconds).fence = activation[o].fence + 1,
             \A p \in Objective \ {o} : activation'[p] = activation[p]
      PROVE  FencesAgree' /\ FencesAreUnique'
  <2>1. /\ claimed'[c].objective = o
        /\ claimed'[c].fence = activation[o].fence + 1
        /\ \A d \in ClaimCommand \ {c} : claimed'[d] = claimed[d]
    BY <1>4 DEF Offer, TypeOK
  <2>2. FencesAgree'
    BY <1>1, <1>2, <1>4, <2>1 DEF FencesAgree
  <2>3. FencesAreUnique'
    <3>1. \A d \in ClaimCommand \ {c} :
            claimed[d] # Nothing /\ claimed[d].objective = o =>
              claimed[d].fence # activation[o].fence + 1
      BY <1>1, <1>2 DEF FencesAgree
    <3> QED
      BY <1>2, <2>1, <3>1 DEF FencesAreUnique
  <2> QED
    BY <2>2, <2>3
<1>5. HeldIsCurrent'
  <2>1. ASSUME NEW c \in ClaimCommand, NEW k \in AgentCommand, BeginCommit(c, k)
        PROVE  HeldIsCurrent'
    BY <2>1 DEF BeginCommit, Resolves, HeldIsCurrent, Live, rows, claims, system
  <2>2. CASE committing = {} /\ committing' = committing
    BY <2>2 DEF HeldIsCurrent
  <2>3. ASSUME committing' \subseteq committing, UNCHANGED system,
               NEW t \in committing'
        PROVE  /\ Live(claimed[t[1]].objective)'
               /\ activation'[claimed'[t[1]].objective].fence = claimed'[t[1]].fence
               /\ activation'[claimed'[t[1]].objective].set = claimed'[t[1]].set
               /\ activeSet' = claimed'[t[1]].set
               /\ SetGeneration[claimed'[t[1]].set] = generation'
    <3>1. PICK p \in Objective : p = claimed[t[1]].objective
      BY <1>2, <2>3 DEF CommandsAreClaimed, TypeOK
    <3>2. /\ t \in committing /\ t[1] \in ClaimCommand /\ claimed[t[1]] # Nothing
          /\ Live(p) /\ p \in Held
          /\ activation[p].fence = claimed[t[1]].fence
          /\ activation[p].set = claimed[t[1]].set
      BY <2>3, <3>1 DEF CommandsAreClaimed, HeldIsCurrent, TypeOK, Held
    <3>3. claimed'[t[1]] = claimed[t[1]]
      BY <3>2, ClaimedStep DEF TypeOK
    <3>4. activation'[p] = activation[p]
      <4>1. ASSUME NEW o \in Objective, NEW state \in {"WAITING_EFFECT", "ENDED"}, Progress(o, state)
            PROVE  activation'[p] = activation[p]
        BY <3>2, <4>1 DEF Progress, TypeOK
      <4>2. ASSUME NEW o \in Objective, NEW c \in ClaimCommand, NEW a \in Agent,
                   NEW seconds \in LeaseSeconds, Claim(c, o, a, seconds)
            PROVE  activation'[p] = activation[p]
        <5>1. o # p
          BY <3>2, <4>2, ClaimStep DEF Claimable, Live
        <5>2. Offer(o, a, seconds).objective = o
          BY DEF Offer
        <5>3. CASE Lease(c, Offer(o, a, seconds))
          BY <5>1, <5>2, <5>3 DEF Lease, TypeOK
        <5> QED
          BY <4>2, <5>3, ClaimStep
      <4>3. CASE RecoverExpired
        BY <3>2, <4>3 DEF RecoverExpired, Recoverable
      <4> QED
        BY <4>1, <4>2, <4>3
        DEF Rows, Quiet, Schedule, Complete, CancelDenied, GuardCompensated
    <3>5. activeSet = claimed[t[1]].set /\ SetGeneration[claimed[t[1]].set] = generation
      BY <3>2 DEF HeldIsCurrent
    <3> QED
      BY <2>3, <3>1, <3>2, <3>3, <3>4, <3>5 DEF Live, system
  <2>4. CASE committing' \subseteq committing /\ UNCHANGED system
    BY <2>3, <2>4 DEF HeldIsCurrent, Live
  <2> QED
    BY <2>1, <2>2, <2>4 DEF Locks, Unlocked
<1> QED
  BY <1>3, <1>4, <1>5, ClaimedStep

-----------------------------------------------------------------------------
(* The evidence of a claim *)

LEMMA EvidenceStep ==
  ASSUME TypeOK, BindingIsBacked, Rows
  PROVE  BindingIsBacked'
<1>1. ASSUME NEW o \in Objective, NEW c \in ClaimCommand, NEW a \in Agent,
             NEW seconds \in LeaseSeconds, Claim(c, o, a, seconds)
      PROVE  BindingIsBacked'
  <2>1. /\ claimed[c] = Nothing
        /\ evidence' = [evidence EXCEPT ![c] = Offer(o, a, seconds)]
        /\ \/ claimed' = [claimed EXCEPT ![c] = Offer(o, a, seconds)]
           \/ claimed' = claimed
    <3>1. /\ claimed[c] = Nothing /\ PublishClaim(c, Offer(o, a, seconds))
          /\ Lease(c, Offer(o, a, seconds)) \/ UNCHANGED claimed
      BY <1>1, ClaimStep
    <3> QED
      BY <3>1 DEF PublishClaim, Lease
  <2> QED
    BY <2>1 DEF BindingIsBacked, TypeOK
<1> QED
  BY <1>1 DEF Rows, Quiet, claims, Schedule, Complete, CancelDenied, GuardCompensated, Progress,
              RecoverExpired, BindingIsBacked

-----------------------------------------------------------------------------
(* The theorems *)

IInv == TypeOK /\ CommandsAreClaimed /\ WakeInv /\ FenceInv /\ BindingIsBacked

LEMMA IInvInductive ==
  /\ Init => IInv
  /\ IInv /\ [Next]_vars => IInv'
<1>1. ASSUME Init PROVE IInv
  <2>1. TypeOK /\ CommandsAreClaimed
    BY <1>1, TypeInit
  <2>2. WakeInv
    BY <1>1 DEF Init, WakeInv, Unscheduled, LeasesAgree, WakeUntilDone, NoWake, NoActivation, Live
  <2>3. FenceInv /\ BindingIsBacked
    BY <1>1 DEF Init, FenceInv, FencesAgree, FencesAreUnique, HeldIsCurrent, BindingIsBacked
  <2> QED
    BY <2>1, <2>2, <2>3 DEF IInv
<1>2. ASSUME IInv, [Next]_vars PROVE IInv'
  BY <1>2, StepShape, TypeStep, CommandsStep, WakeInvStep, FenceInvStep, EvidenceStep DEF IInv
<1> QED
  BY <1>1, <1>2

LEMMA IInvHolds == Spec => []IInv
BY IInvInductive, PTL DEF Spec

\* An objective has at most one holder that can act, for any number of agents,
\* claims, expiries and restarts.
THEOREM OneHolder == Spec => []ExclusiveHolder
<1>1. IInv => ExclusiveHolder
  BY DEF IInv, FenceInv, FencesAreUnique, ExclusiveHolder, Resolves
<1> QED
  BY <1>1, IInvHolds, PTL

\* Wake and activation of an open objective are leased and released together.
THEOREM LeasesStayTogether == Spec => []LeasesAgree
<1>1. IInv => LeasesAgree
  BY DEF IInv, WakeInv
<1> QED
  BY <1>1, IInvHolds, PTL

\* An open objective has a wake, and one that is satisfied or cancelled has none.
THEOREM NoWakeIsLost == Spec => []WakeUntilDone
<1>1. IInv => WakeUntilDone
  BY DEF IInv, WakeInv
<1> QED
  BY <1>1, IInvHolds, PTL

\* A binding that was handed out is the one its evidence describes.
THEOREM BindingsAreBacked == Spec => []BindingIsBacked
<1>1. IInv => BindingIsBacked
  BY DEF IInv
<1> QED
  BY <1>1, IInvHolds, PTL

\* A command is committed under the present fence, set and generation only,
\* although it was resolved before.
THEOREM SupersededCommitNothing == Spec => SupersededNeverCommits
<1> DEFINE Current(c, k) ==
      EndCommit(c, k) /\ ledger' # ledger =>
        /\ Live(claimed[c].objective)
        /\ activation[claimed[c].objective].fence = claimed[c].fence
        /\ activeSet = claimed[c].set
        /\ SetGeneration[claimed[c].set] = generation
<1>1. IInv => \A c \in ClaimCommand, k \in AgentCommand : Current(c, k)
  <2> SUFFICES ASSUME IInv, NEW c \in ClaimCommand, NEW k \in AgentCommand, EndCommit(c, k)
               PROVE  /\ Live(claimed[c].objective)
                      /\ activation[claimed[c].objective].fence = claimed[c].fence
                      /\ activeSet = claimed[c].set
                      /\ SetGeneration[claimed[c].set] = generation
    OBVIOUS
  <2>1. <<c, k>> \in committing /\ <<c, k>>[1] = c
    BY DEF EndCommit
  <2> QED
    BY <2>1 DEF IInv, FenceInv, HeldIsCurrent
<1>2. IInv => [\A c \in ClaimCommand, k \in AgentCommand : Current(c, k)]_vars
  BY <1>1
<1> QED
  BY <1>2, IInvHolds, PTL DEF SupersededNeverCommits

-----------------------------------------------------------------------------
(* The fenced lease *)

LEMMA LeaseInit ==
  ASSUME Init
  PROVE  Fenced!Init
BY DEF Init, Fenced!Init, NoActivation, Live, SystemIsBound

\* Steps that touch neither the activations nor the system nor the ledger.
LEMMA LeaseStutter ==
  ASSUME UNCHANGED <<activation, system, ledger>>
  PROVE  UNCHANGED Fenced!vars
BY DEF Fenced!vars, Live, SystemIsBound, system

LEMMA GiveStep ==
  ASSUME TypeOK, NEW o \in Objective, NEW c \in ClaimCommand, NEW a \in Agent,
         NEW seconds \in LeaseSeconds, Claim(c, o, a, seconds), Lease(c, Offer(o, a, seconds))
  PROVE  Fenced!Give(o, a)
<1>1. /\ ~Live(o) /\ SystemIsBound /\ UNCHANGED <<system, ledger>>
  BY DEF Claim, Claimable, Live, commands
<1>2. activation' = [activation EXCEPT
        ![o] = [state |-> "LEASED", agent |-> a, expires |-> clock + seconds,
                fence |-> activation[o].fence + 1, set |-> activeSet]]
  BY DEF Lease, Offer, NextFence
<1>3. /\ activation'[o].state = "LEASED" /\ activation'[o].agent = a
      /\ activation'[o].fence = activation[o].fence + 1 /\ activation'[o].set = activeSet
      /\ \A p \in Objective \ {o} : activation'[p] = activation[p]
  BY <1>2 DEF TypeOK
<1>4. activeSet # Nothing
  BY <1>1 DEF SystemIsBound
<1> QED
  BY <1>1, <1>3, <1>4 DEF Fenced!Give, Live, SystemIsBound, system

LEMMA TakeBackStep ==
  ASSUME TypeOK, NEW lost \in SUBSET Objective, UNCHANGED <<system, ledger>>,
         \A o \in lost : ~Live(o)',
         \A o \in Objective \ lost :
           /\ Live(o)' <=> Live(o)
           /\ activation'[o].agent = activation[o].agent,
         \A o \in Objective : /\ activation'[o].fence = activation[o].fence
                              /\ activation'[o].set = activation[o].set
  PROVE  Fenced!TakeBack(lost)
BY DEF Fenced!TakeBack, SystemIsBound, system

LEMMA ProgressStep ==
  ASSUME TypeOK, NEW o \in Objective, NEW state \in {"WAITING_EFFECT", "ENDED"}, Progress(o, state)
  PROVE  \E lost \in SUBSET Objective : Fenced!TakeBack(lost)
<1> DEFINE lost == IF state = "ENDED" THEN {o} ELSE {}
<1>1. activation[o] \in Activation
  BY ActivationRow DEF Progress
<1>2. /\ activation'[o] = [activation[o] EXCEPT !.state = state]
      /\ \A p \in Objective \ {o} : activation'[p] = activation[p]
  BY DEF Progress, TypeOK
<1>3. /\ activation'[o].state = state /\ activation'[o].agent = activation[o].agent
      /\ activation'[o].fence = activation[o].fence /\ activation'[o].set = activation[o].set
  BY <1>1, <1>2 DEF Activation
<1>4. UNCHANGED <<system, ledger>> /\ activation[o].state = "LEASED"
  BY DEF Progress, commands
<1>5. Fenced!TakeBack(lost)
  <2>1. lost \in SUBSET Objective
    OBVIOUS
  <2>2. \A p \in lost : ~Live(p)'
    BY <1>3 DEF Live
  <2>3. \A p \in Objective \ lost : (Live(p)' <=> Live(p)) /\ activation'[p].agent = activation[p].agent
    BY <1>2, <1>3, <1>4 DEF Live
  <2>4. \A p \in Objective : /\ activation'[p].fence = activation[p].fence
                            /\ activation'[p].set = activation[p].set
    BY <1>2, <1>3
  <2> HIDE DEF lost
  <2> QED
    BY <1>4, <2>1, <2>2, <2>3, <2>4, TakeBackStep
<1> QED
  BY <1>5

LEMMA RecoverStep ==
  ASSUME TypeOK, RecoverExpired
  PROVE  \E lost \in SUBSET Objective : Fenced!TakeBack(lost)
<1>1. PICK lost \in SUBSET Objective : lost = Expired
  BY DEF Expired
<1>2. ASSUME NEW o \in lost
      PROVE  /\ ~Live(o)'
             /\ activation'[o].fence = activation[o].fence
             /\ activation'[o].set = activation[o].set
  <2>1. o \in Objective /\ activation[o] \in Activation
    BY <1>1, ActivationRow DEF Expired, Live
  <2>2. activation'[o] = Reclassified(o)
    BY <1>1, <2>1 DEF RecoverExpired
  <2> QED
    BY <2>1, <2>2 DEF Reclassified, Activation, Live
<1>3. \A o \in Objective \ lost : activation'[o] = activation[o]
  BY <1>1 DEF RecoverExpired
<1>4. \A o \in Objective \ lost :
        (Live(o)' <=> Live(o)) /\ activation'[o].agent = activation[o].agent
  BY <1>3 DEF Live
<1>5. UNCHANGED <<system, ledger>>
  BY DEF RecoverExpired, commands
<1>6. Fenced!TakeBack(lost)
  BY <1>2, <1>3, <1>4, <1>5, TakeBackStep
<1> QED
  BY <1>6

LEMMA CommitStep ==
  ASSUME IInv, NEW c \in ClaimCommand, NEW k \in AgentCommand, EndCommit(c, k), ledger' # ledger
  PROVE  \E o \in Objective : Fenced!Commit(o, k)
<1>1. <<c, k>> \in committing /\ <<c, k>>[1] = c
  BY DEF EndCommit
<1>2. PICK o \in Objective : o = claimed[c].objective
  BY <1>1 DEF IInv, CommandsAreClaimed, TypeOK, Binding
<1>3. /\ Live(o) /\ activation[o].fence = claimed[c].fence
      /\ activation[o].set = activeSet
      /\ SetGeneration[activeSet] = generation
      /\ claimed[c] \in Binding
  BY <1>1, <1>2 DEF IInv, FenceInv, HeldIsCurrent, CommandsAreClaimed, TypeOK
<1>4. activation[o] \in Activation
  BY <1>3, ActivationRow DEF IInv, Live
<1>5. activeSet # Nothing /\ activation[o].agent # Nothing
  BY <1>3, <1>4, LifecycleAssumption DEF LifecycleAssumption, Activation
<1>6. /\ ledger[<<o, k>>] = 0 /\ ledger' = [ledger EXCEPT ![<<o, k>>] = activation[o].fence]
      /\ UNCHANGED <<activation, system>>
  BY <1>2, <1>3 DEF EndCommit, rows
<1>7. Fenced!Commit(o, k)
  BY <1>3, <1>5, <1>6 DEF Fenced!Commit, SystemIsBound, Live, system
<1> QED
  BY <1>7

LEMMA PutInForceStep ==
  ASSUME TypeOK', UNCHANGED <<activation, ledger>>
  PROVE  \E s \in CapabilitySet \cup {Nothing} : Fenced!PutInForce(s)
<1> DEFINE s == (IF SystemIsBound THEN activeSet ELSE Nothing)'
<1>1. s \in CapabilitySet \cup {Nothing}
  BY DEF TypeOK
<1>2. Fenced!PutInForce(s)
  BY DEF Fenced!PutInForce, Live
<1> QED
  BY <1>1, <1>2

LEMMA StepImplementsLease ==
  ASSUME IInv, IInv', [Next]_vars
  PROVE  [Fenced!Next]_Fenced!vars
<1> USE DEF Fenced!Next
<1>0. TypeOK /\ TypeOK'
  BY DEF IInv
<1>1. CASE UNCHANGED <<activation, system, ledger>>
  BY <1>1, LeaseStutter
<1>2. CASE UNCHANGED vars \/ Crash \/ Second
  BY <1>1, <1>2 DEF vars, rows, commands, Crash, Second
<1>3. ASSUME NEW o \in Objective,
             \/ Schedule(o) \/ Tick(o) \/ TickAmongOthers(o) \/ CancelDenied(o)
             \/ GuardReady(o) \/ ReserveCompensation(o) \/ ObserveCompensation(o)
             \/ GuardCompensated(o)
      PROVE  [Fenced!Next]_Fenced!vars
  BY <1>1, <1>3 DEF Schedule, Tick, TickAmongOthers, Complete, CancelDenied, GuardReady,
                    ReserveCompensation, ObserveCompensation, GuardCompensated, commands
<1>4. ASSUME NEW o \in Objective, NEW state \in {"WAITING_EFFECT", "ENDED"}, Progress(o, state)
      PROVE  [Fenced!Next]_Fenced!vars
  BY <1>0, <1>4, ProgressStep
<1>5. ASSUME NEW o \in Objective, NEW c \in ClaimCommand, NEW a \in Agent,
             NEW seconds \in LeaseSeconds, Claim(c, o, a, seconds)
      PROVE  [Fenced!Next]_Fenced!vars
  <2>1. CASE Lease(c, Offer(o, a, seconds))
    BY <1>0, <1>5, <2>1, GiveStep
  <2>2. CASE UNCHANGED <<wake, activation, claimed>>
    BY <1>1, <1>5, <2>2, ClaimStep DEF commands
  <2> QED
    BY <1>5, <2>1, <2>2, ClaimStep
<1>6. ASSUME NEW c \in ClaimCommand, NEW k \in AgentCommand, BeginCommit(c, k)
      PROVE  [Fenced!Next]_Fenced!vars
  BY <1>1, <1>6 DEF BeginCommit, rows
<1>7. ASSUME NEW c \in ClaimCommand, NEW k \in AgentCommand, EndCommit(c, k)
      PROVE  [Fenced!Next]_Fenced!vars
  <2>1. CASE ledger' = ledger
    BY <1>1, <1>7, <2>1 DEF EndCommit, rows
  <2>2. CASE ledger' # ledger
    BY <1>7, <2>2, CommitStep
  <2> QED
    BY <2>1, <2>2
<1>8. ASSUME (\E g \in Generation : SwitchGeneration(g)) \/ (\E s \in CapabilitySet : PublishSet(s))
      PROVE  [Fenced!Next]_Fenced!vars
  <2>1. UNCHANGED <<activation, ledger>>
    BY <1>8 DEF SwitchGeneration, PublishSet, rows, commands
  <2> QED
    BY <1>0, <2>1, PutInForceStep
<1>9. CASE Status \/ Start
  <2>1. RecoverExpired
    BY <1>9 DEF Status, Start
  <2> QED
    BY <1>0, <2>1, RecoverStep
<1> QED
  BY <1>2, <1>3, <1>4, <1>5, <1>6, <1>7, <1>8, <1>9 DEF Next

\* The service keeps what it promises of the work on an objective: handlers of
\* any number of agents, expiries, crashes and commits in two parts implement
\* the fenced lease.
THEOREM LeaseImplemented == Spec => ImplementsLease
<1>1. Init => Fenced!Init
  BY LeaseInit
<1>2. IInv /\ IInv' /\ [Next]_vars => [Fenced!Next]_Fenced!vars
  BY StepImplementsLease
<1> QED
  BY <1>1, <1>2, IInvHolds, PTL DEF Spec, ImplementsLease, Fenced!Spec
=============================================================================
