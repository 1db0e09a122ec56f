------------------------------ MODULE Lifecycle ------------------------------
(***************************************************************************)
(* Objectives, their wakes and the activations that work on them, in the   *)
(* state service (src/habitat_state/lifecycle.py): schedule, claim under a *)
(* lease and a fence, commit a command under a claim, complete when the    *)
(* effects are done, cancel after a denial, recover what has expired.      *)
(*                                                                         *)
(* Handlers run in parallel, each in one PostgreSQL transaction over rows  *)
(* it has locked, so that a handler is one action.  The commit of an agent *)
(* command is two: it resolves the activation, which it locks FOR SHARE    *)
(* with the generation and the active set, then reads evidence from the    *)
(* object store, then writes the ledger.  An objective has one wake and    *)
(* one activation; an agent stands for its lease owner and its credential. *)
(* The states in which an agent works (LEASED, PREPARING, RUNNING,         *)
(* WAITING_CONTEXT, SLEEPING) are one, as are those in which it has ended. *)
(***************************************************************************)
EXTENDS Integers, FiniteSets

CONSTANTS
  Objective,
  Rank,           \* the order of wake ids
  Agent,
  ClaimCommand,   \* command ids of claims
  AgentCommand,   \* command ids of agents
  CapabilitySet, Generation,
  SetGeneration,  \* a set never changes its generation: GovernedChange!SetIdentityIsFixed
  BootGeneration,
  LeaseSeconds,   \* the leases that are asked for
  MaxClock,       \* bound of the clock
  MaxFence,       \* bound of the fences
  MaxCrashes,     \* bound of the crashes of the service
  Nothing         \* NULL

ASSUME LifecycleAssumption ==
  /\ Rank \in [Objective -> Nat]
  /\ \A o, p \in Objective : Rank[o] = Rank[p] => o = p
  /\ SetGeneration \in [CapabilitySet -> Generation]
  /\ BootGeneration \in Generation
  /\ LeaseSeconds \subseteq Nat \ {0}
  /\ MaxClock \in Nat /\ MaxFence \in Nat /\ MaxCrashes \in Nat
  /\ Nothing \notin CapabilitySet \cup Agent \cup Nat

VARIABLES
  clock,       \* seconds
  up,          \* whether the service serves requests
  crashes,
  objective,   \* objectives, by state
  guard,       \* objective_effect_guards with the effects it counts
  wake,        \* wakes
  activation,  \* activations
  generation,  \* active_generation_binding
  activeSet,   \* the active row of capability_activation_sets
  evidence,    \* what the object store holds of each claim
  claimed,     \* lifecycle_commands: the binding each claim command has returned
  committing,  \* open transactions of agent commands: claim and command
  ledger       \* abi_command_ledger: the fence each command was committed under

rows == <<objective, guard, wake, activation>>
system == <<generation, activeSet>>
claims == <<evidence, claimed>>
commands == <<committing, ledger>>
vars == <<clock, up, crashes, rows, system, claims, commands>>

-----------------------------------------------------------------------------
(* Types *)

Deadline == 0..MaxClock

NoWake == [state |-> "NONE", due |-> 0, owner |-> Nothing, expires |-> 0]
Wake == [state : {"PENDING", "LEASED", "RELEASED", "ACKNOWLEDGED"}, due : Deadline,
         owner : Agent \cup {Nothing}, expires : Deadline]

NoActivation == [state |-> "NONE", agent |-> Nothing, expires |-> 0, fence |-> 0,
                 set |-> Nothing]
Activation == [state : {"REQUESTED", "LEASED", "WAITING_EFFECT", "ENDED"}, agent : Agent,
               expires : Deadline, fence : 1..MaxFence, set : CapabilitySet]

\* What a claim binds, and what its evidence says.
Binding == [objective : Objective, agent : Agent, fence : 1..MaxFence,
            set : CapabilitySet, deadline : Deadline]

TypeOK ==
  /\ clock \in Deadline /\ up \in BOOLEAN /\ crashes \in 0..MaxCrashes
  /\ objective \in [Objective -> {"NONE", "PROPOSED", "SATISFIED", "CANCELLED", "COMPENSATED"}]
  /\ guard \in [Objective -> {"NONE", "READY", "RESERVED", "UNDONE"}]
  /\ wake \in [Objective -> Wake \cup {NoWake}]
  /\ activation \in [Objective -> Activation \cup {NoActivation}]
  /\ generation \in Generation /\ activeSet \in CapabilitySet \cup {Nothing}
  /\ evidence \in [ClaimCommand -> Binding \cup {Nothing}]
  /\ claimed \in [ClaimCommand -> Binding \cup {Nothing}]
  /\ committing \in SUBSET (ClaimCommand \X AgentCommand)
  /\ ledger \in [Objective \X AgentCommand -> 0..MaxFence]

Init ==
  /\ clock = 0 /\ up = TRUE /\ crashes = 0
  /\ objective = [o \in Objective |-> "NONE"]
  /\ guard = [o \in Objective |-> "NONE"]
  /\ wake = [o \in Objective |-> NoWake]
  /\ activation = [o \in Objective |-> NoActivation]
  /\ generation = BootGeneration /\ activeSet = Nothing
  /\ evidence = [c \in ClaimCommand |-> Nothing]
  /\ claimed = [c \in ClaimCommand |-> Nothing]
  /\ committing = {}
  /\ ledger = [k \in Objective \X AgentCommand |-> 0]

\* The rows that open transactions of agent commands hold FOR SHARE.
Held == {claimed[t[1]].objective : t \in committing}

-----------------------------------------------------------------------------
(* Objectives and wakes *)

\* schedule_objective: the objective and its wake, due at once.  A repeated
\* request is answered from lifecycle_commands.
Schedule(o) ==
  /\ up
  /\ objective[o] = "NONE"
  /\ objective' = [objective EXCEPT ![o] = "PROPOSED"]
  /\ wake' = [wake EXCEPT
       ![o] = [state |-> "PENDING", due |-> clock, owner |-> Nothing, expires |-> 0]]
  /\ UNCHANGED <<clock, up, crashes, guard, activation, system, claims, commands>>

\* Mutant: an expired lease is left to recovery.
DueUnleased(o) == wake[o].state \in {"PENDING", "RELEASED"} /\ wake[o].due <= clock

\* A wake that is due and free, or whose lease has expired.
Due(o) ==
  /\ wake[o].due <= clock
  /\ \/ wake[o].state \in {"PENDING", "RELEASED"}
     \/ wake[o].state = "LEASED" /\ wake[o].expires <= clock

Completable(o) == objective[o] = "PROPOSED" /\ guard[o] = "READY"

Precedes(o, p) ==
  \/ wake[o].due < wake[p].due
  \/ wake[o].due = wake[p].due /\ Rank[o] < Rank[p]

First(o) == Due(o) /\ \A p \in Objective \ {o} : Due(p) => Precedes(o, p)

\* complete_ready_objective with the wake it has locked.  If the objective is
\* not completable it raises and changes nothing.
Complete(o) ==
  /\ up
  /\ Due(o) /\ Completable(o)
  /\ objective' = [objective EXCEPT ![o] = "SATISFIED"]
  /\ wake' = [wake EXCEPT ![o].state = "ACKNOWLEDGED"]
  /\ UNCHANGED <<clock, up, crashes, guard, activation, system, claims, commands>>

\* A TICK on its own locks the first wake that is due.
Tick(o) == First(o) /\ Complete(o)

\* FOR UPDATE SKIP LOCKED: it skips those that other transactions have locked,
\* for nothing in the end.
TickAmongOthers(o) == ~First(o) /\ Complete(o)

\* Mutant: only a wake that waits is acknowledged.
AcknowledgedPending(o) ==
  IF wake[o].state = "LEASED" THEN wake[o]
  ELSE [wake[o] EXCEPT !.state = "ACKNOWLEDGED", !.owner = Nothing, !.expires = 0]

Acknowledged(o) == [wake[o] EXCEPT !.state = "ACKNOWLEDGED", !.owner = Nothing, !.expires = 0]

\* cancel_denied_objective: whatever the wake's state; the activation stays as it is.
CancelDenied(o) ==
  /\ up
  /\ objective[o] = "PROPOSED"
  /\ wake[o].state \in {"PENDING", "RELEASED", "LEASED"}
  /\ objective' = [objective EXCEPT ![o] = "CANCELLED"]
  /\ wake' = [wake EXCEPT ![o] = Acknowledged(o)]
  /\ UNCHANGED <<clock, up, crashes, guard, activation, system, claims, commands>>

-----------------------------------------------------------------------------
(* Effects: the guard as the effects service writes it *)

\* guard_objective_effects when every effect has succeeded.
GuardReady(o) ==
  /\ up
  /\ objective[o] # "NONE" /\ guard[o] = "NONE"
  /\ guard' = [guard EXCEPT ![o] = "READY"]
  /\ UNCHANGED <<clock, up, crashes, objective, wake, activation, system, claims, commands>>

\* effects_reserve_compensation
ReserveCompensation(o) ==
  /\ objective[o] \in {"PROPOSED", "SATISFIED"} /\ guard[o] = "READY"
  /\ guard' = [guard EXCEPT ![o] = "RESERVED"]
  /\ UNCHANGED <<clock, up, crashes, objective, wake, activation, system, claims, commands>>

\* observe_effect_transition: the compensation has succeeded.
ObserveCompensation(o) ==
  /\ up
  /\ objective[o] \in {"PROPOSED", "SATISFIED"} /\ guard[o] = "RESERVED"
  /\ guard' = [guard EXCEPT ![o] = "UNDONE"]
  /\ UNCHANGED <<clock, up, crashes, objective, wake, activation, system, claims, commands>>

\* guard_objective_effects when a compensation has succeeded.
GuardCompensated(o) ==
  /\ up
  /\ guard[o] = "UNDONE" /\ objective[o] # "COMPENSATED"
  /\ objective' = [objective EXCEPT ![o] = "COMPENSATED"]
  /\ UNCHANGED <<clock, up, crashes, guard, wake, activation, system, claims, commands>>

-----------------------------------------------------------------------------
(* The system that claims are made under *)

\* The transactions of agent commands hold both rows FOR SHARE.
Unlocked == committing = {}

\* transition_governed_change, to ACTIVATED or ROLLED_BACK.
SwitchGeneration(g) ==
  /\ up /\ Unlocked
  /\ generation' = g
  /\ UNCHANGED <<clock, up, crashes, rows, activeSet, claims, commands>>

\* publish_capability_activation_set
PublishSet(s) ==
  /\ up /\ Unlocked
  /\ SetGeneration[s] = generation
  /\ activeSet' = s
  /\ UNCHANGED <<clock, up, crashes, rows, generation, claims, commands>>

SystemIsBound == activeSet # Nothing /\ SetGeneration[activeSet] = generation

-----------------------------------------------------------------------------
(* Activations *)

\* Mutant: the fence moves only when another agent claims.
NextFenceOfAgent(o, a) ==
  IF activation[o].agent = a THEN activation[o].fence ELSE activation[o].fence + 1

NextFence(o, a) == activation[o].fence + 1

Claimable(o) ==
  /\ objective[o] = "PROPOSED"
  /\ wake[o].state \in {"PENDING", "RELEASED"} /\ wake[o].due <= clock
  /\ activation[o].state \in {"NONE", "REQUESTED"}

\* Mutant: evidence under the same command id is taken to be the same evidence.
PublishClaimOnce(c, binding) ==
  evidence' = [evidence EXCEPT ![c] = IF @ = Nothing THEN binding ELSE @]

\* put_evidence for a claim: one content for each command id, which the object
\* store keeps even if the transaction of the claim is not committed.
PublishClaim(c, binding) ==
  /\ evidence[c] \in {Nothing, binding}
  /\ evidence' = [evidence EXCEPT ![c] = binding]

\* The wake and the activation are leased to the agent for the same time.
Lease(c, binding) ==
  LET o == binding.objective IN
    /\ wake' = [wake EXCEPT ![o].state = "LEASED", ![o].owner = binding.agent,
                            ![o].expires = binding.deadline]
    /\ activation' = [activation EXCEPT
         ![o] = [state |-> "LEASED", agent |-> binding.agent, expires |-> binding.deadline,
                 fence |-> binding.fence, set |-> binding.set]]
    /\ claimed' = [claimed EXCEPT ![c] = binding]

\* A claim with a command id that has not been recorded; otherwise the answer
\* is the recorded one, after its evidence was verified.
Claim(c, o, a, seconds) ==
  LET binding == [objective |-> o, agent |-> a, fence |-> NextFence(o, a),
                  set |-> activeSet, deadline |-> clock + seconds] IN
    /\ up
    /\ claimed[c] = Nothing
    /\ Claimable(o) /\ SystemIsBound
    /\ binding.fence <= MaxFence /\ binding.deadline <= MaxClock
    /\ PublishClaim(c, binding)
    /\ \/ Lease(c, binding)
       \/ UNCHANGED <<wake, activation, claimed>>  \* the transaction is not committed
    /\ UNCHANGED <<clock, up, crashes, objective, guard, system, commands>>

\* The states in which a binding resolves, and which recovery looks at.
Live(o) == activation[o].state \in {"LEASED", "WAITING_EFFECT"}

\* transition_activation, a library operation that no service offers.
Progress(o, state) ==
  /\ activation[o].state = "LEASED"
  /\ state \in {"WAITING_EFFECT", "ENDED"}
  /\ o \notin Held
  /\ activation' = [activation EXCEPT ![o].state = state]
  /\ UNCHANGED <<clock, up, crashes, objective, guard, wake, system, claims, commands>>

\* _resolve_activation for the binding that claim c has returned.
Resolves(c) ==
  /\ claimed[c] # Nothing
  /\ LET row == activation[claimed[c].objective] IN
       /\ row.agent = claimed[c].agent
       /\ row.fence = claimed[c].fence
       /\ row.set = claimed[c].set
       /\ SetGeneration[row.set] = generation /\ activeSet = row.set
       /\ Live(claimed[c].objective)
       /\ clock < row.expires

\* commit_activation_command up to the locks.
BeginCommit(c, k) ==
  /\ up
  /\ Resolves(c)
  /\ <<c, k>> \notin committing
  /\ committing' = committing \cup {<<c, k>>}
  /\ UNCHANGED <<clock, up, crashes, rows, system, claims, ledger>>

\* Mutant: a command that is on record is put on record again.
EndCommitAgain(c, k) ==
  LET entry == <<claimed[c].objective, k>> IN
    /\ <<c, k>> \in committing
    /\ committing' = committing \ {<<c, k>>}
    /\ \/ ledger' = [ledger EXCEPT ![entry] = claimed[c].fence]
       \/ UNCHANGED ledger
    /\ UNCHANGED <<clock, up, crashes, rows, system, claims>>

\* The rest of commit_activation_command: the command is committed, or it is
\* on record already, or its evidence is refused.
EndCommit(c, k) ==
  LET entry == <<claimed[c].objective, k>> IN
    /\ <<c, k>> \in committing
    /\ committing' = committing \ {<<c, k>>}
    /\ \/ ledger[entry] = 0 /\ ledger' = [ledger EXCEPT ![entry] = claimed[c].fence]
       \/ UNCHANGED ledger
    /\ UNCHANGED <<clock, up, crashes, rows, system, claims>>

-----------------------------------------------------------------------------
(* Recovery *)

\* Mutant: an activation that waits for an effect is left alone.
ExpiredIdle == {o \in Objective : activation[o].state = "LEASED" /\ activation[o].expires <= clock}

Expired == {o \in Objective : Live(o) /\ activation[o].expires <= clock}

WakeAgrees(o) == wake[o].state = "LEASED" /\ wake[o].owner = activation[o].agent

\* Mutant: recovery does not wait for the commands that are being committed.
RecoverableUnlocked == \A o \in Expired : WakeAgrees(o)

\* Every expired activation has its wake, or recovery raises; one that is held
\* FOR SHARE is waited for.
Recoverable == \A o \in Expired : WakeAgrees(o) /\ o \notin Held

Released(o) == [wake[o] EXCEPT !.state = "RELEASED", !.owner = Nothing, !.expires = 0]

\* An interrupted wait for an effect needs reconciliation, the rest is retried.
Reclassified(o) ==
  [activation[o] EXCEPT !.state = IF @ = "WAITING_EFFECT" THEN "ENDED" ELSE "REQUESTED",
                        !.expires = 0]

\* recover_expired: all or nothing.
RecoverExpired ==
  /\ Recoverable
  /\ wake' = [o \in Objective |-> IF o \in Expired THEN Released(o) ELSE wake[o]]
  /\ activation' = [o \in Objective |-> IF o \in Expired THEN Reclassified(o) ELSE activation[o]]
  /\ UNCHANGED <<clock, crashes, objective, guard, system, claims, commands>>

\* runtime_status
Status == up /\ Expired # {} /\ RecoverExpired /\ UNCHANGED up

\* The process ends and its open transactions with it.
Crash ==
  /\ up /\ crashes < MaxCrashes
  /\ up' = FALSE /\ crashes' = crashes + 1 /\ committing' = {}
  /\ UNCHANGED <<clock, rows, system, claims, ledger>>

\* main: it recovers before it listens, and ends if recovery raises.
Start == ~up /\ up' = TRUE /\ RecoverExpired

Second ==
  /\ clock < MaxClock
  /\ clock' = clock + 1
  /\ UNCHANGED <<up, crashes, rows, system, claims, commands>>

-----------------------------------------------------------------------------

Next ==
  \/ \E o \in Objective :
       \/ Schedule(o) \/ Tick(o) \/ TickAmongOthers(o) \/ CancelDenied(o)
       \/ GuardReady(o) \/ ReserveCompensation(o) \/ ObserveCompensation(o)
       \/ GuardCompensated(o)
       \/ \E state \in {"WAITING_EFFECT", "ENDED"} : Progress(o, state)
       \/ \E c \in ClaimCommand, a \in Agent, seconds \in LeaseSeconds :
            Claim(c, o, a, seconds)
  \/ \E c \in ClaimCommand, k \in AgentCommand : BeginCommit(c, k) \/ EndCommit(c, k)
  \/ \E g \in Generation : SwitchGeneration(g)
  \/ \E s \in CapabilitySet : PublishSet(s)
  \/ Status \/ Crash \/ Start \/ Second

Spec == Init /\ [][Next]_vars

\* The scheduler's timer sends TICK and the coordinator asks for STATUS again
\* and again; the supervisor starts a service that has ended; a transaction
\* comes to its end; time passes.
FairSpec ==
  /\ Spec
  /\ WF_vars(\E o \in Objective : Tick(o))
  /\ WF_vars(Status)
  /\ WF_vars(Start)
  /\ WF_vars(Second)
  /\ \A c \in ClaimCommand, k \in AgentCommand : WF_vars(EndCommit(c, k))

-----------------------------------------------------------------------------
(* Safety *)

\* Of all the agents an objective was ever given to, and of all the times one
\* agent was given it, at most one can still act: _resolve_activation.
ExclusiveHolder ==
  \A c, d \in ClaimCommand :
    Resolves(c) /\ Resolves(d) /\ claimed[c].objective = claimed[d].objective => c = d

\* A command is committed only under the fence its activation has at that
\* moment, and under the set and the generation that are active at that
\* moment, however long ago it was resolved: commit_activation_command.
SupersededNeverCommits ==
  [][\A c \in ClaimCommand, k \in AgentCommand :
       EndCommit(c, k) /\ ledger' # ledger =>
         /\ Live(claimed[c].objective)
         /\ activation[claimed[c].objective].fence = claimed[c].fence
         /\ activeSet = claimed[c].set
         /\ SetGeneration[claimed[c].set] = generation]_vars

\* While an objective is open its wake and its activation are leased together,
\* to the same agent and for the same time, and come back together:
\* claim_activation, recover_expired.
LeasesAgree ==
  \A o \in Objective : objective[o] = "PROPOSED" =>
    /\ Live(o) => WakeAgrees(o) /\ wake[o].expires = activation[o].expires
    /\ wake[o].state = "LEASED" => activation[o].state \notin {"NONE", "REQUESTED"}

\* No wake is lost: an open objective has one that is not acknowledged, and the
\* wake of an objective that is satisfied or cancelled is never delivered again.
WakeUntilDone ==
  \A o \in Objective :
    /\ objective[o] = "PROPOSED" => wake[o].state \in {"PENDING", "LEASED", "RELEASED"}
    /\ objective[o] \in {"SATISFIED", "CANCELLED"} => wake[o].state = "ACKNOWLEDGED"

\* A binding that was handed out is the one its evidence describes, in spite of
\* claims that published and did not commit: claim_activation, put_evidence.
BindingIsBacked ==
  \A c \in ClaimCommand : claimed[c] # Nothing => evidence[c] = claimed[c]

-----------------------------------------------------------------------------
(* Refinement *)

Fenced ==
  INSTANCE FencedLease
  WITH fence <- [o \in Objective |-> activation[o].fence],
       holder <- [o \in Objective |-> IF Live(o) THEN activation[o].agent ELSE Nothing],
       under <- [o \in Objective |-> activation[o].set],
       inForce <- IF SystemIsBound THEN activeSet ELSE Nothing

\* Claims, expiries, restarts, publications and commits in two parts, in any
\* order, implement the fenced lease: claim_activation, recover_expired,
\* commit_activation_command.
ImplementsLease == Fenced!Spec

-----------------------------------------------------------------------------
(* Liveness *)

\* A wake that is due first and that no TICK can complete.
Obstructed == \E o \in Objective : Due(o) /\ ~Completable(o)

\* Recovery raises: a wake was acknowledged while its activation was leased.
RecoveryBlocked == \E o \in Expired : ~WakeAgrees(o)

\* An objective whose effects are done is completed, in spite of a lease that
\* nobody released, unless a wake before it cannot be completed or the service
\* cannot start: complete_ready_objective.
ReadyCompletes ==
  \A o \in Objective :
    Completable(o) ~> (objective[o] # "PROPOSED" \/ guard[o] # "READY"
                       \/ Obstructed \/ RecoveryBlocked)

\* The wake of an agent that has gone comes back, unless recovery is blocked:
\* recover_expired.
LeaseComesBack ==
  \A o \in Objective :
    Live(o) ~> (~Live(o) \/ RecoveryBlocked)

\* W05: responsibility for a wake "is delivered at least once".  It is not when
\* an older wake belongs to an objective that cannot be completed.
WakeIsDelivered ==
  \A o \in Objective : Completable(o) ~> ~Completable(o)
=============================================================================
