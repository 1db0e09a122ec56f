------------------------ MODULE EffectDispatch_proofs ------------------------
(***************************************************************************)
(* What the dispatch of external effects guarantees for every number of    *)
(* objectives, grants, attempts and faults: an effect happens at most      *)
(* once, only after its record and its commitment, and completions, guards *)
(* and answers rest on records that are durable everywhere.                *)
(***************************************************************************)
EXTENDS EffectDispatch_invariant

\* The broker's own lemmas, for requests that are objectives.
AP == INSTANCE Authority_proofs WITH Request <- Objective, Evaluation <- {}

-----------------------------------------------------------------------------
(* The broker: its lemmas, carried over to the composition *)

LEMMA BrokerConstants == AP!ConstantsAssumption
  BY BrokerAssumption
  DEF A!ConstantsAssumption, AP!ConstantsAssumption, A!IsFiniteSet, AP!IsFiniteSet

LEMMA BrokerTypes == A!TypeOK <=> AP!TypeOK
  BY DEF A!TypeOK, A!Reservation, A!Digest, A!NoReservation, A!Reply, A!Phase,
         A!Code, A!NoReply, AP!TypeOK, AP!Reservation, AP!Digest,
         AP!NoReservation, AP!Reply, AP!Phase, AP!Code, AP!NoReply

\* EffectDispatch and this module name the same broker.
LEMMA SameReaped == A!Reaped = AP!Reaped
  BY DEF A!Reaped, A!NoReservation, AP!Reaped, AP!NoReservation

LEMMA SameSelected == \A q : A!Selected(q) = AP!Selected(q)
  BY DEF A!Selected, A!Matching, AP!Selected, AP!Matching

LEMMA SamePreparable ==
  \A held, q, g : A!Preparable(held, q, g) <=> AP!Preparable(held, q, g)
<1>1. \A S : A!Cardinality(S) = AP!Cardinality(S)
  BY Zenon DEF A!Cardinality, AP!Cardinality
<1>2. \A held, g : A!HasCapacity(held, g) <=> AP!HasCapacity(held, g)
  BY <1>1 DEF A!HasCapacity, A!Prepared, AP!HasCapacity, AP!Prepared
<1> QED
  BY <1>2
  DEF A!Preparable, A!Live, A!ChainActive, A!NoReservation,
      AP!Preparable, AP!Live, AP!ChainActive, AP!NoReservation

LEMMA SamePrepare == \A q : A!Prepare(q) <=> AP!Prepare(q)
<1>1. A!NoReservation = AP!NoReservation
  BY DEF A!NoReservation, AP!NoReservation
<1>2. \A q, g : A!NewReservation(q, g) = AP!NewReservation(q, g)
  BY DEF A!NewReservation, A!DigestOf, AP!NewReservation, AP!DigestOf
<1>3. \A q : A!Conflicting(A!Reaped, q) <=> AP!Conflicting(AP!Reaped, q)
  BY <1>1, SameReaped DEF A!Conflicting, A!DigestOf, AP!Conflicting, AP!DigestOf
<1>4. \A command, q, code : A!Answer(command, q, code) <=> AP!Answer(command, q, code)
  BY DEF A!Answer, AP!Answer
<1> QED
  BY <1>1, <1>2, <1>3, <1>4, SameReaped, SameSelected, SamePreparable
  DEF A!Prepare, A!quotaVars, A!adminVars, AP!Prepare, AP!quotaVars, AP!adminVars

LEMMA SameCommit == \A q : A!Commit(q) <=> AP!Commit(q)
  BY SameReaped, SameSelected
  DEF A!Commit, A!Committable, A!NoReservation, A!DigestOf, A!Live, A!ChainActive,
      A!Current, A!Consumes, A!Answer, A!adminVars,
      AP!Commit, AP!Committable, AP!NoReservation, AP!DigestOf, AP!Live, AP!ChainActive,
      AP!Current, AP!Consumes, AP!Answer, AP!adminVars

LEMMA SameAbort == \A q : A!Abort(q) <=> AP!Abort(q)
  BY SameReaped
  DEF A!Abort, A!Abortable, A!NoReservation, A!DigestOf, A!Answer, A!quotaVars,
      A!adminVars,
      AP!Abort, AP!Abortable, AP!NoReservation, AP!DigestOf, AP!Answer, AP!quotaVars,
      AP!adminVars

LEMMA SameStatus == \A q : A!Status(q) <=> AP!Status(q)
  BY SameReaped
  DEF A!Status, A!StatusCode, A!Conflicting, A!NoReservation, A!DigestOf, A!Current,
      A!Answer, A!quotaVars, A!adminVars,
      AP!Status, AP!StatusCode, AP!Conflicting, AP!NoReservation, AP!DigestOf, AP!Current,
      AP!Answer, AP!quotaVars, AP!adminVars

LEMMA SameIdle == A!Idle <=> AP!Idle
  BY SameReaped DEF A!Idle, A!quotaVars, A!adminVars, AP!Idle, AP!quotaVars, AP!adminVars

LEMMA SameAdminister == A!Administer <=> AP!Administer
  BY SameReaped
  DEF A!Administer, A!RecordApproval, A!ApplyAdmin, A!Approved, A!Revoke, A!Rotate,
      A!NextEpoch, A!Reconfigure, A!Adoptable, A!quotaVars,
      AP!Administer, AP!RecordApproval, AP!ApplyAdmin, AP!Approved, AP!Revoke, AP!Rotate,
      AP!NextEpoch, AP!Reconfigure, AP!Adoptable, AP!quotaVars

LEMMA SameTick == A!Tick <=> AP!Tick
  BY DEF A!Tick, A!quotaVars, A!adminVars, AP!Tick, AP!quotaVars, AP!adminVars

\* What the composition may do to the broker.
Asked(q) == A!Prepare(q) \/ A!Commit(q) \/ A!Abort(q) \/ A!Status(q)

BrokerMoves ==
  \/ \E q \in A!Message : q.at <= clock /\ Asked(q)
  \/ A!Idle \/ A!Administer \/ A!Tick \/ UNCHANGED authority

LEMMA MovesAreSteps == BrokerMoves => [AP!Next]_AP!vars
  BY SamePrepare, SameCommit, SameAbort, SameStatus, SameIdle, SameAdminister, SameTick
  DEF BrokerMoves, Asked, A!Message, authority, AP!Next, AP!vars, AP!Message,
      AP!EffectRequest

\* AUTHORIZED, said of a COMMIT or a STATUS, is a licence.
LEMMA AuthorizedLicenses ==
  ASSUME A!TypeOK, NEW o \in Objective, NEW stamp \in Stamp,
         A!Commit(Message(o, stamp)) \/ A!Status(Message(o, stamp)),
         reply'.code = "AUTHORIZED"
  PROVE  Licensed(o, stamp)'
<1> DEFINE q == Message(o, stamp)
<1>1. AP!TypeOK /\ q \in AP!Message /\ (AP!Commit(q) \/ AP!Status(q))
  BY BrokerTypes, BrokerConstants, SameCommit, SameStatus
  DEF Message, AP!Message, AP!ConstantsAssumption
<1>2. /\ reservation'[q.id].status = "COMMITTED"
      /\ reservation'[q.id].digest = AP!DigestOf(q)
  <2> HIDE DEF q
  <2> QED
    BY <1>1, BrokerConstants, AP!AnswerBinds
<1> QED
  BY <1>2 DEF Message, AP!DigestOf, Licensed

LEMMA MovesUphold ==
  ASSUME A!TypeOK, BrokerMoves
  PROVE  Upheld
<1>1. AP!TypeOK /\ [AP!Next]_AP!vars
  BY BrokerTypes, MovesAreSteps
<1>2. AP!TypeOK'
  BY <1>1, BrokerConstants, AP!TypeStep
<1>3. A!TypeOK'
  BY <1>2, BrokerTypes, PTL
<1>4. \A o \in Objective : reservation[o].status = "COMMITTED"
                            => reservation'[o] = reservation[o]
  BY <1>1, BrokerConstants, AP!ReservationStep
  DEF AP!Kept, AP!Dropped, AP!Created, AP!Bound
<1>5. clock <= clock'
  <2>1. clock' = clock \/ A!Tick
    BY DEF BrokerMoves, Asked, A!Prepare, A!Commit, A!Abort, A!Status, A!Idle,
           A!Administer, A!RecordApproval, A!ApplyAdmin, A!Reconfigure, authority
  <2> QED
    BY <2>1 DEF A!TypeOK, A!Tick
<1> QED
  BY <1>3, <1>4, <1>5, AuthorizedLicenses DEF Upheld, Licensed

-----------------------------------------------------------------------------
(* Every reachable state *)

\* The broker answers requests of the past, steps of its own accord, or rests.
LEMMA StepMovesBroker == IInv /\ [Next]_vars => BrokerMoves
<1> SUFFICES ASSUME IInv, [Next]_vars
             PROVE  BrokerMoves
  OBVIOUS
<1>1. ASSUME Busy, Asked(Request) \/ UNCHANGED authority
      PROVE  BrokerMoves
  <2>1. Request \in A!Message /\ Request.at <= clock
    BY <1>1, BusyFacts, BrokerConstants DEF Request, Message, A!Message, AP!ConstantsAssumption
  <2> QED
    BY <1>1, <2>1 DEF BrokerMoves
<1>2. CASE Prepare \/ Commit \/ Expire \/ StatusReserved \/ AbortReserved \/ ReserveFails
  <2>1. Busy
    BY <1>2 DEF Prepare, Commit, Expire, StatusReserved, AbortReserved, ReserveFails, At, Busy
  <2>2. Asked(Request) \/ UNCHANGED authority
    BY <1>2 DEF Prepare, Commit, Expire, StatusReserved, AbortReserved, ReserveFails,
                Lost, Asked
  <2> QED
    BY <1>1, <2>1, <2>2
<1>3. CASE Submission /\ ~(Prepare \/ Commit \/ Expire \/ ReserveFails)
  BY <1>3 DEF Submission, Accept, Admit, Reserve, CheckWindow, PersistRejection,
              StoreRejection, Reply, BrokerMoves
<1>4. CASE Execution
  BY <1>4 DEF Execution, Dispatch, DispatchChain, ExecuteProvider, ObserveProvider,
              TransportLost, StoreResponse, StoreObservation, GuardObjective, BrokerMoves
<1>5. CASE Recovery /\ ~(StatusReserved \/ AbortReserved)
  BY <1>5 DEF Recovery, StartSweep, EndSweep, EndRound, Visit, RewriteGuard,
              InspectReserved, BrokerMoves
<1>6. CASE Reconciliation
  BY <1>6 DEF Reconciliation, Probe, ProbeFails, PersistUncertain, Reread, Resolve,
              GuardResolved, StoreResolution, BrokerMoves
<1>7. CASE Runtime \/ Scheduler \/ Crash
  BY <1>7 DEF Runtime, Scheduler, Crash, Resume, Submit, LeaveResume, GiveUp,
              CancelDenied, TickAnswered, TickScheduler, BrokerMoves
<1>8. CASE Broker \/ Tick \/ UNCHANGED vars
  BY <1>8 DEF Broker, Tick, vars, BrokerMoves
<1> QED
  BY <1>2, <1>3, <1>4, <1>5, <1>6, <1>7, <1>8 DEF Next, Effects

LEMMA StepUpholds == IInv /\ [Next]_vars => Upheld
  BY StepMovesBroker, MovesUphold, TypeParts DEF IInv

LEMMA InitInv == Init => IInv
<1> SUFFICES ASSUME Init
             PROVE  IInv
  OBVIOUS
<1>1. A!TypeOK
  <2>1. A!Init => AP!Init
    BY DEF A!Init, A!NoReservation, A!NoReply, AP!Init, AP!NoReservation, AP!NoReply
  <2> QED
    BY <2>1, BrokerConstants, BrokerTypes, AP!TypeInit DEF Init
<1>2. NoRecord \in Record /\ Dated(NoRecord)
  BY <1>1, NoAttemptsType DEF NoRecord, Record, Dated, A!TypeOK
<1>3. RecordsType /\ LoopType /\ ClientType /\ JobType
  BY <1>2, NoAttemptsType DEF Init, RecordsType, LoopType, ClientType, JobType
<1>4. WorldType
  BY EffectAssumption DEF Init, WorldType, ProviderState
<1>5. TypeOK
  BY <1>1, <1>3, <1>4, TypeParts
<1>6. ~Busy /\ LoopInv /\ StampInv /\ SyncInv /\ AnswerIsDurable
  BY <1>2 DEF Init, Busy, Ready, LoopInv, StampInv, SyncInv, Synced, Unsaved,
              AnswerIsDurable, Idle
<1>7. \A o \in Objective : EffectInv(o)
  BY DEF Init, NoRecord, EffectInv, Dispatched, Succeeded, Committed
<1> QED
  BY <1>5, <1>6, <1>7 DEF IInv

\* What the effects service, the broker, the provider and the state service
\* know of an effect fits together in every reachable state.
THEOREM Inductive == Spec => []IInv
  BY InitInv, StepUpholds, StepKeeps, PTL DEF Spec

-----------------------------------------------------------------------------
(* What follows of every reachable state *)

\* Every variable keeps to its type, for all seven parties.
THEOREM TypeCorrect == Spec => []TypeOK
  BY Inductive, PTL DEF IInv

LEMMA HappensOnce == IInv => AtMostOnce
  BY DEF IInv, EffectInv, AtMostOnce

\* The provider changes the world at most once for an effect, whatever crashes,
\* lost answers, resubmissions and sweeps come between its calls.
THEOREM OnceCorrect == Spec => []AtMostOnce
  BY Inductive, HappensOnce, PTL

LEMMA Licence == IInv => WriteAhead
<1> SUFFICES ASSUME IInv, NEW o \in Objective, world[o] > 0
             PROVE  /\ stored[o].state \in Dispatched \cup Succeeded
                    /\ Licensed(o, stored[o].stamp)
  BY DEF WriteAhead, Dispatched, Licensed
<1>1. EffectInv(o)
  BY DEF IInv
<1> QED
  BY <1>1 DEF EffectInv

\* Nothing happens before its dispatch is in PostgreSQL and its commitment, under
\* the stamp of that record, with the authority.
THEOREM WriteAheadCorrect == Spec => []WriteAhead
  BY Inductive, Licence, PTL

LEMMA Observed == IInv => CompletionIsObserved /\ RecordsAgree /\ GuardIsBacked
<1> SUFFICES ASSUME IInv, NEW o \in Objective
             PROVE  /\ objective[o] = "SATISFIED" =>
                         /\ world[o] > 0 /\ provider[o] = "RECORDED"
                         /\ projection[o] \in Committed
                         /\ stored[o].state \in Succeeded
                    /\ stored[o].state \in Succeeded => projection[o] \in Committed
                    /\ stored[o].state = "REJECTED" =>
                         projection[o] = "REJECTED" /\ world[o] = 0
                    /\ guard[o] => projection[o] \in Committed /\ stored[o].state \in Succeeded
  BY DEF CompletionIsObserved, RecordsAgree, GuardIsBacked
<1>1. EffectInv(o)
  BY DEF IInv
<1> QED
  BY <1>1 DEF EffectInv, GuardReady, Dispatched, Succeeded

\* An objective is satisfied only by an effect that happened and that all
\* three services have on record.
THEOREM CompletionCorrect == Spec => []CompletionIsObserved
  BY Inductive, Observed, PTL

\* Final checkpoints agree with the projection, and the rejected never happens.
THEOREM RecordsCorrect == Spec => []RecordsAgree
  BY Inductive, Observed, PTL

\* A ready guard has a committed projection and a successful checkpoint.
THEOREM GuardCorrect == Spec => []GuardIsBacked
  BY Inductive, Observed, PTL

\* A client that is told COMMITTED finds the effect on record.
THEOREM AnswerCorrect == Spec => []AnswerIsDurable
  BY Inductive, PTL DEF IInv

\* Final checkpoints stay, what was dispatched is never taken back, and no
\* record changes the stamp it was authorized under, by any step.
THEOREM CheckpointsCorrect == Spec => CheckpointsAdvance
<1>1. IInv /\ [Next]_vars =>
        [\A o \in Objective :
           /\ stored[o].state \in Terminal => stored'[o] = stored[o]
           /\ stored[o].state \in {"EXECUTING", "UNKNOWN", "RECONCILING"}
                => stored'[o].state \notin {"NONE", "RESERVED", "REJECTED"}
           /\ stored[o].state # "NONE" => stored'[o].stamp = stored[o].stamp]_vars
  <2> SUFFICES ASSUME IInv, [Next]_vars, NEW o \in Objective
               PROVE  /\ stored[o].state \in Terminal => stored'[o] = stored[o]
                      /\ stored[o].state \in {"EXECUTING", "UNKNOWN", "RECONCILING"}
                           => stored'[o].state \notin {"NONE", "RESERVED", "REJECTED"}
                      /\ stored[o].state # "NONE" => stored'[o].stamp = stored[o].stamp
    OBVIOUS
  <2>1. stored \in [Objective -> Record]
    BY DEF IInv, TypeOK
  <2>2. stored'[o] = stored[o] \/ Advances(stored[o], stored'[o])
    BY <2>1, StepProgress DEF Progress, Checkpointed
  <2> QED
    BY <2>2 DEF Advances, Terminal, Succeeded, Dispatched, Unknown
<1> QED
  BY <1>1, Inductive, PTL DEF Spec, CheckpointsAdvance

-----------------------------------------------------------------------------
(* The abstract effect *)

\* The seven parties together keep what Habitat promises of an external effect:
\* the dispatch implements the abstract effect for every objective.
THEOREM EffectImplemented == Spec => ImplementsEffect
<1>1. ASSUME Init
      PROVE  Effect!Init
  <2>1. \A o \in Objective : PhaseOf(stored[o].state) = "none"
    <3>1. \A o \in Objective : stored[o].state = "NONE"
      BY <1>1 DEF Init, NoRecord
    <3> QED
      BY <3>1, PhaseFacts
  <2>2. \A o \in Objective : (objective[o] = "SATISFIED") = FALSE
    BY <1>1 DEF Init
  <2>3. [o \in Objective |-> objective[o] = "SATISFIED"] = [o \in Objective |-> FALSE]
    BY <2>2, Zenon
  <2> QED
    BY <1>1, <2>1, <2>3 DEF Init, Effect!Init
<1>2. IInv /\ IInv' /\ [Next]_vars => [Effect!Next]_Effect!vars
  BY StepImplements
<1> QED
  BY <1>1, <1>2, Inductive, PTL DEF Spec, ImplementsEffect, Effect!Spec

-----------------------------------------------------------------------------
(* The broker, seen from the dispatch *)

\* The broker of the composition behaves as the broker alone: whatever holds of
\* it for every order of requests holds of it under the effects service.
THEOREM BrokerImplemented == Spec => AP!Spec
<1>1. Init => AP!Init
  BY DEF Init, A!Init, A!NoReservation, A!NoReply, AP!Init, AP!NoReservation, AP!NoReply
<1>2. IInv /\ [Next]_vars => [AP!Next]_AP!vars
  BY StepMovesBroker, MovesAreSteps
<1> QED
  BY <1>1, <1>2, Inductive, PTL DEF Spec, AP!Spec

\* So a commitment that an effect was dispatched under is never dropped.
THEOREM CommitmentsHold == Spec => AP!CommittedIsPermanent
  BY BrokerImplemented, BrokerConstants, AP!CommittedStays, PTL

\* And every objective is licensed as Licence says, whatever the effects service
\* loses, repeats or gives up.
THEOREM LicencesHold == Spec => AP!ImplementsLicence
  BY BrokerImplemented, BrokerConstants, AP!LicenceImplemented, PTL

=============================================================================
