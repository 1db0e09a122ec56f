--------------------------- MODULE EffectDispatch ---------------------------
(***************************************************************************)
(* One external effect per objective, from the RESUME that asks for it to  *)
(* the completion of the objective: the runtime service, the effects       *)
(* service (crates/habitat-effects), the authority broker it asks for      *)
(* leave, the state service that admits its transitions, its PostgreSQL    *)
(* checkpoints and the offline provider that changes the world.            *)
(*                                                                         *)
(* The effects service runs one job at a time, a submission or one step of *)
(* a reconciliation sweep, and stops between any two calls when it         *)
(* crashes.  A call to another service may fail before or after it took    *)
(* effect.  Both are faults, and MaxFaults bounds how many happen.         *)
(***************************************************************************)
EXTENDS Integers, FiniteSets, Sequences

CONSTANTS
  Objective, Grant, Candidates, Chain, Rank, Quota, Expires, Window, MaxClock,
  Stamp, Version, InitVersion, AdminId, AdminOp, Approval, Nothing,
  Patience,     \* the 10 s for which the runtime waits for an answer
  MaxTries,     \* MAX_RECONCILIATION_ATTEMPTS
  MaxFaults     \* bound on crashes, lost calls and abandoned requests

ASSUME EffectAssumption ==
  /\ Patience \in Nat \ {0} /\ Patience < Window
  /\ MaxTries \in Nat \ {0} /\ MaxFaults \in Nat

VARIABLES clock, reservation, usage, decided, charged, revoked, epoch,
          stateVersion, configVersion, history, approvals, usedBy, applied,
          reply

\* The authority broker, whose request ids are one per objective here.
A == INSTANCE Authority WITH Request <- Objective, Evaluation <- {}

ASSUME BrokerAssumption == A!ConstantsAssumption

VARIABLES
  ledger,      \* the effects service's in-memory record of each effect
  stored,      \* the last event of effect_transition_history
  attempts,    \* the rows of effect_attempts
  pending,     \* objectives whose guard is to be written again
  job,         \* where the effects service is in its single thread
  round,       \* which part of its loop it is in between jobs
  sweep,       \* effects this round has still to visit
  owed,        \* objectives whose guard this round has still to write
  inbox,       \* the connection that waits to be accepted
  runtime,     \* what the runtime service is doing
  projection,  \* the state service's provider_state of each effect
  objective,   \* state of each objective
  guard,       \* whether its completion guard is ready
  provider,    \* how far the provider's write-ahead record has come
  world,       \* how many times the external effect has happened
  faults       \* faults so far

authority == <<clock, reservation, usage, decided, charged, revoked, epoch,
               stateVersion, configVersion, history, approvals, usedBy,
               applied, reply>>
durable == <<stored, attempts>>
loop == <<pending, round, sweep, owed>>
service == <<projection, objective, guard>>
external == <<provider, world>>
client == <<inbox, runtime>>
vars == <<authority, ledger, durable, loop, job, client, service, external, faults>>

-----------------------------------------------------------------------------
(* Types *)

\* What the DISPATCH attempt of an effect has for its response, and the
\* RECONCILIATION attempts: the second and the classification of each.
Response == {"none", "answered", "lost"}
Finding == {"open", "unobserved", "unrecorded", "settled"}
Attempts == [call : Response,
             tries : UNION {[1..n -> (1..MaxClock) \X Finding] : n \in 0..MaxTries}]

EffectState == {"RESERVED", "EXECUTING", "UNKNOWN", "RECONCILING", "OBSERVED",
                "RESOLVED", "REJECTED"}
Succeeded == {"OBSERVED", "RESOLVED"}
Terminal == Succeeded \cup {"REJECTED"}
Record == [state : EffectState \cup {"NONE"}, stamp : Stamp \cup {0}, log : Attempts]

NoAttempts == [call |-> "none", tries |-> <<>>]
NoRecord == [state |-> "NONE", stamp |-> 0, log |-> NoAttempts]

ProviderState == {"NONE", "PROPOSED", "AUTHORIZED", "DISPATCHED", "UNCERTAIN",
                  "OBSERVED_SUCCEEDED", "RESOLVED_SUCCEEDED", "REJECTED"}
Committed == {"OBSERVED_SUCCEEDED", "RESOLVED_SUCCEEDED"}

Ready == [at |-> "ready"]
Idle == [at |-> "idle"]
Label == {"admit", "prepare", "reserve", "bound", "commit", "expire", "rejecting",
          "rejected", "dispatch", "chain", "execute", "observe", "lost",
          "observed", "classify", "guard", "reply", "inspect", "status", "abort",
          "probe", "uncertain", "reread", "resolve", "resolved", "settle"}
Code == {"COMMITTED", "UNAUTHORIZED", "UNAVAILABLE", "REJECTED", "UNKNOWN", "NONE"}
Job == [at : Label, o : Objective, stamp : Stamp, mode : {"submit", "sweep"},
        heard : BOOLEAN, code : Code]

TypeOK ==
  /\ A!TypeOK
  /\ ledger \in [Objective -> Record] /\ stored \in [Objective -> Record]
  /\ attempts \in [Objective -> Attempts]
  /\ round \in {"starting", "rewriting", "rest", "sweeping", "guarding"}
  /\ pending \subseteq Objective /\ sweep \subseteq Objective /\ owed \subseteq Objective
  /\ job \in Job \cup {Ready}
  /\ inbox \in [o : Objective, stamp : Stamp, heard : BOOLEAN] \cup {Nothing}
  /\ runtime \in [at : {"waiting"}, o : Objective, since : Stamp]
                 \cup [at : {"resume", "deny", "tick"}, o : Objective] \cup {Idle}
  /\ projection \in [Objective -> ProviderState]
  /\ objective \in [Objective -> {"PROPOSED", "SATISFIED", "CANCELLED"}]
  /\ guard \in [Objective -> BOOLEAN]
  /\ provider \in [Objective -> {"IDLE", "INTENT", "APPLIED", "RECORDED"}]
  /\ world \in [Objective -> Nat]
  /\ faults \in 0..MaxFaults

-----------------------------------------------------------------------------
(* The job of the effects service *)

At(label) == job.at = label
To(label) == [job EXCEPT !.at = label]
Go(label) == job' = To(label)

\* A submission is answered; a sweep goes on to the next effect.
Finish(code) ==
  IF job.mode = "submit" THEN [job EXCEPT !.at = "reply", !.code = code] ELSE Ready
Done(code) == job' = Finish(code)

Fault == faults < MaxFaults /\ faults' = faults + 1
Calm == UNCHANGED faults

\* Mutant: every effect on record is swept.
UnsettledAll(records) == {o \in Objective : records[o].state # "NONE"}

\* Mutant: what was being executed is left to its client.
UnsettledUndispatched(records) ==
  {o \in Objective : records[o].state \in {"RESERVED", "UNKNOWN", "RECONCILING"}}

Unsettled(records) ==
  {o \in Objective : records[o].state \notin Terminal \cup {"NONE"}}
Successful(records) == {o \in Objective : records[o].state \in Succeeded}

\* The process starts again from PostgreSQL: it sweeps every unsettled effect
\* before it listens; its callers lose their connections.
RestartFrom(records) ==
  /\ stored' = records
  /\ ledger' = records
  /\ round' = "starting"
  /\ sweep' = Unsettled(records)
  /\ owed' = {} /\ pending' = {}
  /\ job' = Ready
  /\ inbox' = Nothing
  /\ runtime' = IF runtime.at = "waiting" THEN Idle ELSE runtime
Restart == RestartFrom(stored) /\ UNCHANGED attempts

\* PostgreSQL refuses a checkpoint whose attempts contradict the rows it has.
Refused(o, log) ==
  \/ "none" \notin {log.call, attempts[o].call} /\ log.call # attempts[o].call
  \/ \E k \in DOMAIN log.tries \cap DOMAIN attempts[o].tries :
       log.tries[k] # attempts[o].tries[k]

Merged(o, log) ==
  [call |-> IF attempts[o].call = "none" THEN log.call ELSE attempts[o].call,
   tries |-> IF Len(log.tries) > Len(attempts[o].tries) THEN log.tries
             ELSE attempts[o].tries]

\* checkpoint_effect, after which the job is next.  The attempts become rows; a
\* history event, all that a restart reads, is written only when the record,
\* that is its state, has changed.  The process ends when it is refused.
Save(o, record, next) ==
  IF Refused(o, record.log) THEN Restart
  ELSE /\ ledger' = [ledger EXCEPT ![o] = record]
       /\ stored' = IF record.state = stored[o].state THEN stored
                    ELSE [stored EXCEPT ![o] = record]
       /\ attempts' = [attempts EXCEPT ![o] = Merged(o, record.log)]
       /\ job' = next
       /\ UNCHANGED <<loop, client>>

Become(state) == [ledger[job.o] EXCEPT !.state = state]
Keep(record) == ledger' = [ledger EXCEPT ![job.o] = record]

Crash ==
  /\ Fault
  /\ Restart
  /\ UNCHANGED <<authority, service, external>>

-----------------------------------------------------------------------------
(* The runtime service *)

LiveObjective(o) == objective[o] \in {"PROPOSED", "SATISFIED"}

\* The runtime knows no state for a cancelled objective, nor for an effect that
\* is under way or rejected, which INSPECT shows as PROPOSED and REJECTED.
Resumable(o) == LiveObjective(o) /\ projection[o] \in {"NONE"} \cup Committed

\* RESUME, by a client or at the start of the runtime, first reads the state.
Resume(o) ==
  /\ runtime = Idle /\ inbox = Nothing
  /\ clock \in Stamp
  /\ Resumable(o)
  /\ runtime' = [at |-> "resume", o |-> o]
  /\ UNCHANGED <<authority, ledger, durable, loop, job, inbox, service, external, faults>>

Listening == round \notin {"starting", "rewriting"}

\* What INSPECT must show for RESUME to go on without a new effect.
Guarded(o) == guard[o] /\ projection[o] \in Committed

\* The effect is submitted, stamped with the current second, unless the
\* objective is read to be guarded.
Submit(o) ==
  /\ runtime = [at |-> "resume", o |-> o]
  /\ IF Guarded(o) THEN Fault ELSE Calm
  /\ Listening /\ clock \in Stamp
  /\ runtime' = [at |-> "waiting", o |-> o, since |-> clock]
  /\ inbox' = [o |-> o, stamp |-> clock, heard |-> TRUE]
  /\ UNCHANGED <<authority, ledger, durable, loop, job, service, external>>

\* RESUME goes on with a TICK when the objective is guarded, and ends when the
\* effects service does not listen (or the stamps are at their bound).
LeaveResume ==
  /\ runtime.at = "resume"
  /\ \/ Guarded(runtime.o) /\ runtime' = [runtime EXCEPT !.at = "tick"]
     \/ ~(Listening /\ clock \in Stamp) /\ runtime' = Idle
  /\ UNCHANGED <<authority, ledger, durable, loop, job, inbox, service, external, faults>>

\* The timeout of a query: the request stays with the effects service.
GiveUp ==
  /\ runtime.at = "waiting"
  /\ Fault
  /\ runtime' = Idle
  /\ \/ inbox # Nothing /\ inbox' = [inbox EXCEPT !.heard = FALSE] /\ UNCHANGED job
     \/ inbox = Nothing /\ job' = [job EXCEPT !.heard = FALSE] /\ UNCHANGED inbox
  /\ UNCHANGED <<authority, ledger, durable, loop, service, external>>

\* Any answer of code UNAUTHORIZED cancels the objective if it is PROPOSED.
CancelDenied ==
  /\ runtime.at = "deny"
  /\ \/ Calm /\ objective' = [objective EXCEPT ![runtime.o] =
                                IF @ = "PROPOSED" THEN "CANCELLED" ELSE @]
     \/ Fault /\ UNCHANGED objective
  /\ runtime' = Idle
  /\ UNCHANGED <<authority, ledger, durable, loop, job, inbox, projection, guard, external>>

\* Mutant: the projection is enough.
CompletableProjected(o) == objective[o] = "PROPOSED" /\ projection[o] \in Committed

\* complete_ready_objective: guard, projection and checkpoint must agree.
Completable(o) ==
  /\ objective[o] = "PROPOSED"
  /\ guard[o]
  /\ projection[o] \in Committed
  /\ stored[o].state \in Succeeded

\* The scheduler's TICK completes an objective that can be completed.
TickScheduler(o) ==
  /\ Completable(o)
  /\ objective' = [objective EXCEPT ![o] = "SATISFIED"]
  /\ UNCHANGED <<authority, ledger, durable, loop, job, client, projection, guard,
                 external, faults>>

\* The runtime's own TICK after a COMMITTED answer, or for a guarded objective.
TickAnswered ==
  /\ runtime.at = "tick"
  /\ \/ Calm /\ objective' = [objective EXCEPT ![runtime.o] =
                                IF Completable(runtime.o) THEN "SATISFIED" ELSE @]
     \/ Fault /\ UNCHANGED objective
  /\ runtime' = Idle
  /\ UNCHANGED <<authority, ledger, durable, loop, job, inbox, projection, guard,
                 external>>

-----------------------------------------------------------------------------
(* Calls of the effects service *)

Message(o, stamp) == [id |-> o, at |-> stamp, version |-> InitVersion]
Request == Message(job.o, job.stamp)

\* A call whose answer is lost may have been served all the same.
Lost(call) == Fault /\ (call \/ UNCHANGED authority)

\* The transitions that come before the provider is called, and those that
\* precede the resolution of an unknown outcome.
ChainOf(s) ==
  CASE s = "NONE" -> {"NONE", "PROPOSED", "AUTHORIZED", "DISPATCHED"}
    [] s = "PROPOSED" -> {"PROPOSED", "AUTHORIZED", "DISPATCHED"}
    [] s = "AUTHORIZED" -> {"AUTHORIZED", "DISPATCHED"}
    [] OTHER -> {s}
UncertainOf(s) ==
  IF "DISPATCHED" \in ChainOf(s) THEN ChainOf(s) \cup {"UNCERTAIN"} ELSE {s}
Unresolvable == {"OBSERVED_SUCCEEDED", "REJECTED"}
Unresolved(s) == IF s = "RESOLVED_SUCCEEDED" THEN s ELSE "UNCERTAIN"

\* A run of transitions may stop anywhere; a transition that was recorded is
\* replayed, and a new one needs a live objective.
Advance(o, path) ==
  \E s \in (IF LiveObjective(o) THEN path ELSE {projection[o]}) :
    projection' = [projection EXCEPT ![o] = s]

Reaches(o, s) ==
  /\ projection[o] = s \/ LiveObjective(o)
  /\ projection' = [projection EXCEPT ![o] = s]

\* The provider's write-ahead order: intent, world, record.  The world file is
\* written only when it is not there yet.
Stages(s) ==
  CASE s = "IDLE" -> {"IDLE", "INTENT", "APPLIED", "RECORDED"}
    [] s = "INTENT" -> {"INTENT", "APPLIED", "RECORDED"}
    [] s = "APPLIED" -> {"APPLIED", "RECORDED"}
    [] OTHER -> {s}

\* Mutant: the world file is written whether or not it is there.
AppliesAgain(before, after) ==
  before # "RECORDED" /\ after \in {"APPLIED", "RECORDED"}

Applies(before, after) ==
  before \in {"IDLE", "INTENT"} /\ after \in {"APPLIED", "RECORDED"}
Execute(o, after) ==
  /\ after \in Stages(provider[o])
  /\ provider' = [provider EXCEPT ![o] = after]
  /\ world' = IF Applies(provider[o], after)
              THEN [world EXCEPT ![o] = @ + 1] ELSE world

\* Mutant: the effects service's own record is not consulted.
GuardReadyProjected(o) == projection[o] \in Committed

\* guard_objective_effects: the guard becomes what projection and checkpoint
\* say at the time of the call.
GuardReady(o) == projection[o] \in Committed /\ stored[o].state \in Succeeded

\* Mutant: a guard that is not ready is not written again.
WriteGuardOnce(o) ==
  \/ /\ Calm
     /\ guard' = [guard EXCEPT ![o] = GuardReady(o)]
     /\ pending' = pending \ {o}
  \/ /\ Fault
     /\ guard' \in {guard, [guard EXCEPT ![o] = GuardReady(o)]}
     /\ pending' = pending \cup {o}

WriteGuard(o) ==
  \/ /\ Calm
     /\ guard' = [guard EXCEPT ![o] = GuardReady(o)]
     /\ pending' = IF GuardReady(o) THEN pending \ {o} ELSE pending \cup {o}
  \/ /\ Fault
     /\ guard' \in {guard, [guard EXCEPT ![o] = GuardReady(o)]}
     /\ pending' = pending \cup {o}

-----------------------------------------------------------------------------
(* A submission, up to the dispatch *)

Accept ==
  /\ At("ready") /\ round = "rest" /\ inbox # Nothing
  /\ job' = [at |-> "admit", o |-> inbox.o, stamp |-> inbox.stamp,
             mode |-> "submit", heard |-> inbox.heard, code |-> "NONE"]
  /\ inbox' = Nothing
  /\ UNCHANGED <<authority, ledger, durable, loop, runtime, service, external, faults>>

\* runtime_replay compares the whole proposal, its window included.
Conflict == ledger[job.o].state # "NONE" /\ ledger[job.o].stamp # job.stamp

TerminalCode(o) ==
  CASE ledger[o].state \in Succeeded /\ projection[o] \in Committed -> "COMMITTED"
    [] ledger[o].state = "REJECTED" /\ projection[o] = "REJECTED" -> "REJECTED"
    [] OTHER -> "UNAVAILABLE"

Admit ==
  /\ At("admit")
  /\ \/ Calm /\ Conflict /\ Done("UNAUTHORIZED")
     \/ /\ ~Conflict /\ ledger[job.o].state \in Terminal
        /\ \/ Calm /\ Done(TerminalCode(job.o))
           \/ Fault /\ Done("UNAVAILABLE")
     \/ /\ ~Conflict /\ ledger[job.o].state \notin Terminal
        /\ \/ Calm /\ clock >= job.stamp + Window /\ Done("UNAUTHORIZED")
           \/ /\ clock < job.stamp + Window
              /\ \/ Calm /\ objective[job.o] # "PROPOSED" /\ Done("UNAUTHORIZED")
                 \/ Calm /\ objective[job.o] = "PROPOSED" /\ Go("prepare")
                 \/ Fault /\ Done("UNAVAILABLE")
  /\ UNCHANGED <<authority, ledger, durable, loop, client, service, external>>

Prepare ==
  /\ At("prepare")
  /\ \/ /\ Calm /\ A!Prepare(Request)
        /\ IF reply'.code = "AUTHORIZED" THEN Go("reserve") ELSE Done("UNAUTHORIZED")
     \/ Lost(A!Prepare(Request)) /\ Done("UNAVAILABLE")
  /\ UNCHANGED <<ledger, durable, loop, client, service, external>>

NewRecord == [state |-> "RESERVED", stamp |-> job.stamp, log |-> NoAttempts]

\* reserve_runtime and the first checkpoint.  A record that is already past
\* RESERVED is answered as unauthorized.
Reserve ==
  /\ At("reserve")
  /\ \/ ledger[job.o].state = "NONE" /\ Save(job.o, NewRecord, To("bound"))
     \/ /\ ledger[job.o].state # "NONE"
        /\ Save(job.o, ledger[job.o],
                IF ledger[job.o].state = "RESERVED" THEN To("bound")
                ELSE Finish("UNAUTHORIZED"))
  /\ UNCHANGED <<authority, service, external, faults>>

\* A checkpoint that fails, committed or not, is followed by ABORT and exit.
ReserveFails ==
  /\ At("reserve")
  /\ Lost(A!Abort(Request))
  /\ \/ RestartFrom(stored)
     \/ /\ ledger[job.o].state = "NONE"
        /\ RestartFrom([stored EXCEPT ![job.o] = NewRecord])
  /\ UNCHANGED <<attempts, service, external>>

\* The last look at the clock before COMMIT.
CheckWindow ==
  /\ At("bound")
  /\ Go(IF clock < job.stamp + Window THEN "commit"
        ELSE IF job.mode = "submit" THEN "expire" ELSE "abort")
  /\ UNCHANGED <<authority, ledger, durable, loop, client, service, external, faults>>

\* Mutant: the rejection is not recorded with the state service.
ExpireUnrecorded ==
  /\ At("expire")
  /\ (Calm /\ A!Abort(Request)) \/ Lost(A!Abort(Request))
  /\ Keep(Become("REJECTED"))
  /\ Go("rejected")
  /\ UNCHANGED <<durable, loop, client, service, external>>

\* The answer to this ABORT is not looked at.
Expire ==
  /\ At("expire")
  /\ (Calm /\ A!Abort(Request)) \/ Lost(A!Abort(Request))
  /\ Keep(Become("REJECTED"))
  /\ Go("rejecting")
  /\ UNCHANGED <<durable, loop, client, service, external>>

\* persist_rejection: the process ends when the state service does not take it.
\* A rejection that is there already was made for another reason.
PersistRejection ==
  /\ At("rejecting")
  /\ \/ /\ Calm /\ LiveObjective(job.o) /\ projection[job.o] = "NONE"
        /\ projection' = [projection EXCEPT ![job.o] = "REJECTED"]
        /\ Go("rejected")
        /\ UNCHANGED <<ledger, durable, loop, client>>
     \/ /\ Calm /\ ~(LiveObjective(job.o) /\ projection[job.o] = "NONE")
        /\ Restart
        /\ UNCHANGED projection
     \/ /\ Fault
        /\ Advance(job.o, IF projection[job.o] = "NONE" THEN {"NONE", "REJECTED"}
                          ELSE {projection[job.o]})
        /\ Restart
  /\ UNCHANGED <<authority, objective, guard, external>>

StoreRejection ==
  /\ At("rejected")
  /\ Save(job.o, ledger[job.o], Finish("REJECTED"))
  /\ UNCHANGED <<authority, service, external, faults>>

\* COMMIT; dispatch_runtime takes nothing but AUTHORIZED.
Commit ==
  /\ At("commit")
  /\ \/ /\ Calm /\ A!Commit(Request)
        /\ IF reply'.code = "AUTHORIZED" THEN Go("dispatch") ELSE Done("UNAUTHORIZED")
     \/ Lost(A!Commit(Request)) /\ Done("UNAVAILABLE")
  /\ UNCHANGED <<ledger, durable, loop, client, service, external>>

-----------------------------------------------------------------------------
(* Dispatch, execution and observation, for submissions and sweeps alike *)

\* Mutant: EXECUTING is checkpointed with the outcome only.
DispatchUnrecorded ==
  /\ At("dispatch")
  /\ Keep(Become("EXECUTING"))
  /\ Go("chain")
  /\ UNCHANGED <<authority, durable, loop, client, service, external, faults>>

\* EXECUTING is durable before the provider is called.
Dispatch ==
  /\ At("dispatch")
  /\ Save(job.o, Become("EXECUTING"), To("chain"))
  /\ UNCHANGED <<authority, service, external, faults>>

\* A terminal projection needs only the provider's record; otherwise the
\* transitions up to DISPATCHED are persisted first.
DispatchChain ==
  /\ At("chain")
  /\ \/ /\ Calm
        /\ projection[job.o] \in Committed /\ provider[job.o] = "RECORDED"
        /\ Go("observed")
        /\ UNCHANGED projection
     \/ /\ Calm
        /\ "DISPATCHED" \in ChainOf(projection[job.o])
        /\ Reaches(job.o, "DISPATCHED")
        /\ Go("execute")
     \/ /\ Calm
        /\ projection[job.o] \notin Committed
        /\ \/ "DISPATCHED" \notin ChainOf(projection[job.o])
           \/ ~LiveObjective(job.o) /\ projection[job.o] # "DISPATCHED"
        /\ Go("lost")
        /\ UNCHANGED projection
     \/ /\ Fault
        /\ Advance(job.o, ChainOf(projection[job.o]))
        /\ Go("lost")
  /\ UNCHANGED <<authority, ledger, durable, loop, client, objective, guard, external>>

ExecuteProvider ==
  /\ At("execute")
  /\ \/ Calm /\ Execute(job.o, "RECORDED") /\ Go("observe")
     \/ Fault /\ (\E s \in Stages(provider[job.o]) : Execute(job.o, s)) /\ Go("lost")
  /\ UNCHANGED <<authority, ledger, durable, loop, client, service>>

\* DISPATCHED -> OBSERVED_SUCCEEDED with the provider's observation.
ObserveProvider ==
  /\ At("observe")
  /\ \/ /\ Calm
        /\ Reaches(job.o, "OBSERVED_SUCCEEDED")
        /\ Go("observed")
     \/ /\ Calm /\ ~LiveObjective(job.o)
        /\ Go("lost")
        /\ UNCHANGED projection
     \/ /\ Fault
        /\ Advance(job.o, {projection[job.o], "OBSERVED_SUCCEEDED"})
        /\ Go("lost")
  /\ UNCHANGED <<authority, ledger, durable, loop, client, objective, guard, external>>

TransportLost ==
  /\ At("lost")
  /\ Save(job.o, [Become("UNKNOWN") EXCEPT !.log.call = "lost"], Finish("UNKNOWN"))
  /\ UNCHANGED <<authority, service, external, faults>>

\* The response of the attempt is stored first, the observed state after it.
StoreResponse ==
  /\ At("observed")
  /\ Save(job.o, [ledger[job.o] EXCEPT !.log.call = "answered"], To("classify"))
  /\ UNCHANGED <<authority, service, external, faults>>

\* Mutant: the observation stays in memory.
StoreObservationNever ==
  /\ At("classify")
  /\ Keep(Become("OBSERVED"))
  /\ Go("guard")
  /\ UNCHANGED <<authority, durable, loop, client, service, external, faults>>

StoreObservation ==
  /\ At("classify")
  /\ Save(job.o, Become("OBSERVED"), To("guard"))
  /\ UNCHANGED <<authority, service, external, faults>>

GuardObjective ==
  /\ At("guard")
  /\ WriteGuard(job.o)
  /\ Done("COMMITTED")
  /\ UNCHANGED <<authority, ledger, durable, round, sweep, owed, client, projection,
                 objective, external>>

\* An answer nobody waits for is a write error, which ends the process.
Reply ==
  /\ At("reply")
  /\ IF job.heard
     THEN /\ runtime' = CASE job.code = "COMMITTED" -> [at |-> "tick", o |-> job.o]
                          [] job.code = "UNAUTHORIZED" -> [at |-> "deny", o |-> job.o]
                          [] OTHER -> Idle
          /\ job' = Ready
          /\ UNCHANGED <<ledger, durable, loop, inbox>>
     ELSE Restart
  /\ UNCHANGED <<authority, service, external, faults>>

-----------------------------------------------------------------------------
(* The reconciliation sweep *)

StartSweep ==
  /\ At("ready") /\ round = "rest" /\ Unsettled(ledger) \cup pending # {}
  /\ round' = "sweeping"
  /\ sweep' = Unsettled(ledger)
  /\ UNCHANGED <<authority, ledger, durable, pending, owed, job, client, service,
                 external, faults>>

\* A sweep is followed by guards: after a start those of every successful
\* effect, otherwise those that are pending.
EndSweep ==
  /\ At("ready") /\ round \in {"starting", "sweeping"} /\ sweep = {}
  /\ IF round = "starting" THEN round' = "rewriting" /\ owed' = Successful(ledger)
     ELSE round' = "guarding" /\ owed' = pending
  /\ UNCHANGED <<authority, ledger, durable, pending, sweep, job, client, service,
                 external, faults>>

RewriteGuard(o) ==
  /\ At("ready") /\ o \in owed
  /\ WriteGuard(o)
  /\ owed' = owed \ {o}
  /\ UNCHANGED <<authority, ledger, durable, round, sweep, job, client, projection,
                 objective, external>>

EndRound ==
  /\ At("ready") /\ round \in {"rewriting", "guarding"} /\ owed = {}
  /\ round' = "rest"
  /\ UNCHANGED <<authority, ledger, durable, pending, sweep, owed, job, client,
                 service, external, faults>>

\* Mutant: a reservation found after a crash is dispatched at once.
EntryOfTrusted(record) ==
  CASE record.state = "RESERVED" -> "dispatch"
    [] record.state = "EXECUTING" -> "chain"
    [] OTHER -> "probe"

EntryOf(record) ==
  CASE record.state = "RESERVED" -> "inspect"
    [] record.state = "EXECUTING" -> "chain"
    [] OTHER -> "probe"

Exhausted(record) ==
  record.state \in {"UNKNOWN", "RECONCILING"} /\ Len(record.log.tries) >= MaxTries

Visit(o) ==
  /\ At("ready") /\ o \in sweep
  /\ sweep' = sweep \ {o}
  /\ job' = IF Exhausted(ledger[o]) THEN Ready
            ELSE [at |-> EntryOf(ledger[o]), o |-> o, stamp |-> ledger[o].stamp,
                  mode |-> "sweep", heard |-> FALSE, code |-> "NONE"]
  /\ UNCHANGED <<authority, ledger, durable, pending, round, owed, client, service,
                 external, faults>>

\* A rejection that was recorded before a crash is taken over; a read that
\* fails counts as no rejection.
InspectReserved ==
  /\ At("inspect")
  /\ \/ /\ Calm /\ projection[job.o] = "REJECTED"
        /\ Keep(Become("REJECTED")) /\ Go("rejected")
     \/ /\ Calm /\ projection[job.o] # "REJECTED"
        /\ Go("status") /\ UNCHANGED ledger
     \/ Fault /\ Go("status") /\ UNCHANGED ledger
  /\ UNCHANGED <<authority, durable, loop, client, service, external>>

\* An exact replay of a durable COMMIT is dispatched, a PREPARE is committed or
\* aborted by the clock; anything else is left alone.
StatusReserved ==
  /\ At("status")
  /\ \/ /\ Calm /\ A!Status(Request)
        /\ CASE reply'.code = "AUTHORIZED" -> Go("dispatch")
             [] reply'.code = "PREPARED" -> Go("bound")
             [] OTHER -> job' = Ready
     \/ Lost(A!Status(Request)) /\ job' = Ready
  /\ UNCHANGED <<ledger, durable, loop, client, service, external>>

AbortReserved ==
  /\ At("abort")
  /\ \/ /\ Calm /\ A!Abort(Request)
        /\ IF reply'.code = "ABORTED"
           THEN Keep(Become("REJECTED")) /\ Go("rejecting")
           ELSE UNCHANGED ledger /\ job' = Ready
     \/ Lost(A!Abort(Request)) /\ UNCHANGED ledger /\ job' = Ready
  /\ UNCHANGED <<durable, loop, client, service, external>>

\* A reconciliation attempt opens in RECONCILING and is classified later.
Attempt(finding, state) ==
  [ledger[job.o] EXCEPT !.state = state, !.log.tries = Append(@, <<clock, finding>>)]
Classified(finding, state) ==
  [ledger[job.o] EXCEPT !.state = state,
                        !.log.tries[Len(ledger[job.o].log.tries)][2] = finding]

\* An attempt of unknown outcome begins with what the state service shows
\* (a terminal projection settles it, if the provider's record agrees) and
\* goes on to the provider, which is asked to execute when it has no record.
Probe ==
  /\ At("probe")
  /\ \/ /\ Calm /\ projection[job.o] \in Committed /\ provider[job.o] = "RECORDED"
        /\ Save(job.o, Attempt("settled", "RESOLVED"), To("guard"))
        /\ UNCHANGED external
     \/ /\ (Calm /\ projection[job.o] \notin Committed) \/ Fault
        /\ Execute(job.o, "RECORDED")
        /\ Keep(Attempt("open", "RECONCILING"))
        /\ Go("uncertain")
        /\ UNCHANGED <<durable, loop, client>>
     \/ /\ Fault
        /\ \E s \in Stages(provider[job.o]) : Execute(job.o, s)
        /\ Save(job.o, Attempt("unobserved", "RECONCILING"), Ready)
  /\ UNCHANGED <<authority, service>>

\* The projection is terminal and the provider cannot be observed.
ProbeFails ==
  /\ At("probe") /\ projection[job.o] \in Committed
  /\ Fault
  /\ Restart
  /\ UNCHANGED <<authority, service, external>>

\* resume_dispatch_chain, then DISPATCHED -> UNCERTAIN.
PersistUncertain ==
  /\ At("uncertain")
  /\ \/ /\ Calm /\ projection[job.o] \notin Unresolvable
        /\ Reaches(job.o, Unresolved(projection[job.o]))
        /\ Go("resolve")
     \/ /\ Calm
        /\ \/ projection[job.o] \in Unresolvable
           \/ ~LiveObjective(job.o) /\ projection[job.o] # Unresolved(projection[job.o])
        /\ UNCHANGED projection
        /\ Go("reread")
     \/ Fault /\ Advance(job.o, UncertainOf(projection[job.o])) /\ Go("reread")
  /\ UNCHANGED <<authority, ledger, durable, loop, client, objective, guard, external>>

\* The state is read again before the attempt is called inconclusive.
Reread ==
  /\ At("reread")
  /\ \/ /\ Calm /\ projection[job.o] \in Committed
        /\ Save(job.o, Classified("settled", "RESOLVED"), To("guard"))
     \/ /\ (Calm /\ projection[job.o] \notin Committed) \/ Fault
        /\ Save(job.o, Classified("unrecorded", "RECONCILING"), Ready)
  /\ UNCHANGED <<authority, service, external>>

\* UNCERTAIN -> RESOLVED_SUCCEEDED; the process ends when it is not taken.
Resolve ==
  /\ At("resolve")
  /\ \/ /\ Calm /\ Reaches(job.o, "RESOLVED_SUCCEEDED")
        /\ Keep(Classified("settled", "RESOLVED"))
        /\ Go("resolved")
        /\ UNCHANGED <<durable, loop, client>>
     \/ /\ Calm /\ ~LiveObjective(job.o) /\ projection[job.o] # "RESOLVED_SUCCEEDED"
        /\ Restart
        /\ UNCHANGED projection
     \/ /\ Fault
        /\ Advance(job.o, {projection[job.o], "RESOLVED_SUCCEEDED"})
        /\ Restart
  /\ UNCHANGED <<authority, objective, guard, external>>

\* Here the guard is written before the checkpoint it depends on, so it is
\* not ready yet and is written again later.
GuardResolved ==
  /\ At("resolved")
  /\ WriteGuard(job.o)
  /\ Go("settle")
  /\ UNCHANGED <<authority, ledger, durable, round, sweep, owed, client, projection,
                 objective, external>>

StoreResolution ==
  /\ At("settle")
  /\ Save(job.o, ledger[job.o], Ready)
  /\ UNCHANGED <<authority, service, external, faults>>

-----------------------------------------------------------------------------

Init ==
  /\ A!Init
  /\ ledger = [o \in Objective |-> NoRecord]
  /\ stored = [o \in Objective |-> NoRecord]
  /\ attempts = [o \in Objective |-> NoAttempts]
  /\ pending = {} /\ round = "rest" /\ sweep = {} /\ owed = {}
  /\ job = Ready /\ inbox = Nothing /\ runtime = Idle
  /\ projection = [o \in Objective |-> "NONE"]
  /\ objective = [o \in Objective |-> "PROPOSED"]
  /\ guard = [o \in Objective |-> FALSE]
  /\ provider = [o \in Objective |-> "IDLE"]
  /\ world = [o \in Objective |-> 0]
  /\ faults = 0

Submission ==
  \/ Accept \/ Admit \/ Prepare \/ Reserve \/ ReserveFails \/ CheckWindow \/ Expire
  \/ PersistRejection \/ StoreRejection \/ Commit \/ Reply

Execution ==
  \/ Dispatch \/ DispatchChain \/ ExecuteProvider \/ ObserveProvider
  \/ TransportLost \/ StoreResponse \/ StoreObservation \/ GuardObjective

Recovery ==
  \/ StartSweep \/ EndSweep \/ EndRound
  \/ \E o \in Objective : Visit(o) \/ RewriteGuard(o)
  \/ InspectReserved \/ StatusReserved \/ AbortReserved

Reconciliation ==
  \/ Probe \/ ProbeFails \/ PersistUncertain \/ Reread \/ Resolve
  \/ GuardResolved \/ StoreResolution

Effects == Submission \/ Execution \/ Recovery \/ Reconciliation

Runtime ==
  \/ \E o \in Objective : Resume(o) \/ Submit(o)
  \/ LeaveResume \/ GiveUp \/ CancelDenied \/ TickAnswered

Scheduler == \E o \in Objective : TickScheduler(o)

\* What the broker does of its own accord or for its administrators.
Broker ==
  /\ A!Idle \/ A!Administer
  /\ UNCHANGED <<ledger, durable, loop, job, client, service, external, faults>>

\* A second passes.  The runtime has given up on a query by the time it has
\* waited long enough.
Tick ==
  /\ A!Tick
  /\ runtime.at = "waiting" => clock < runtime.since + Patience
  /\ UNCHANGED <<ledger, durable, loop, job, client, service, external, faults>>

Next == Effects \/ Runtime \/ Scheduler \/ Broker \/ Tick \/ Crash

Spec == Init /\ [][Next]_vars

\* Every step of the effects service, the runtime and the scheduler is taken
\* when it stays possible; a sweep begins though submissions keep coming,
\* because the loop looks at its timer before it accepts.
FairSpec ==
  /\ Spec
  /\ SF_vars(StartSweep)
  /\ WF_vars(Execution) /\ WF_vars(Reconciliation) /\ WF_vars(Recovery)
  /\ WF_vars(Submission) /\ WF_vars(CancelDenied \/ TickAnswered)
  /\ WF_vars(Scheduler)

-----------------------------------------------------------------------------
(* Properties *)

\* The provider changes the world at most once for an effect, through crashes,
\* lost answers, resubmissions and reconciliation
\* (duplicate_effect_execution_count of contracts/architecture/12).
AtMostOnce == \A o \in Objective : world[o] <= 1

\* What has happened was dispatched in PostgreSQL and committed by the
\* authority under the stamp of that record before it happened.
WriteAhead ==
  \A o \in Objective : world[o] > 0 =>
    /\ stored[o].state \in {"EXECUTING", "UNKNOWN", "RECONCILING"} \cup Succeeded
    /\ reservation[o].status = "COMMITTED"
    /\ reservation[o].digest.at = stored[o].stamp

\* A satisfied objective has an effect that happened and that provider, state
\* service and effects service all have on record.
CompletionIsObserved ==
  \A o \in Objective : objective[o] = "SATISFIED" =>
    /\ world[o] > 0 /\ provider[o] = "RECORDED"
    /\ projection[o] \in Committed
    /\ stored[o].state \in Succeeded

\* The effects service's final states agree with those of the state service,
\* which terminal_replay relies on, and an effect it has rejected never happens.
RecordsAgree ==
  \A o \in Objective :
    /\ stored[o].state \in Succeeded => projection[o] \in Committed
    /\ stored[o].state = "REJECTED" => projection[o] = "REJECTED" /\ world[o] = 0

\* A ready guard is never ahead of the records it vouches for.
GuardIsBacked ==
  \A o \in Objective :
    guard[o] => projection[o] \in Committed /\ stored[o].state \in Succeeded

\* A client is told COMMITTED, and asks for completion, only when the effect
\* is on record everywhere.
AnswerIsDurable ==
  runtime.at = "tick" =>
    /\ stored[runtime.o].state \in Succeeded
    /\ projection[runtime.o] \in Committed

\* A checkpoint never takes an effect back: final records stay as they are,
\* and what was dispatched is never reserved or rejected afterwards.
CheckpointsAdvance ==
  [][\A o \in Objective :
       /\ stored[o].state \in Terminal => stored'[o] = stored[o]
       /\ stored[o].state \in {"EXECUTING", "UNKNOWN", "RECONCILING"}
            => stored'[o].state \notin {"NONE", "RESERVED", "REJECTED"}
       /\ stored[o].state # "NONE" => stored'[o].stamp = stored[o].stamp]_vars

PhaseOf(state) ==
  CASE state = "NONE" -> "none"
    [] state = "RESERVED" -> "reserved"
    [] state = "REJECTED" -> "rejected"
    [] state \in Succeeded -> "succeeded"
    [] OTHER -> "dispatched"

Effect ==
  INSTANCE ExternalEffect
  WITH phase <- [o \in Objective |-> PhaseOf(stored[o].state)],
       happened <- world,
       satisfied <- [o \in Objective |-> objective[o] = "SATISFIED"]

\* The whole dispatch implements the abstract effect, step by step.
ImplementsEffect == Effect!Spec

\* An effect whose dispatch is durable does not stay EXECUTING: it is observed
\* or becomes an unknown outcome, whatever crashes come between.
ExecutionIsSettled ==
  \A o \in Objective :
    stored[o].state = "EXECUTING" ~> stored[o].state # "EXECUTING"

\* A success that is on record completes its objective, even if its guard was
\* lost or its client left, unless the objective was cancelled meanwhile.
SuccessCompletes ==
  \A o \in Objective :
    stored[o].state \in Succeeded ~> objective[o] # "PROPOSED"

\* An objective whose grant is live and has quota is never cancelled as denied
\* (nix/tests/habitat_runtime_live.py.in:347).
LiveGrantIsHonoured == \A o \in Objective : objective[o] # "CANCELLED"

\* An effect that the state service holds as rejected never happens.
RejectedNeverHappens ==
  \A o \in Objective : projection[o] = "REJECTED" => world[o] = 0

\* A cancelled objective has no reservation left to be dispatched
\* (docs/implementation/W08.md:13).
CancelledIsNotDispatched ==
  [][\A o \in Objective :
       (objective[o] = "CANCELLED" /\ stored[o].state = "RESERVED")
         => stored'[o].state # "EXECUTING"]_vars

\* Every attempt that PostgreSQL holds is one the effects service knows
\* (docs/implementation/W08.md:10).
AttemptsRetained ==
  \A o \in Objective : Len(attempts[o].tries) <= Len(ledger[o].log.tries)

=============================================================================
