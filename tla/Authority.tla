------------------------------ MODULE Authority ------------------------------
(***************************************************************************)
(* The runtime authority broker (crates/habitat-authority): one process    *)
(* that serves PREPARE, COMMIT, ABORT, STATUS and EVALUATE requests, admin *)
(* approvals and admin operations, one at a time, and stores its state in  *)
(* one PostgreSQL row by compare and swap before it answers.  A failed     *)
(* store ends the process, so the in-memory change is never observable:    *)
(* that behaviour is a stuttering step here.                               *)
(*                                                                         *)
(* A request is [id, at, version]: its request_id, the second it was       *)
(* stamped with and the state version it claims.  The digest by which the  *)
(* broker recognises a replay covers the last two.                         *)
(***************************************************************************)
EXTENDS Integers, FiniteSets

CONSTANTS
  Request,      \* request ids
  Evaluation,   \* the request ids used for EVALUATE, a subset of Request
  Stamp,        \* the seconds at which callers stamp requests
  Grant,        \* grant ids of the deployed configuration
  Candidates,   \* [Request -> SUBSET Grant]: grants whose fields match
  Chain,        \* [Grant -> SUBSET Grant]: the grant and its ancestors
  Rank,         \* [Grant -> Nat]: specificity of the grant's target prefix
  Quota,        \* [Grant -> Nat \ {0}]
  Expires,      \* [Grant -> Nat]: the first second the grant is not valid
  Window,       \* the 30 s for which a request and a PREPARE stay fresh
  MaxClock,     \* bound of the clock
  Version,      \* state versions
  InitVersion,  \* state version of the first deployment
  AdminId,      \* request ids of admin operations
  AdminOp,      \* [kind: "revoke", grant] and [kind: "rotate", version]
  Approval,     \* request ids of the reviewer's approvals
  Nothing       \* absence of a record

ASSUME ConstantsAssumption ==
  /\ IsFiniteSet(Request) /\ Evaluation \subseteq Request
  /\ Candidates \in [Request -> SUBSET Grant]
  /\ Chain \in [Grant -> SUBSET Grant]
  /\ \A g \in Grant : g \in Chain[g]
  /\ Rank \in [Grant -> Nat]
  /\ Quota \in [Grant -> Nat \ {0}]
  /\ Expires \in [Grant -> Nat]
  /\ Window \in Nat \ {0} /\ MaxClock \in Nat \ {0}
  /\ Stamp \subseteq 1..MaxClock
  /\ InitVersion \in Version
  /\ \A op \in AdminOp : \/ op.kind = "revoke" /\ op.grant \in Grant
                         \/ op.kind = "rotate" /\ op.version \in Version
  /\ Nothing \notin AdminOp /\ Nothing \notin AdminId
  /\ Nothing \notin AdminId \X AdminOp

VARIABLES
  clock,          \* the broker's wall clock, in seconds
  reservation,    \* effect_reservations, by request id
  usage,          \* quota_usage, by grant
  decided,        \* decisions_by_request: the digest an EVALUATE was bound to
  charged,        \* quota_reservations: the chain an EVALUATE has consumed
  revoked,        \* revoked grants
  epoch,          \* revocation_epoch
  stateVersion,   \* state_version
  configVersion,  \* version of the configuration whose grants are loaded
  history,        \* state_version_history
  approvals,      \* admin_approvals: the operation each approval names
  usedBy,         \* used_by of each approval
  applied,        \* admin_results: the operation each admin request did
  reply           \* the answer to the last request

vars == <<clock, reservation, usage, decided, charged, revoked, epoch,
          stateVersion, configVersion, history, approvals, usedBy, applied,
          reply>>

quotaVars == <<usage, decided, charged>>
adminVars == <<revoked, epoch, stateVersion, configVersion, history,
               approvals, usedBy, applied>>

-----------------------------------------------------------------------------
(* Types *)

Digest == [at : Stamp, version : Version]
Message == [id : Request, at : Stamp, version : Version]

NoReservation == [status |-> "NONE"]
Reservation ==
  [status : {"PREPARED", "COMMITTED"}, digest : Digest, grant : Grant,
   preparedAt : 1..MaxClock, epoch : Nat, config : Version, state : Version]

Phase == {"PREPARE", "COMMIT", "ABORT", "STATUS", "EVALUATE"}
Code == {"AUTHORIZED", "UNAUTHORIZED", "CONFLICT", "PREPARED", "ABORTED"}
NoReply == [phase |-> "NONE"]
Reply == [phase : Phase, id : Request, code : Code]

TypeOK ==
  /\ clock \in 1..MaxClock
  /\ reservation \in [Request -> Reservation \cup {NoReservation}]
  /\ usage \in [Grant -> Nat]
  /\ decided \in [Request -> Digest \cup {Nothing}]
  /\ charged \in [Request -> SUBSET Grant]
  /\ revoked \in SUBSET Grant
  /\ epoch \in Nat \ {0}
  /\ stateVersion \in Version /\ configVersion \in Version
  /\ history \in SUBSET Version
  /\ approvals \in [Approval -> (AdminId \X AdminOp) \cup {Nothing}]
  /\ usedBy \in [Approval -> AdminId \cup {Nothing}]
  /\ applied \in [AdminId -> AdminOp \cup {Nothing}]
  /\ reply \in Reply \cup {NoReply}

-----------------------------------------------------------------------------
(* Evaluation of a request *)

DigestOf(q) == [at |-> q.at, version |-> q.version]

Prepared(held, g) ==
  {r \in Request : /\ held[r].status = "PREPARED"
                   /\ g \in Chain[held[r].grant]}
Committed(held, g) ==
  {r \in Request : /\ held[r].status = "COMMITTED"
                   /\ g \in Chain[held[r].grant]}
Charged(g) == {r \in Request : g \in charged[r]}

\* Grants that match the request now; the most specific one is selected and
\* the iteration order of a hash map breaks a tie.
Matching(q) ==
  {g \in Candidates[q.id] : q.version = configVersion /\ clock < Expires[g]}
Selected(q) ==
  {g \in Matching(q) : /\ q.at <= clock /\ clock - q.at <= Window
                       /\ \A h \in Matching(q) : Rank[h] <= Rank[g]}

ChainActive(g) == Chain[g] \cap revoked = {}
Live(q, g) == ChainActive(g) /\ q.version = stateVersion

\* Mutant: no reaper.
ReapedNever == reservation

\* Every request is served after the expired PREPAREs are dropped.
Reaped ==
  [r \in Request |->
     IF /\ reservation[r].status = "PREPARED"
        /\ clock >= reservation[r].preparedAt + Window
     THEN NoReservation ELSE reservation[r]]

Answer(phase, q, code) ==
  reply' = [phase |-> phase, id |-> q.id, code |-> code]

-----------------------------------------------------------------------------
(* Effect requests *)

\* Mutant: capacity without the outstanding PREPAREs.
HasCapacityUnreserved(held, g) == \A h \in Chain[g] : usage[h] < Quota[h]

HasCapacity(held, g) ==
  \A h \in Chain[g] : usage[h] + Cardinality(Prepared(held, h)) < Quota[h]

Conflicting(held, q) ==
  held[q.id] # NoReservation /\ held[q.id].digest # DigestOf(q)

Preparable(held, q, g) ==
  Live(q, g) /\ (held[q.id] = NoReservation => HasCapacity(held, g))

NewReservation(q, g) ==
  [status |-> "PREPARED", digest |-> DigestOf(q), grant |-> g,
   preparedAt |-> clock, epoch |-> epoch, config |-> configVersion,
   state |-> stateVersion]

Prepare(q) ==
  /\ \/ /\ Conflicting(Reaped, q)
        /\ reservation' = Reaped
        /\ Answer("PREPARE", q, "CONFLICT")
     \/ /\ ~Conflicting(Reaped, q)
        /\ \E g \in Selected(q) :
             /\ Preparable(Reaped, q, g)
             /\ reservation' = IF Reaped[q.id] = NoReservation
                               THEN [Reaped EXCEPT ![q.id] = NewReservation(q, g)]
                               ELSE Reaped
        /\ Answer("PREPARE", q, "AUTHORIZED")
     \/ /\ ~Conflicting(Reaped, q)
        /\ Selected(q) = {} \/ \E g \in Selected(q) : ~Preparable(Reaped, q, g)
        /\ reservation' = Reaped
        /\ Answer("PREPARE", q, "UNAUTHORIZED")
  /\ UNCHANGED <<clock, quotaVars, adminVars>>

\* Mutant: the epoch is not compared.
CurrentAnyEpoch(held, r) ==
  held[r].config = configVersion /\ held[r].state = stateVersion

\* The reservation still stands for what the request asks under the current
\* epoch, configuration and state version.
Current(held, r) ==
  /\ held[r].epoch = epoch
  /\ held[r].config = configVersion
  /\ held[r].state = stateVersion

Committable(held, q, g) ==
  /\ held[q.id] # NoReservation
  /\ held[q.id].digest = DigestOf(q)
  /\ held[q.id].grant = g
  /\ Live(q, g)
  /\ Current(held, q.id)

\* Mutant: a replayed COMMIT consumes the quota again.
ConsumesOnReplay(held, q, g, h) == h \in Chain[g]

\* What a COMMIT of q under g consumes of grant h: nothing when it replays.
Consumes(held, q, g, h) == held[q.id].status = "PREPARED" /\ h \in Chain[g]

Commit(q) ==
  /\ \/ \E g \in Selected(q) :
          /\ Committable(Reaped, q, g)
          /\ reservation' = [Reaped EXCEPT ![q.id].status = "COMMITTED"]
          /\ usage' = [h \in Grant |->
                         IF Consumes(Reaped, q, g, h) THEN usage[h] + 1
                         ELSE usage[h]]
          /\ Answer("COMMIT", q, "AUTHORIZED")
     \/ /\ Selected(q) = {} \/ \E g \in Selected(q) : ~Committable(Reaped, q, g)
        /\ reservation' = Reaped
        /\ usage' = usage
        /\ Answer("COMMIT", q, "UNAUTHORIZED")
  /\ UNCHANGED <<clock, decided, charged, adminVars>>

\* Mutant: a committed reservation can be aborted.
AbortableAlways(held, q) ==
  held[q.id] # NoReservation => held[q.id].digest = DigestOf(q)

Abortable(held, q) ==
  held[q.id] # NoReservation => /\ held[q.id].digest = DigestOf(q)
                                /\ held[q.id].status = "PREPARED"

Abort(q) ==
  /\ \/ /\ Abortable(Reaped, q)
        /\ reservation' = [Reaped EXCEPT ![q.id] = NoReservation]
        /\ Answer("ABORT", q, "ABORTED")
     \/ /\ ~Abortable(Reaped, q)
        /\ reservation' = Reaped
        /\ Answer("ABORT", q, "UNAUTHORIZED")
  /\ UNCHANGED <<clock, quotaVars, adminVars>>

StatusCode(held, q) ==
  IF held[q.id] = NoReservation \/ Conflicting(held, q) THEN "UNAUTHORIZED"
  ELSE IF held[q.id].status = "PREPARED" THEN "PREPARED"
  ELSE IF Current(held, q.id) THEN "AUTHORIZED" ELSE "UNAUTHORIZED"

Status(q) ==
  /\ reservation' = Reaped
  /\ Answer("STATUS", q, StatusCode(Reaped, q))
  /\ UNCHANGED <<clock, quotaVars, adminVars>>

-----------------------------------------------------------------------------
(* Capability evaluations: quota is consumed at once, once per request id *)

Evaluable(q, g) ==
  /\ Live(q, g)
  /\ IF charged[q.id] = {}
     THEN \A h \in Chain[g] : usage[h] < Quota[h]
     ELSE charged[q.id] = Chain[g]

Evaluate(q) ==
  /\ reservation' = Reaped
  /\ \/ /\ decided[q.id] # Nothing /\ decided[q.id] # DigestOf(q)
        /\ Answer("EVALUATE", q, "CONFLICT")
        /\ UNCHANGED quotaVars
     \/ /\ decided[q.id] \in {Nothing, DigestOf(q)}
        /\ decided' = [decided EXCEPT ![q.id] = DigestOf(q)]
        /\ \/ \E g \in Selected(q) :
                /\ Evaluable(q, g)
                /\ charged' = [charged EXCEPT ![q.id] = Chain[g]]
                /\ usage' = [h \in Grant |->
                               IF charged[q.id] = {} /\ h \in Chain[g]
                               THEN usage[h] + 1 ELSE usage[h]]
                /\ Answer("EVALUATE", q, "AUTHORIZED")
           \/ /\ Selected(q) = {} \/ \E g \in Selected(q) : ~Evaluable(q, g)
              /\ Answer("EVALUATE", q, "UNAUTHORIZED")
              /\ UNCHANGED <<usage, charged>>
  /\ UNCHANGED <<clock, adminVars>>

-----------------------------------------------------------------------------
(* Administration *)

\* A health poll, or an admin request that is refused or is a replay.
Idle ==
  /\ reservation' = Reaped
  /\ UNCHANGED <<clock, quotaVars, adminVars, reply>>

RecordApproval(a, id, op) ==
  /\ approvals[a] = Nothing
  /\ approvals' = [approvals EXCEPT ![a] = <<id, op>>]
  /\ reservation' = Reaped
  /\ UNCHANGED <<clock, quotaVars, revoked, epoch, stateVersion,
                 configVersion, history, usedBy, applied, reply>>

\* Mutant: the approval is not tied to the request it names.
ApprovedForAny(a, id, op) == approvals[a] # Nothing /\ approvals[a][2] = op

Approved(a, id, op) == approvals[a] = <<id, op>> /\ usedBy[a] = Nothing

\* Mutant: the epoch stays.
NextEpochSame == epoch

NextEpoch == epoch + 1

Revoke(op) ==
  /\ op.kind = "revoke" /\ op.grant \notin revoked
  /\ revoked' = revoked \cup {op.grant}
  /\ UNCHANGED <<stateVersion, history>>

Rotate(op) ==
  /\ op.kind = "rotate" /\ op.version \notin history
  /\ stateVersion' = op.version
  /\ history' = history \cup {op.version}
  /\ UNCHANGED revoked

ApplyAdmin(a, id, op) ==
  /\ applied[id] = Nothing
  /\ Approved(a, id, op)
  /\ Revoke(op) \/ Rotate(op)
  /\ epoch' = NextEpoch
  /\ usedBy' = [usedBy EXCEPT ![a] = id]
  /\ applied' = [applied EXCEPT ![id] = op]
  /\ reservation' = Reaped
  /\ UNCHANGED <<clock, quotaVars, configVersion, approvals, reply>>

\* A configuration that differs from the loaded one, under the current state
\* version or one never seen.
Adoptable(v) == v # configVersion /\ (v = stateVersion \/ v \notin history)

\* A restart with the configuration of another deployment.  It refuses to
\* start on a version it has left; with the same configuration it changes
\* nothing.
Reconfigure(v) ==
  /\ Adoptable(v)
  /\ configVersion' = v
  /\ stateVersion' = v
  /\ history' = history \cup {v}
  /\ epoch' = NextEpoch
  /\ UNCHANGED <<clock, reservation, quotaVars, revoked, approvals, usedBy,
                 applied, reply>>

Tick ==
  /\ clock < MaxClock
  /\ clock' = clock + 1
  /\ UNCHANGED <<reservation, quotaVars, adminVars, reply>>

-----------------------------------------------------------------------------

Init ==
  /\ clock = 1
  /\ reservation = [r \in Request |-> NoReservation]
  /\ usage = [g \in Grant |-> 0]
  /\ decided = [r \in Request |-> Nothing]
  /\ charged = [r \in Request |-> {}]
  /\ revoked = {}
  /\ epoch = 1
  /\ stateVersion = InitVersion
  /\ configVersion = InitVersion
  /\ history = {InitVersion}
  /\ approvals = [a \in Approval |-> Nothing]
  /\ usedBy = [a \in Approval |-> Nothing]
  /\ applied = [id \in AdminId |-> Nothing]
  /\ reply = NoReply

EffectRequest(q) == Prepare(q) \/ Commit(q) \/ Abort(q) \/ Status(q)

Administer ==
  \/ \E a \in Approval, id \in AdminId, op \in AdminOp :
       RecordApproval(a, id, op) \/ ApplyAdmin(a, id, op)
  \/ \E v \in Version : Reconfigure(v)

\* A caller stamps a request with the time at which it makes it.
Next ==
  \/ \E q \in Message : /\ q.at <= clock
                        /\ EffectRequest(q) \/ (q.id \in Evaluation /\ Evaluate(q))
  \/ Idle
  \/ Administer
  \/ Tick

Spec == Init /\ [][Next]_vars

-----------------------------------------------------------------------------
(* Properties *)

\* A revocation, a rotation or a new deployment moves the epoch, so a
\* reservation of the current epoch never rests on a revoked grant: a COMMIT
\* that passes the epoch comparison cannot pass it through a dead chain.
EpochFencesRevocation ==
  \A r \in Request :
    (reservation[r] # NoReservation /\ reservation[r].epoch = epoch)
      => ChainActive(reservation[r].grant)

\* The effects that hold a grant, committed or only prepared, never exceed
\* its quota, whatever evaluations consume from the same grant.
EffectQuota ==
  \A g \in Grant :
    Cardinality(Committed(reservation, g)) + Cardinality(Prepared(reservation, g))
      <= Quota[g]

\* quota_usage counts each committed effect and each charged evaluation
\* once: no replay, retry or denial consumes quota again or returns it.
UsageExact ==
  \A g \in Grant :
    usage[g] = Cardinality(Committed(reservation, g)) + Cardinality(Charged(g))

\* Each operation that took effect has spent exactly one approval, recorded
\* for that operation, and no approval is spent on an operation that did not.
OneApprovalPerOperation ==
  \A id \in AdminId :
    LET spent == {a \in Approval : usedBy[a] = id} IN
    IF applied[id] = Nothing THEN spent = {}
    ELSE \E a \in Approval : spent = {a} /\ approvals[a] = <<id, applied[id]>>

\* A committed reservation is never dropped, re-prepared or rebound, by the
\* reaper, an ABORT or a later PREPARE under any configuration.
CommittedIsPermanent ==
  [][\A r \in Request : reservation[r].status = "COMMITTED"
                          => reservation'[r] = reservation[r]]_vars

\* A PREPARE can be committed only in the window after it, and only while the
\* authority that admitted it stands: a late COMMIT finds it reaped.
CommitInsideWindow ==
  [][\A r \in Request :
       (reservation[r].status = "PREPARED" /\ reservation'[r].status = "COMMITTED")
         => /\ clock < reservation[r].preparedAt + Window
            /\ clock < Expires[reservation[r].grant]]_vars

\* COMMIT and STATUS never report AUTHORIZED for an effect whose grant chain
\* has been revoked, or whose state version has been left, by that time.
AuthorizedIsCurrent ==
  [][(/\ reply'.phase \in {"COMMIT", "STATUS"} /\ reply'.code = "AUTHORIZED"
      /\ reply' # reply)
       => LET held == reservation'[reply'.id] IN
          /\ held.status = "COMMITTED"
          /\ ChainActive(held.grant)
          /\ held.digest.version = stateVersion]_vars

-----------------------------------------------------------------------------
(* Refinement *)

Licensed ==
  [r \in {x \in Request : reservation[x].status = "COMMITTED"} |->
     [grant |-> reservation[r].grant, version |-> reservation[r].digest.version]]

Told ==
  IF reply.phase \in {"COMMIT", "STATUS"} /\ reply.code = "AUTHORIZED"
  THEN {reply.id} ELSE {}

Licences ==
  INSTANCE Licence
  WITH licence <- Licensed, used <- usage, inForce <- stateVersion,
       seen <- history, told <- Told

\* PREPARE, COMMIT, their replays, the reaper and any administration between them
\* license an effect at once: what was reserved is still there to be used, and what
\* has changed since is noticed.
ImplementsLicence == Licences!Spec

=============================================================================
