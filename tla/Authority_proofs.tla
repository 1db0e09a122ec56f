---------------------------- MODULE Authority_proofs ----------------------------
(***************************************************************************)
(* What the authority broker guarantees for every set of requests, every   *)
(* grant hierarchy and every schedule: type correctness, the fence that a  *)
(* revocation raises, and the exact accounting of quota.                   *)
(***************************************************************************)
EXTENDS Authority, FiniteSetTheorems, TLAPS

-----------------------------------------------------------------------------
(* The reaper *)

\* The reaper keeps a reservation or drops a PREPARED one, and what it leaves
\* is well typed.
LEMMA ReapedFacts ==
  ASSUME TypeOK
  PROVE  /\ Reaped \in [Request -> Reservation \cup {NoReservation}]
         /\ \A r \in Request :
              \/ Reaped[r] = reservation[r]
              \/ /\ Reaped[r] = NoReservation
                 /\ reservation[r].status = "PREPARED"
                 /\ clock >= reservation[r].preparedAt + Window
  BY DEF TypeOK, Reaped

\* A reservation is told from its absence by its status.
LEMMA StatusOfReservation ==
  ASSUME NEW x \in Reservation \cup {NoReservation}
  PROVE  /\ x = NoReservation <=> x.status = "NONE"
         /\ x.status \in {"NONE", "PREPARED", "COMMITTED"}
         /\ x # NoReservation => x \in Reservation
  BY DEF Reservation, NoReservation

-----------------------------------------------------------------------------
(* Type correctness *)

LEMMA DigestType ==
  ASSUME NEW q \in Message
  PROVE  DigestOf(q) \in Digest /\ q.id \in Request
  BY DEF Message, DigestOf, Digest

LEMMA SelectedType ==
  ASSUME NEW q \in Message
  PROVE  Selected(q) \subseteq Grant
  BY ConstantsAssumption DEF Selected, Matching, Message

LEMMA TypeInit == Init => TypeOK
  BY ConstantsAssumption
  DEF Init, TypeOK, NoReservation, NoReply

LEMMA TypePrepare ==
  ASSUME TypeOK, NEW q \in Message, Prepare(q)
  PROVE  TypeOK'
<1>1. Reaped \in [Request -> Reservation \cup {NoReservation}]
  BY ReapedFacts
<1>2. q.id \in Request /\ DigestOf(q) \in Digest
  BY DigestType
<1>3. reply' \in Reply
  BY <1>2 DEF Prepare, Answer, Reply, Phase, Code
<1>4. reservation' \in [Request -> Reservation \cup {NoReservation}]
  <2>1. CASE reservation' = Reaped
    BY <1>1, <2>1
  <2>2. CASE reservation' # Reaped
    <3>1. PICK g \in Selected(q) :
            reservation' = [Reaped EXCEPT ![q.id] = NewReservation(q, g)]
      BY <2>2 DEF Prepare
    <3>2. g \in Grant
      BY SelectedType
    <3>3. NewReservation(q, g) \in Reservation
      BY <1>2, <3>2 DEF NewReservation, Reservation, TypeOK
    <3> QED
      BY <1>1, <1>2, <3>1, <3>3
  <2> QED
    BY <2>1, <2>2
<1> QED
  BY <1>3, <1>4 DEF TypeOK, Prepare, quotaVars, adminVars

LEMMA TypeCommit ==
  ASSUME TypeOK, NEW q \in Message, Commit(q)
  PROVE  TypeOK'
<1>1. Reaped \in [Request -> Reservation \cup {NoReservation}]
  BY ReapedFacts
<1>2. q.id \in Request
  BY DigestType
<1>3. reply' \in Reply
  BY <1>2 DEF Commit, Answer, Reply, Phase, Code
<1>4. usage' \in [Grant -> Nat]
  BY DEF Commit, TypeOK
<1>5. reservation' \in [Request -> Reservation \cup {NoReservation}]
  <2>1. CASE reservation' = Reaped
    BY <1>1, <2>1
  <2>2. CASE reservation' # Reaped
    <3>1. /\ reservation' = [Reaped EXCEPT ![q.id].status = "COMMITTED"]
          /\ Reaped[q.id] # NoReservation
      BY <2>2 DEF Commit, Committable
    <3>2. [Reaped[q.id] EXCEPT !.status = "COMMITTED"] \in Reservation
      BY <1>1, <1>2, <3>1, StatusOfReservation DEF Reservation
    <3> QED
      BY <1>1, <1>2, <3>1, <3>2
  <2> QED
    BY <2>1, <2>2
<1> QED
  BY <1>3, <1>4, <1>5 DEF TypeOK, Commit, adminVars

LEMMA TypeOther ==
  ASSUME TypeOK, NEW q \in Message, Abort(q) \/ Status(q) \/ Evaluate(q)
  PROVE  TypeOK'
<1>1. Reaped \in [Request -> Reservation \cup {NoReservation}]
  BY ReapedFacts
<1>2. q.id \in Request /\ DigestOf(q) \in Digest /\ Selected(q) \subseteq Grant
  BY DigestType, SelectedType
<1>3. CASE Abort(q)
  <2>1. reservation' \in [Request -> Reservation \cup {NoReservation}]
    BY <1>1, <1>2, <1>3 DEF Abort
  <2>2. reply' \in Reply
    BY <1>2, <1>3 DEF Abort, Answer, Reply, Phase, Code
  <2> QED
    BY <1>3, <2>1, <2>2 DEF TypeOK, Abort, quotaVars, adminVars
<1>4. CASE Status(q)
  <2>1. StatusCode(Reaped, q) \in Code
    BY <1>1, <1>2, StatusOfReservation DEF StatusCode, Code
  <2>2. reply' \in Reply
    BY <1>2, <1>4, <2>1 DEF Status, Answer, Reply, Phase
  <2> QED
    BY <1>1, <1>4, <2>2 DEF TypeOK, Status, quotaVars, adminVars
<1>5. CASE Evaluate(q)
  <2>1. reply' \in Reply
    BY <1>2, <1>5 DEF Evaluate, Answer, Reply, Phase, Code
  <2>2. /\ usage' \in [Grant -> Nat]
        /\ charged' \in [Request -> SUBSET Grant]
    BY <1>2, <1>5, ConstantsAssumption DEF Evaluate, TypeOK, quotaVars
  <2>3. decided' \in [Request -> Digest \cup {Nothing}]
    BY <1>2, <1>5 DEF Evaluate, TypeOK, quotaVars
  <2> QED
    BY <1>1, <1>5, <2>1, <2>2, <2>3 DEF TypeOK, Evaluate, adminVars
<1> QED
  BY <1>3, <1>4, <1>5

LEMMA TypeAdmin ==
  ASSUME TypeOK, Administer
  PROVE  TypeOK'
<1>1. Reaped \in [Request -> Reservation \cup {NoReservation}]
  BY ReapedFacts
<1>2. ASSUME NEW a \in Approval, NEW id \in AdminId, NEW op \in AdminOp,
             RecordApproval(a, id, op)
      PROVE  TypeOK'
  <2>1. approvals' \in [Approval -> (AdminId \X AdminOp) \cup {Nothing}]
    BY <1>2 DEF RecordApproval, TypeOK
  <2> QED
    BY <1>1, <1>2, <2>1 DEF RecordApproval, TypeOK, quotaVars
<1>3. ASSUME NEW a \in Approval, NEW id \in AdminId, NEW op \in AdminOp,
             ApplyAdmin(a, id, op)
      PROVE  TypeOK'
  <2>1. revoked' \in SUBSET Grant /\ stateVersion' \in Version
          /\ history' \in SUBSET Version
    <3>1. CASE Revoke(op)
      BY <3>1, ConstantsAssumption DEF Revoke, TypeOK
    <3>2. CASE Rotate(op)
      BY <3>2, ConstantsAssumption DEF Rotate, TypeOK
    <3> QED
      BY <1>3, <3>1, <3>2 DEF ApplyAdmin
  <2>2. /\ usedBy' \in [Approval -> AdminId \cup {Nothing}]
        /\ applied' \in [AdminId -> AdminOp \cup {Nothing}]
        /\ epoch' \in Nat \ {0}
    BY <1>3 DEF ApplyAdmin, TypeOK, NextEpoch
  <2> QED
    BY <1>1, <1>3, <2>1, <2>2 DEF ApplyAdmin, TypeOK, quotaVars
<1>4. ASSUME NEW v \in Version, Reconfigure(v)
      PROVE  TypeOK'
  BY <1>4 DEF Reconfigure, TypeOK, quotaVars, NextEpoch
<1> QED
  BY <1>2, <1>3, <1>4 DEF Administer

LEMMA TypeStep == TypeOK /\ [Next]_vars => TypeOK'
<1> SUFFICES ASSUME TypeOK, [Next]_vars
             PROVE  TypeOK'
  OBVIOUS
<1>1. ASSUME NEW q \in Message, EffectRequest(q) \/ Evaluate(q)
      PROVE  TypeOK'
  BY <1>1, TypePrepare, TypeCommit, TypeOther DEF EffectRequest
<1>2. CASE Idle
  BY <1>2, ReapedFacts DEF Idle, TypeOK, quotaVars, adminVars
<1>3. CASE Administer
  BY <1>3, TypeAdmin
<1>4. CASE Tick
  BY <1>4, ConstantsAssumption DEF Tick, TypeOK, quotaVars, adminVars
<1>5. CASE UNCHANGED vars
  BY <1>5 DEF vars, TypeOK
<1> QED
  BY <1>1, <1>2, <1>3, <1>4, <1>5 DEF Next

\* The broker's state is well typed.
THEOREM TypeCorrect == Spec => []TypeOK
  BY TypeInit, TypeStep, PTL DEF Spec

-----------------------------------------------------------------------------
(* What a step may do to one reservation *)

Kept(r) == reservation'[r] = reservation[r]

Dropped(r) ==
  reservation[r].status = "PREPARED" /\ reservation'[r] = NoReservation

Created(r) ==
  /\ reservation[r].status \in {"NONE", "PREPARED"}
  /\ \E q \in Message : \E g \in Grant :
       /\ reservation'[r] = NewReservation(q, g)
       /\ Live(q, g)
  /\ UNCHANGED <<epoch, revoked>>

Bound(r) ==
  /\ reservation[r].status = "PREPARED"
  /\ reservation'[r] = [reservation[r] EXCEPT !.status = "COMMITTED"]
  /\ clock < reservation[r].preparedAt + Window
  /\ clock < Expires[reservation[r].grant]
  /\ ChainActive(reservation[r].grant)
  /\ UNCHANGED <<epoch, revoked>>

\* Dropping the expired PREPAREs keeps or drops each reservation.
LEMMA ReapStep ==
  ASSUME TypeOK, reservation' = Reaped, NEW r \in Request
  PROVE  Kept(r) \/ Dropped(r)
  BY ReapedFacts DEF Kept, Dropped

LEMMA PrepareStep ==
  ASSUME TypeOK, NEW q \in Message, Prepare(q), NEW r \in Request
  PROVE  Kept(r) \/ Dropped(r) \/ Created(r)
<1>1. CASE reservation' = Reaped
  BY <1>1, ReapStep
<1>2. CASE reservation' # Reaped
  <2>1. PICK g \in Selected(q) :
          /\ Preparable(Reaped, q, g)
          /\ reservation' = [Reaped EXCEPT ![q.id] = NewReservation(q, g)]
          /\ Reaped[q.id] = NoReservation
    BY <1>2 DEF Prepare
  <2>2. q.id \in Request /\ g \in Grant
    BY DigestType, SelectedType
  <2>3. CASE r # q.id
    BY <2>1, <2>2, <2>3, ReapedFacts DEF Kept, Dropped
  <2>4. CASE r = q.id
    <3>1. reservation[r].status \in {"NONE", "PREPARED"}
      BY <2>1, <2>2, <2>4, ReapedFacts DEF NoReservation
    <3>2. reservation'[r] = NewReservation(q, g)
      BY <2>1, <2>2, <2>4, ReapedFacts
    <3>3. Live(q, g) /\ UNCHANGED <<epoch, revoked>>
      BY <2>1 DEF Preparable, Prepare, adminVars
    <3> QED
      BY <2>2, <3>1, <3>2, <3>3 DEF Created
  <2> QED
    BY <2>3, <2>4
<1> QED
  BY <1>1, <1>2

LEMMA CommitStep ==
  ASSUME TypeOK, NEW q \in Message, Commit(q), NEW r \in Request
  PROVE  Kept(r) \/ Dropped(r) \/ Bound(r)
<1>1. CASE reservation' = Reaped
  BY <1>1, ReapStep
<1>2. CASE reservation' # Reaped
  <2>1. PICK g \in Selected(q) :
          /\ Committable(Reaped, q, g)
          /\ reservation' = [Reaped EXCEPT ![q.id].status = "COMMITTED"]
    BY <1>2 DEF Commit
  <2>2. q.id \in Request /\ g \in Grant
    BY DigestType, SelectedType
  <2>3. CASE r # q.id
    BY <2>1, <2>2, <2>3, ReapedFacts DEF Kept, Dropped
  <2>4. CASE r = q.id
    <3>1. /\ Reaped[r] = reservation[r]
          /\ reservation[r] \in Reservation
          /\ reservation[r].grant = g
          /\ reservation'[r] = [reservation[r] EXCEPT !.status = "COMMITTED"]
      BY <2>1, <2>2, <2>4, ReapedFacts DEF Committable, TypeOK
    <3>2. ChainActive(g) /\ clock < Expires[g] /\ UNCHANGED <<epoch, revoked>>
      BY <2>1 DEF Committable, Live, Selected, Matching, Commit, adminVars
    <3>3. CASE reservation[r].status = "COMMITTED"
      BY <3>1, <3>3 DEF Kept, Reservation
    <3>4. CASE reservation[r].status = "PREPARED"
      <4>1. ~(clock >= reservation[r].preparedAt + Window)
        BY <2>2, <3>1, <3>4 DEF Reaped, NoReservation
      <4>2. clock < reservation[r].preparedAt + Window
        BY <3>1, <4>1, ConstantsAssumption DEF TypeOK, Reservation
      <4> QED
        BY <3>1, <3>2, <3>4, <4>2 DEF Bound
    <3> QED
      BY <3>1, <3>3, <3>4 DEF Reservation
  <2> QED
    BY <2>3, <2>4
<1> QED
  BY <1>1, <1>2

LEMMA AbortStep ==
  ASSUME TypeOK, NEW q \in Message, Abort(q), NEW r \in Request
  PROVE  Kept(r) \/ Dropped(r)
<1>1. CASE reservation' = Reaped
  BY <1>1, ReapStep
<1>2. CASE reservation' # Reaped
  <2>1. /\ Abortable(Reaped, q)
        /\ reservation' = [Reaped EXCEPT ![q.id] = NoReservation]
    BY <1>2 DEF Abort
  <2>2. q.id \in Request
    BY DigestType
  <2>3. CASE r # q.id
    BY <2>1, <2>2, <2>3, ReapedFacts DEF Kept, Dropped
  <2>4. CASE r = q.id
    BY <2>1, <2>2, <2>4, ReapedFacts DEF Abortable, Kept, Dropped
  <2> QED
    BY <2>3, <2>4
<1> QED
  BY <1>1, <1>2

\* A step keeps a reservation, drops a PREPARED one, makes a fresh one under a
\* live grant, or binds a PREPARED one inside its window.
LEMMA ReservationStep ==
  ASSUME TypeOK, [Next]_vars, NEW r \in Request
  PROVE  Kept(r) \/ Dropped(r) \/ Created(r) \/ Bound(r)
<1>1. ASSUME NEW q \in Message, EffectRequest(q)
      PROVE  Kept(r) \/ Dropped(r) \/ Created(r) \/ Bound(r)
  BY <1>1, PrepareStep, CommitStep, AbortStep, ReapStep
  DEF EffectRequest, Status
<1>2. ASSUME NEW q \in Message, Evaluate(q)
      PROVE  Kept(r) \/ Dropped(r)
  BY <1>2, ReapStep DEF Evaluate
<1>3. CASE Idle
  BY <1>3, ReapStep DEF Idle
<1>4. CASE Administer
  BY <1>4, ReapStep DEF Administer, RecordApproval, ApplyAdmin, Reconfigure, Kept
<1>5. CASE Tick
  BY <1>5 DEF Tick, Kept
<1>6. CASE UNCHANGED vars
  BY <1>6 DEF vars, Kept
<1> QED
  BY <1>1, <1>2, <1>3, <1>4, <1>5, <1>6 DEF Next

\* No schedule drops or rewrites a committed reservation.
THEOREM CommittedStays == Spec => CommittedIsPermanent
<1>1. TypeOK /\ [Next]_vars
        => [\A r \in Request : reservation[r].status = "COMMITTED"
                                => reservation'[r] = reservation[r]]_vars
  BY ReservationStep DEF Kept, Dropped, Created, Bound
<1> QED
  BY <1>1, TypeCorrect, PTL DEF Spec, CommittedIsPermanent

\* A PREPARE older than the window, or of an expired grant, is never committed.
THEOREM CommitsInsideWindow == Spec => CommitInsideWindow
<1> DEFINE InWindow ==
      \A r \in Request :
        (reservation[r].status = "PREPARED" /\ reservation'[r].status = "COMMITTED")
          => /\ clock < reservation[r].preparedAt + Window
             /\ clock < Expires[reservation[r].grant]
<1>1. ASSUME TypeOK, [Next]_vars
      PROVE  InWindow
  <2> SUFFICES ASSUME NEW r \in Request,
                      reservation[r].status = "PREPARED",
                      reservation'[r].status = "COMMITTED"
               PROVE  /\ clock < reservation[r].preparedAt + Window
                      /\ clock < Expires[reservation[r].grant]
    OBVIOUS
  <2>1. ~Kept(r)
    BY DEF Kept
  <2>2. ~Dropped(r)
    BY DEF Dropped, NoReservation
  <2>3. ~Created(r)
    <3> SUFFICES ASSUME NEW q \in Message, NEW g \in Grant,
                        reservation'[r] = NewReservation(q, g)
                 PROVE  FALSE
      BY DEF Created
    <3> QED
      BY DEF NewReservation
  <2>4. Bound(r)
    BY <1>1, <2>1, <2>2, <2>3, ReservationStep
  <2> QED
    BY <2>4 DEF Bound
<1> HIDE DEF InWindow
<1>2. TypeOK /\ [Next]_vars => [InWindow]_vars
  BY <1>1
<1>3. Spec => [][InWindow]_vars
  BY <1>2, TypeCorrect, PTL DEF Spec
<1> QED
  BY <1>3 DEF CommitInsideWindow, InWindow

-----------------------------------------------------------------------------
(* The fence of the revocation epoch *)

\* The inductive form: no reservation comes from a later epoch, so a step that
\* moves the epoch leaves every reservation behind it.
Fenced(r) ==
  reservation[r] # NoReservation
    => /\ reservation[r].epoch <= epoch
       /\ reservation[r].epoch = epoch
            => Chain[reservation[r].grant] \cap revoked = {}

FenceInv == \A r \in Request : Fenced(r)

LEMMA EpochStep ==
  ASSUME TypeOK, [Next]_vars
  PROVE  \/ epoch' = epoch /\ revoked' = revoked
         \/ epoch' = epoch + 1 /\ \A r \in Request : Kept(r) \/ Dropped(r)
<1>1. CASE Administer
  BY <1>1, ReapStep
  DEF Administer, RecordApproval, ApplyAdmin, Reconfigure, NextEpoch, Kept
<1>2. CASE ~Administer
  BY <1>2 DEF Next, EffectRequest, Prepare, Commit, Abort, Status, Evaluate,
              Idle, Tick, vars, adminVars
<1> QED
  BY <1>1, <1>2

LEMMA FenceStep == TypeOK /\ FenceInv /\ [Next]_vars => FenceInv'
<1> SUFFICES ASSUME TypeOK, FenceInv, [Next]_vars, NEW r \in Request
             PROVE  Fenced(r)'
  BY DEF FenceInv
<1>1. /\ reservation[r] \in Reservation \cup {NoReservation}
      /\ epoch \in Nat
      /\ Fenced(r)
  BY DEF TypeOK, FenceInv
<1>2. CASE epoch' = epoch + 1 /\ (Kept(r) \/ Dropped(r))
  <2>1. CASE reservation'[r] = NoReservation
    BY <2>1 DEF Fenced
  <2>2. CASE reservation'[r] # NoReservation
    <3>1. reservation'[r] = reservation[r] /\ reservation[r] \in Reservation
      BY <1>1, <1>2, <2>2 DEF Kept, Dropped
    <3>2. reservation[r].epoch <= epoch /\ reservation[r].epoch \in Nat
      BY <1>1, <2>2, <3>1 DEF Fenced, Reservation
    <3> QED
      BY <1>1, <1>2, <3>1, <3>2 DEF Fenced
  <2> QED
    BY <2>1, <2>2
<1>3. CASE epoch' = epoch /\ revoked' = revoked
  <2>1. CASE Kept(r) \/ Dropped(r)
    BY <1>1, <1>3, <2>1 DEF Kept, Dropped, Fenced
  <2>2. CASE Created(r)
    <3>1. /\ reservation'[r].epoch = epoch
          /\ Chain[reservation'[r].grant] \cap revoked = {}
      BY <2>2 DEF Created, NewReservation, Live, ChainActive
    <3> QED
      BY <1>1, <1>3, <3>1 DEF Fenced
  <2>3. CASE Bound(r)
    <3>1. /\ reservation[r] \in Reservation
          /\ reservation[r].epoch <= epoch
      BY <1>1, <2>3 DEF Bound, NoReservation, Fenced
    <3>2. /\ reservation'[r].epoch = reservation[r].epoch
          /\ reservation'[r].grant = reservation[r].grant
      BY <2>3, <3>1 DEF Bound, Reservation
    <3> QED
      BY <1>3, <2>3, <3>1, <3>2 DEF Bound, ChainActive, Fenced
  <2> QED
    BY <2>1, <2>2, <2>3, ReservationStep
<1> QED
  BY <1>2, <1>3, EpochStep

\* A reservation of the current epoch never rests on a revoked grant.
THEOREM RevocationIsFenced == Spec => []EpochFencesRevocation
<1>1. Init => FenceInv
  BY DEF Init, FenceInv, Fenced, NoReservation
<1>2. FenceInv => EpochFencesRevocation
  BY DEF FenceInv, Fenced, EpochFencesRevocation, ChainActive
<1> QED
  BY <1>1, <1>2, FenceStep, TypeCorrect, PTL DEF Spec

-----------------------------------------------------------------------------
(* The accounting of quota *)

\* The two clauses for one grant.
Sold(g) ==
  Cardinality(Committed(reservation, g)) + Cardinality(Prepared(reservation, g))
    <= Quota[g]

Metered(g) ==
  usage[g] = Cardinality(Committed(reservation, g)) + Cardinality(Charged(g))

QuotaInv == \A g \in Grant : Sold(g) /\ Metered(g)

\* Sets of requests are finite, so they have a size.
LEMMA RequestSets ==
  ASSUME NEW S, S \subseteq Request
  PROVE  IsFiniteSet(S) /\ Cardinality(S) \in Nat
  BY ConstantsAssumption, FS_Subset, FS_CardinalityType

LEMMA HolderSets ==
  ASSUME NEW held, NEW g
  PROVE  /\ Committed(held, g) \subseteq Request
         /\ Prepared(held, g) \subseteq Request
         /\ IsFiniteSet(Committed(held, g)) /\ Cardinality(Committed(held, g)) \in Nat
         /\ IsFiniteSet(Prepared(held, g)) /\ Cardinality(Prepared(held, g)) \in Nat
<1>1. Committed(held, g) \subseteq Request /\ Prepared(held, g) \subseteq Request
  BY DEF Committed, Prepared
<1> QED
  BY <1>1, RequestSets

\* Reaping releases PREPAREs and touches no committed effect.
LEMMA ReapedSets ==
  ASSUME TypeOK, NEW g \in Grant
  PROVE  /\ Committed(Reaped, g) = Committed(reservation, g)
         /\ Prepared(Reaped, g) \subseteq Prepared(reservation, g)
<1>1. \A r \in Request : /\ Reaped[r].status = "COMMITTED"
                             <=> reservation[r].status = "COMMITTED"
                         /\ Reaped[r].status # "NONE" => Reaped[r] = reservation[r]
  BY ReapedFacts DEF NoReservation
<1> QED
  BY <1>1 DEF Committed, Prepared

\* A step that commits nothing, prepares nothing and charges nothing keeps the
\* account of a grant.
LEMMA CalmStep ==
  ASSUME TypeOK, NEW g \in Grant, Sold(g), Metered(g),
         Committed(reservation', g) = Committed(reservation, g),
         Prepared(reservation', g) \subseteq Prepared(reservation, g),
         usage'[g] = usage[g], Charged(g)' = Charged(g)
  PROVE  Sold(g)' /\ Metered(g)'
<1>1. Cardinality(Prepared(reservation', g)) <= Cardinality(Prepared(reservation, g))
  BY HolderSets, FS_Subset
<1>2. Quota[g] \in Nat
  BY ConstantsAssumption
<1>3. Sold(g)'
  BY <1>1, <1>2, HolderSets DEF Sold
<1>4. Metered(g)'
  BY DEF Metered
<1> QED
  BY <1>3, <1>4

LEMMA ReapQuota ==
  ASSUME TypeOK, NEW g \in Grant, Sold(g), Metered(g),
         reservation' = Reaped, usage' = usage, charged' = charged
  PROVE  Sold(g)' /\ Metered(g)'
<1>1. Charged(g)' = Charged(g)
  BY DEF Charged
<1> QED
  BY <1>1, ReapedSets, CalmStep

LEMMA PrepareQuota ==
  ASSUME TypeOK, NEW h \in Grant, Sold(h), Metered(h),
         NEW q \in Message, Prepare(q)
  PROVE  Sold(h)' /\ Metered(h)'
<1>1. usage' = usage /\ charged' = charged /\ Charged(h)' = Charged(h)
  BY DEF Prepare, quotaVars, Charged
<1>2. CASE reservation' = Reaped
  BY <1>1, <1>2, ReapQuota
<1>3. CASE reservation' # Reaped
  <2>1. PICK g \in Selected(q) :
          /\ Reaped[q.id] = NoReservation
          /\ Preparable(Reaped, q, g)
          /\ reservation' = [Reaped EXCEPT ![q.id] = NewReservation(q, g)]
    BY <1>3 DEF Prepare
  <2>2. q.id \in Request /\ g \in Grant /\ HasCapacity(Reaped, g)
    BY <2>1, DigestType, SelectedType DEF Preparable
  <2>3. /\ \A r \in Request \ {q.id} : reservation'[r] = Reaped[r]
        /\ reservation'[q.id].status = "PREPARED"
        /\ reservation'[q.id].grant = g
        /\ Reaped[q.id].status = "NONE"
    BY <2>1, <2>2, ReapedFacts DEF NewReservation, NoReservation
  <2>4. Committed(reservation', h) = Committed(Reaped, h)
    BY <2>3 DEF Committed
  <2>5. CASE h \notin Chain[g]
    <3>1. Prepared(reservation', h) = Prepared(Reaped, h)
      BY <2>3, <2>5 DEF Prepared
    <3> QED
      BY <1>1, <2>4, <3>1, ReapedSets, CalmStep
  <2>6. CASE h \in Chain[g]
    <3>1. Prepared(reservation', h) = Prepared(Reaped, h) \cup {q.id}
      BY <2>2, <2>3, <2>6 DEF Prepared
    <3>2. Cardinality(Prepared(reservation', h))
            <= Cardinality(Prepared(Reaped, h)) + 1
      <4>1. IsFiniteSet(Prepared(Reaped, h))
              /\ Cardinality(Prepared(Reaped, h)) \in Nat
        BY HolderSets
      <4>2. Cardinality(Prepared(Reaped, h) \cup {q.id}) =
              IF q.id \in Prepared(Reaped, h)
              THEN Cardinality(Prepared(Reaped, h))
              ELSE Cardinality(Prepared(Reaped, h)) + 1
        BY <4>1, FS_AddElement
      <4> QED
        BY <3>1, <4>1, <4>2
    <3>3. usage[h] + Cardinality(Prepared(Reaped, h)) < Quota[h]
      BY <2>2, <2>6 DEF HasCapacity
    <3>4. Charged(h) \subseteq Request /\ Cardinality(Charged(h)) \in Nat
      BY RequestSets DEF Charged
    <3>5. Cardinality(Committed(reservation', h)) <= usage[h]
      BY <2>4, <3>4, HolderSets, ReapedSets DEF Metered
    <3>6. usage[h] \in Nat /\ Quota[h] \in Nat
      BY ConstantsAssumption DEF TypeOK
    <3>7. Sold(h)'
      BY <3>2, <3>3, <3>5, <3>6, HolderSets DEF Sold
    <3>8. Metered(h)'
      BY <1>1, <2>4, ReapedSets DEF Metered
    <3> QED
      BY <3>7, <3>8
  <2> QED
    BY <2>5, <2>6
<1> QED
  BY <1>2, <1>3

LEMMA CommitQuota ==
  ASSUME TypeOK, NEW h \in Grant, Sold(h), Metered(h),
         NEW q \in Message, Commit(q)
  PROVE  Sold(h)' /\ Metered(h)'
<1>1. charged' = charged /\ Charged(h)' = Charged(h)
  BY DEF Commit, Charged
<1>2. CASE reservation' = Reaped /\ usage' = usage
  BY <1>1, <1>2, ReapQuota
<1>3. CASE ~(reservation' = Reaped /\ usage' = usage)
  <2>1. PICK g \in Selected(q) :
          /\ Committable(Reaped, q, g)
          /\ reservation' = [Reaped EXCEPT ![q.id].status = "COMMITTED"]
          /\ usage' = [k \in Grant |-> IF Consumes(Reaped, q, g, k)
                                       THEN usage[k] + 1 ELSE usage[k]]
    BY <1>3 DEF Commit
  <2>2. q.id \in Request /\ g \in Grant
    BY DigestType, SelectedType
  <2>3. Reaped[q.id] \in Reservation /\ Reaped[q.id].grant = g
    BY <2>1, <2>2, ReapedFacts DEF Committable
  <2>4. /\ \A r \in Request \ {q.id} : reservation'[r] = Reaped[r]
        /\ reservation'[q.id] = [Reaped[q.id] EXCEPT !.status = "COMMITTED"]
    BY <2>1, <2>2, ReapedFacts
  <2>5. reservation'[q.id].status = "COMMITTED" /\ reservation'[q.id].grant = g
    BY <2>3, <2>4 DEF Reservation
  <2>6. CASE Consumes(Reaped, q, g, h)
    <3>1. /\ Reaped[q.id].status = "PREPARED" /\ h \in Chain[g]
          /\ usage'[h] = usage[h] + 1
      BY <2>1, <2>6 DEF Consumes
    <3>2. /\ Committed(reservation', h) = Committed(Reaped, h) \cup {q.id}
          /\ q.id \notin Committed(Reaped, h)
      <4>1. q.id \in Committed(reservation', h) /\ q.id \notin Committed(Reaped, h)
        BY <2>2, <2>5, <3>1 DEF Committed
      <4>2. \A r \in Request \ {q.id} :
              r \in Committed(reservation', h) <=> r \in Committed(Reaped, h)
        BY <2>4 DEF Committed
      <4> QED
        BY <2>2, <4>1, <4>2, HolderSets
    <3>3. /\ Prepared(reservation', h) = Prepared(Reaped, h) \ {q.id}
          /\ q.id \in Prepared(Reaped, h)
      <4>1. q.id \in Prepared(Reaped, h) /\ q.id \notin Prepared(reservation', h)
        BY <2>2, <2>3, <2>5, <3>1 DEF Prepared
      <4>2. \A r \in Request \ {q.id} :
              r \in Prepared(reservation', h) <=> r \in Prepared(Reaped, h)
        BY <2>4 DEF Prepared
      <4>3. Prepared(reservation', h) \subseteq Request /\ Prepared(Reaped, h) \subseteq Request
        BY DEF Prepared
      <4> QED
        BY <4>1, <4>2, <4>3
    <3>4. Cardinality(Committed(reservation', h)) = Cardinality(Committed(reservation, h)) + 1
      <4>1. /\ IsFiniteSet(Committed(Reaped, h))
            /\ Committed(Reaped, h) = Committed(reservation, h)
        BY HolderSets, ReapedSets
      <4>2. Cardinality(Committed(Reaped, h) \cup {q.id}) = Cardinality(Committed(Reaped, h)) + 1
        BY <3>2, <4>1, FS_AddElement
      <4> QED
        BY <3>2, <4>1, <4>2
    <3>5. Cardinality(Prepared(reservation', h)) = Cardinality(Prepared(Reaped, h)) - 1
      <4>1. IsFiniteSet(Prepared(Reaped, h))
        BY HolderSets
      <4>2. Cardinality(Prepared(Reaped, h) \ {q.id}) =
              IF q.id \in Prepared(Reaped, h)
              THEN Cardinality(Prepared(Reaped, h)) - 1
              ELSE Cardinality(Prepared(Reaped, h))
        BY <4>1, FS_RemoveElement
      <4> QED
        BY <3>3, <4>2
    <3>6. Cardinality(Prepared(Reaped, h)) <= Cardinality(Prepared(reservation, h))
      BY ReapedSets, HolderSets, FS_Subset
    <3>7. /\ usage[h] \in Nat /\ Quota[h] \in Nat
          /\ Charged(h) \subseteq Request /\ Cardinality(Charged(h)) \in Nat
      BY ConstantsAssumption, RequestSets DEF TypeOK, Charged
    <3>8. Sold(h)'
      BY <3>4, <3>5, <3>6, <3>7, HolderSets DEF Sold
    <3>9. Metered(h)'
      BY <1>1, <3>1, <3>4, <3>7, HolderSets DEF Metered
    <3> QED
      BY <3>8, <3>9
  <2>7. CASE ~Consumes(Reaped, q, g, h)
    <3>1. usage'[h] = usage[h]
      BY <2>1, <2>7
    <3>2. CASE Reaped[q.id].status = "COMMITTED"
      <4>1. /\ Committed(reservation', h) = Committed(Reaped, h)
            /\ Prepared(reservation', h) = Prepared(Reaped, h)
        BY <2>2, <2>3, <2>4, <2>5, <3>2 DEF Committed, Prepared
      <4> QED
        BY <1>1, <3>1, <4>1, ReapedSets, CalmStep
    <3>3. CASE h \notin Chain[g]
      <4>1. /\ Committed(reservation', h) = Committed(Reaped, h)
            /\ Prepared(reservation', h) = Prepared(Reaped, h)
        <5>1. ASSUME NEW r \in Request
              PROVE  /\ r \in Committed(reservation', h) <=> r \in Committed(Reaped, h)
                     /\ r \in Prepared(reservation', h) <=> r \in Prepared(Reaped, h)
          <6>1. CASE r = q.id
            BY <2>3, <2>5, <3>3, <6>1 DEF Committed, Prepared
          <6>2. CASE r # q.id
            BY <2>4, <6>2 DEF Committed, Prepared
          <6> QED
            BY <6>1, <6>2
        <5>2. /\ Committed(reservation', h) \subseteq Request
              /\ Committed(Reaped, h) \subseteq Request
              /\ Prepared(reservation', h) \subseteq Request
              /\ Prepared(Reaped, h) \subseteq Request
          BY HolderSets
        <5>3. Committed(reservation', h) = Committed(Reaped, h)
          BY <5>1, <5>2
        <5>4. Prepared(reservation', h) = Prepared(Reaped, h)
          BY <5>1, <5>2
        <5> QED
          BY <5>3, <5>4
      <4> QED
        BY <1>1, <3>1, <4>1, ReapedSets, CalmStep
    <3> QED
      BY <2>3, <2>7, <3>2, <3>3 DEF Consumes, Reservation
  <2> QED
    BY <2>6, <2>7
<1> QED
  BY <1>2, <1>3

LEMMA AbortQuota ==
  ASSUME TypeOK, NEW h \in Grant, Sold(h), Metered(h),
         NEW q \in Message, Abort(q)
  PROVE  Sold(h)' /\ Metered(h)'
<1>1. usage' = usage /\ charged' = charged /\ Charged(h)' = Charged(h)
  BY DEF Abort, quotaVars, Charged
<1>2. CASE reservation' = Reaped
  BY <1>1, <1>2, ReapQuota
<1>3. CASE reservation' # Reaped
  <2>1. /\ Abortable(Reaped, q)
        /\ reservation' = [Reaped EXCEPT ![q.id] = NoReservation]
        /\ q.id \in Request
    BY <1>3, DigestType DEF Abort
  <2>2. /\ \A r \in Request \ {q.id} : reservation'[r] = Reaped[r]
        /\ reservation'[q.id].status = "NONE"
        /\ Reaped[q.id].status # "COMMITTED"
    BY <2>1, ReapedFacts DEF Abortable, NoReservation
  <2>3. /\ Committed(reservation', h) = Committed(Reaped, h)
        /\ Prepared(reservation', h) \subseteq Prepared(Reaped, h)
    BY <2>2 DEF Committed, Prepared
  <2> QED
    BY <1>1, <2>3, ReapedSets, CalmStep
<1> QED
  BY <1>2, <1>3

LEMMA EvaluateQuota ==
  ASSUME TypeOK, NEW h \in Grant, Sold(h), Metered(h),
         NEW q \in Message, Evaluate(q)
  PROVE  Sold(h)' /\ Metered(h)'
<1>1. /\ reservation' = Reaped
      /\ Committed(reservation', h) = Committed(reservation, h)
      /\ Prepared(reservation', h) \subseteq Prepared(reservation, h)
  BY ReapedSets DEF Evaluate
<1>2. CASE usage' = usage /\ charged' = charged
  BY <1>1, <1>2, ReapQuota
<1>3. CASE ~(usage' = usage /\ charged' = charged)
  <2>1. PICK g \in Selected(q) :
          /\ Evaluable(q, g)
          /\ charged' = [charged EXCEPT ![q.id] = Chain[g]]
          /\ usage' = [k \in Grant |-> IF charged[q.id] = {} /\ k \in Chain[g]
                                       THEN usage[k] + 1 ELSE usage[k]]
    BY <1>3 DEF Evaluate, quotaVars
  <2>2. q.id \in Request /\ g \in Grant
    BY DigestType, SelectedType
  <2>3. /\ \A r \in Request \ {q.id} : charged'[r] = charged[r]
        /\ charged'[q.id] = Chain[g]
    BY <2>1, <2>2 DEF TypeOK
  <2>4. CASE charged[q.id] = {} /\ h \in Chain[g]
    <3>1. Charged(h)' = Charged(h) \cup {q.id} /\ q.id \notin Charged(h)
      BY <2>2, <2>3, <2>4 DEF Charged
    <3>2. Charged(h) \subseteq Request
      BY DEF Charged
    <3>3. /\ Cardinality(Charged(h)') = Cardinality(Charged(h)) + 1
          /\ Cardinality(Charged(h)) \in Nat
      BY <3>1, <3>2, RequestSets, FS_AddElement
    <3>4. usage'[h] = usage[h] + 1 /\ usage[h] \in Nat /\ Quota[h] \in Nat
      BY <2>1, <2>4, ConstantsAssumption DEF TypeOK
    <3>5. Metered(h)'
      BY <1>1, <3>3, <3>4, HolderSets DEF Metered
    <3>6. Cardinality(Prepared(reservation', h))
            <= Cardinality(Prepared(reservation, h))
      BY <1>1, HolderSets, FS_Subset
    <3>7. Sold(h)'
      BY <1>1, <3>4, <3>6, HolderSets DEF Sold
    <3> QED
      BY <3>5, <3>7
  <2>5. CASE ~(charged[q.id] = {} /\ h \in Chain[g])
    <3>1. usage'[h] = usage[h]
      BY <2>1, <2>5
    <3>2. Charged(h)' = Charged(h)
      BY <2>1, <2>2, <2>3, <2>5 DEF Charged, Evaluable
    <3> QED
      BY <1>1, <3>1, <3>2, CalmStep
  <2> QED
    BY <2>4, <2>5
<1> QED
  BY <1>2, <1>3

LEMMA QuotaStep == TypeOK /\ QuotaInv /\ [Next]_vars => QuotaInv'
<1> SUFFICES ASSUME TypeOK, QuotaInv, [Next]_vars, NEW g \in Grant
             PROVE  Sold(g)' /\ Metered(g)'
  BY DEF QuotaInv
<1>1. Sold(g) /\ Metered(g)
  BY DEF QuotaInv
<1>2. ASSUME NEW q \in Message, EffectRequest(q) \/ Evaluate(q)
      PROVE  Sold(g)' /\ Metered(g)'
  <2>1. CASE Status(q)
    BY <1>1, <2>1, ReapQuota DEF Status, quotaVars
  <2> QED
    BY <1>1, <1>2, <2>1, PrepareQuota, CommitQuota, AbortQuota, EvaluateQuota
    DEF EffectRequest
<1>3. CASE Idle
  BY <1>1, <1>3, ReapQuota DEF Idle, quotaVars
<1>4. CASE Tick \/ UNCHANGED vars
  <2>1. reservation' = reservation /\ usage' = usage /\ charged' = charged
    BY <1>4 DEF Tick, vars, quotaVars
  <2> QED
    BY <1>1, <2>1 DEF Sold, Metered, Committed, Prepared, Charged
<1>5. CASE Administer
  <2>1. /\ reservation' = Reaped \/ reservation' = reservation
        /\ usage' = usage /\ charged' = charged
    BY <1>5 DEF Administer, RecordApproval, ApplyAdmin, Reconfigure, quotaVars
  <2>2. CASE reservation' = Reaped
    BY <1>1, <2>1, <2>2, ReapQuota
  <2>3. CASE reservation' = reservation
    BY <1>1, <2>1, <2>3 DEF Sold, Metered, Committed, Prepared, Charged
  <2> QED
    BY <2>1, <2>2, <2>3
<1> QED
  BY <1>2, <1>3, <1>4, <1>5 DEF Next

LEMMA QuotaInit == Init => QuotaInv
<1> SUFFICES ASSUME Init, NEW g \in Grant
             PROVE  Sold(g) /\ Metered(g)
  BY DEF QuotaInv
<1>1. /\ Committed(reservation, g) = {} /\ Prepared(reservation, g) = {}
      /\ Charged(g) = {} /\ usage[g] = 0
  BY DEF Init, Committed, Prepared, Charged, NoReservation
<1>2. Quota[g] \in Nat
  BY ConstantsAssumption
<1> QED
  BY <1>1, <1>2, FS_EmptySet DEF Sold, Metered

LEMMA QuotaCorrect == Spec => []QuotaInv
  BY QuotaInit, QuotaStep, TypeCorrect, PTL DEF Spec

\* Effects never hold more of a grant than its quota, for any hierarchy of
\* grants and however many requests contend.
THEOREM EffectsWithinQuota == Spec => []EffectQuota
<1>1. QuotaInv => EffectQuota
  BY DEF QuotaInv, Sold, EffectQuota
<1> QED
  BY <1>1, QuotaCorrect, PTL

\* The usage counter equals the commits and charges it stands for.
THEOREM UsageIsExact == Spec => []UsageExact
<1>1. QuotaInv => UsageExact
  BY DEF QuotaInv, Metered, UsageExact
<1> QED
  BY <1>1, QuotaCorrect, PTL

-----------------------------------------------------------------------------
(* The meaning of AUTHORIZED *)

\* A reservation is made for the state version that its request names.
Stamped(r) ==
  reservation[r] # NoReservation => reservation[r].digest.version = reservation[r].state

StampInv == \A r \in Request : Stamped(r)

LEMMA StampStep == TypeOK /\ StampInv /\ [Next]_vars => StampInv'
<1> SUFFICES ASSUME TypeOK, StampInv, [Next]_vars, NEW r \in Request
             PROVE  Stamped(r)'
  BY DEF StampInv
<1>1. Stamped(r) /\ reservation[r] \in Reservation \cup {NoReservation}
  BY DEF StampInv, TypeOK
<1>2. CASE Kept(r) \/ Dropped(r)
  BY <1>1, <1>2 DEF Kept, Dropped, Stamped
<1>3. CASE Created(r)
  BY <1>3 DEF Created, NewReservation, DigestOf, Live, Stamped
<1>4. CASE Bound(r)
  <2>1. reservation[r] \in Reservation /\ reservation[r] # NoReservation
    BY <1>1, <1>4 DEF Bound, NoReservation
  <2>2. /\ reservation'[r].digest = reservation[r].digest
        /\ reservation'[r].state = reservation[r].state
    BY <1>4, <2>1 DEF Bound, Reservation
  <2> QED
    BY <1>1, <2>1, <2>2 DEF Stamped
<1> QED
  BY <1>2, <1>3, <1>4, ReservationStep

\* AUTHORIZED is said of a reservation that is committed for this very request.
LEMMA AnswerBinds ==
  ASSUME TypeOK, NEW q \in Message, Commit(q) \/ Status(q),
         reply'.code = "AUTHORIZED"
  PROVE  /\ reservation'[q.id].status = "COMMITTED"
         /\ reservation'[q.id].digest = DigestOf(q)
<1>1. q.id \in Request
  BY DigestType
<1>2. CASE Commit(q)
  <2>1. PICK g \in Selected(q) :
          /\ Committable(Reaped, q, g)
          /\ reservation' = [Reaped EXCEPT ![q.id].status = "COMMITTED"]
    BY <1>2 DEF Commit, Answer
  <2>2. /\ Reaped[q.id] \in Reservation
        /\ reservation'[q.id] = [Reaped[q.id] EXCEPT !.status = "COMMITTED"]
    BY <1>1, <2>1, ReapedFacts DEF Committable
  <2> QED
    BY <2>1, <2>2 DEF Committable, Reservation
<1>3. CASE Status(q)
  <2>1. reservation'[q.id] = Reaped[q.id] /\ StatusCode(Reaped, q) = "AUTHORIZED"
    BY <1>3 DEF Status, Answer
  <2>2. Reaped[q.id] # NoReservation /\ ~Conflicting(Reaped, q)
    BY <2>1 DEF StatusCode
  <2>3. Reaped[q.id].status \in {"PREPARED", "COMMITTED"}
    BY <1>1, <2>2, ReapedFacts, StatusOfReservation
  <2>4. Reaped[q.id].status = "COMMITTED"
    BY <2>1, <2>2, <2>3 DEF StatusCode
  <2> QED
    BY <2>1, <2>2, <2>4 DEF Conflicting
<1> QED
  BY <1>2, <1>3

\* What the answer AUTHORIZED says of the reservation it is about.
Vouched(q) ==
  /\ reservation'[q.id].status = "COMMITTED"
  /\ ChainActive(reservation'[q.id].grant)
  /\ reservation'[q.id].digest.version = stateVersion

LEMMA CommitVouches ==
  ASSUME TypeOK, NEW q \in Message, Commit(q), reply'.code = "AUTHORIZED"
  PROVE  Vouched(q)
<1>1. PICK g \in Selected(q) :
        /\ Committable(Reaped, q, g)
        /\ reservation' = [Reaped EXCEPT ![q.id].status = "COMMITTED"]
  BY DEF Commit, Answer
<1>2. q.id \in Request /\ Reaped[q.id] \in Reservation
  BY <1>1, DigestType, ReapedFacts DEF Committable
<1>3. reservation'[q.id] = [Reaped[q.id] EXCEPT !.status = "COMMITTED"]
  BY <1>1, <1>2, ReapedFacts
<1>4. /\ reservation'[q.id].status = "COMMITTED"
      /\ reservation'[q.id].grant = g
      /\ reservation'[q.id].digest = DigestOf(q)
  BY <1>1, <1>2, <1>3 DEF Committable, Reservation
<1> QED
  BY <1>1, <1>4 DEF Vouched, Committable, Live, DigestOf

LEMMA StatusVouches ==
  ASSUME TypeOK, StampInv, FenceInv, NEW q \in Message, Status(q),
         reply'.code = "AUTHORIZED"
  PROVE  Vouched(q)
<1>1. q.id \in Request /\ reservation'[q.id] = Reaped[q.id]
  BY DigestType DEF Status
<1>2. StatusCode(Reaped, q) = "AUTHORIZED"
  BY DEF Status, Answer
<1>3. /\ Reaped[q.id] # NoReservation
      /\ Reaped[q.id].status = "COMMITTED"
      /\ Current(Reaped, q.id)
  <2>1. Reaped[q.id].status \in {"NONE", "PREPARED", "COMMITTED"}
    BY <1>1, ReapedFacts, StatusOfReservation
  <2>2. Reaped[q.id] # NoReservation /\ ~Conflicting(Reaped, q)
    BY <1>2 DEF StatusCode
  <2>3. Reaped[q.id].status \in {"PREPARED", "COMMITTED"}
    BY <1>1, <2>1, <2>2, ReapedFacts, StatusOfReservation
  <2> QED
    BY <1>2, <2>2, <2>3 DEF StatusCode
<1>4. Reaped[q.id] = reservation[q.id]
  BY <1>1, <1>3, ReapedFacts
<1>5. Fenced(q.id) /\ Stamped(q.id)
  BY <1>1 DEF FenceInv, StampInv
<1>6. /\ Chain[reservation[q.id].grant] \cap revoked = {}
      /\ reservation[q.id].digest.version = stateVersion
  BY <1>3, <1>4, <1>5 DEF Fenced, Stamped, Current
<1> QED
  BY <1>1, <1>3, <1>4, <1>6 DEF Vouched, ChainActive

\* AUTHORIZED is said only of a committed reservation whose chain and state version
\* stand, whenever it is asked for.
THEOREM AuthorizedStands == Spec => AuthorizedIsCurrent
<1> DEFINE Stands ==
      (/\ reply'.phase \in {"COMMIT", "STATUS"} /\ reply'.code = "AUTHORIZED"
       /\ reply' # reply)
        => LET held == reservation'[reply'.id] IN
           /\ held.status = "COMMITTED"
           /\ ChainActive(held.grant)
           /\ held.digest.version = stateVersion
<1>1. ASSUME TypeOK, StampInv, FenceInv, [Next]_vars
      PROVE  Stands
  <2> SUFFICES ASSUME reply'.phase \in {"COMMIT", "STATUS"},
                      reply'.code = "AUTHORIZED", reply' # reply
               PROVE  LET held == reservation'[reply'.id] IN
                      /\ held.status = "COMMITTED"
                      /\ ChainActive(held.grant)
                      /\ held.digest.version = stateVersion
    OBVIOUS
  <2>1. ~Idle /\ ~Tick /\ ~UNCHANGED vars
    BY DEF Idle, Tick, vars
  <2>2. ~Administer
    BY DEF Administer, RecordApproval, ApplyAdmin, Reconfigure
  <2>3. PICK q \in Message : EffectRequest(q) \/ Evaluate(q)
    BY <1>1, <2>1, <2>2 DEF Next
  <2>4. ~Prepare(q) /\ ~Abort(q) /\ ~Evaluate(q)
    BY DEF Prepare, Abort, Evaluate, Answer
  <2>5. Commit(q) \/ Status(q)
    BY <2>3, <2>4 DEF EffectRequest
  <2>6. Vouched(q)
    BY <1>1, <2>5, CommitVouches, StatusVouches
  <2>7. reply'.id = q.id
    BY <2>5 DEF Commit, Status, Answer
  <2> QED
    BY <2>6, <2>7 DEF Vouched
<1> HIDE DEF Stands
<1>2. TypeOK /\ StampInv /\ FenceInv /\ [Next]_vars => [Stands]_vars
  BY <1>1
<1>3. Init => StampInv /\ FenceInv
  BY DEF Init, StampInv, Stamped, FenceInv, Fenced, NoReservation
<1>4. Spec => [][Stands]_vars
  BY <1>2, <1>3, StampStep, FenceStep, TypeCorrect, PTL DEF Spec
<1> QED
  BY <1>4 DEF AuthorizedIsCurrent, Stands

-----------------------------------------------------------------------------
(* Approvals *)

Spent(id) == {a \in Approval : usedBy[a] = id}

LEMMA ApprovalStep ==
  TypeOK /\ OneApprovalPerOperation /\ [Next]_vars => OneApprovalPerOperation'
<1> SUFFICES ASSUME TypeOK, OneApprovalPerOperation, [Next]_vars, NEW i \in AdminId
             PROVE  IF applied'[i] = Nothing THEN Spent(i)' = {}
                    ELSE \E a \in Approval : Spent(i)' = {a} /\ approvals'[a] = <<i, applied'[i]>>
  BY DEF OneApprovalPerOperation, Spent
<1>1. IF applied[i] = Nothing THEN Spent(i) = {}
      ELSE \E a \in Approval : Spent(i) = {a} /\ approvals[a] = <<i, applied[i]>>
  BY DEF OneApprovalPerOperation, Spent
<1>2. ASSUME NEW a \in Approval, NEW id \in AdminId, NEW op \in AdminOp,
             RecordApproval(a, id, op)
      PROVE  IF applied'[i] = Nothing THEN Spent(i)' = {}
             ELSE \E b \in Approval : Spent(i)' = {b} /\ approvals'[b] = <<i, applied'[i]>>
  <2>1. Spent(i)' = Spent(i) /\ applied' = applied
    BY <1>2 DEF RecordApproval, Spent
  <2>2. CASE applied[i] = Nothing
    BY <1>1, <2>1, <2>2
  <2>3. CASE applied[i] # Nothing
    <3>1. PICK b \in Approval : Spent(i) = {b} /\ approvals[b] = <<i, applied[i]>>
      BY <1>1, <2>3
    <3>2. <<i, applied[i]>> \in AdminId \X AdminOp
      BY <2>3 DEF TypeOK
    <3>3. approvals[b] # Nothing
      BY <3>1, <3>2, ConstantsAssumption
    <3>4. approvals'[b] = approvals[b]
      BY <1>2, <3>3 DEF RecordApproval, TypeOK
    <3> QED
      BY <2>1, <2>3, <3>1, <3>4
  <2> QED
    BY <2>2, <2>3
<1>3. ASSUME NEW a \in Approval, NEW id \in AdminId, NEW op \in AdminOp,
             ApplyAdmin(a, id, op)
      PROVE  IF applied'[i] = Nothing THEN Spent(i)' = {}
             ELSE \E b \in Approval : Spent(i)' = {b} /\ approvals'[b] = <<i, applied'[i]>>
  <2>1. /\ applied[id] = Nothing /\ approvals[a] = <<id, op>> /\ usedBy[a] = Nothing
        /\ usedBy' = [usedBy EXCEPT ![a] = id]
        /\ applied' = [applied EXCEPT ![id] = op]
        /\ approvals' = approvals
    BY <1>3 DEF ApplyAdmin, Approved
  <2>2. op # Nothing /\ i # Nothing /\ id # Nothing
    BY ConstantsAssumption
  <2>3. CASE i = id
    <3>1. Spent(i) = {}
      BY <1>1, <2>1, <2>3
    <3>2. Spent(i)' = {a}
      BY <2>1, <2>3, <3>1 DEF Spent, TypeOK
    <3>3. applied'[i] = op
      BY <2>1, <2>3 DEF TypeOK
    <3> QED
      BY <2>1, <2>2, <2>3, <3>2, <3>3
  <2>4. CASE i # id
    <3>1. Spent(i)' = Spent(i)
      BY <2>1, <2>2, <2>4 DEF Spent, TypeOK
    <3>2. applied'[i] = applied[i]
      BY <2>1, <2>4 DEF TypeOK
    <3> QED
      BY <1>1, <2>1, <3>1, <3>2
  <2> QED
    BY <2>3, <2>4
<1>4. CASE UNCHANGED <<approvals, usedBy, applied>>
  BY <1>1, <1>4 DEF Spent
<1>5. CASE Administer
  <2>1. CASE \E v \in Version : Reconfigure(v)
    BY <1>4, <2>1 DEF Reconfigure
  <2> QED
    BY <1>2, <1>3, <1>5, <2>1 DEF Administer
<1>6. CASE ~Administer
  BY <1>4, <1>6 DEF Next, EffectRequest, Prepare, Commit, Abort, Status, Evaluate,
                    Idle, Tick, vars, adminVars
<1> QED
  BY <1>5, <1>6

\* Every admin operation that took effect has spent one approval of its own.
THEOREM ApprovalsAreSpentOnce == Spec => []OneApprovalPerOperation
<1>1. Init => OneApprovalPerOperation
  BY ConstantsAssumption DEF Init, OneApprovalPerOperation
<1> QED
  BY <1>1, ApprovalStep, TypeCorrect, PTL DEF Spec

-----------------------------------------------------------------------------
(* One licence for many requests *)

\* A version that is in force has been seen, so only a new one succeeds it.
VersionInv == stateVersion \in history

LicenceInv == TypeOK /\ QuotaInv /\ StampInv /\ FenceInv /\ VersionInv

LEMMA VersionStep == VersionInv /\ [Next]_vars => VersionInv'
<1> SUFFICES ASSUME VersionInv, [Next]_vars
             PROVE  VersionInv'
  OBVIOUS
<1>1. CASE Administer
  BY <1>1 DEF Administer, RecordApproval, ApplyAdmin, Revoke, Rotate, Reconfigure, VersionInv
<1>2. CASE ~Administer
  <2>1. UNCHANGED <<stateVersion, history>>
    <3>1. ASSUME NEW q \in Message, EffectRequest(q) \/ Evaluate(q)
          PROVE  UNCHANGED adminVars
      BY <3>1 DEF EffectRequest, Prepare, Commit, Abort, Status, Evaluate
    <3> QED
      BY <1>2, <3>1 DEF Next, Idle, Tick, vars, adminVars
  <2> QED
    BY <2>1 DEF VersionInv
<1> QED
  BY <1>1, <1>2

\* Licence counts as the broker does.
LEMMA SameSize == ASSUME NEW S PROVE Licences!Cardinality(S) = Cardinality(S)
  BY Zenon DEF Cardinality, Licences!Cardinality

LEMMA HoldersCommitted ==
  ASSUME NEW h
  PROVE  Licences!Holders(h) = Committed(reservation, h)
  BY DEF Licences!Holders, Licensed, Committed

\* Only a commit makes a licence.
LEMMA NoNewLicence ==
  ASSUME TypeOK, \A r \in Request : Kept(r) \/ Dropped(r) \/ Created(r)
  PROVE  Licensed' = Licensed
<1>1. ASSUME NEW r \in Request
      PROVE  /\ reservation'[r].status = "COMMITTED" <=> reservation[r].status = "COMMITTED"
             /\ reservation[r].status = "COMMITTED" => reservation'[r] = reservation[r]
  <2>1. CASE Kept(r)
    BY <2>1 DEF Kept
  <2>2. CASE Dropped(r)
    BY <2>2 DEF Dropped, NoReservation
  <2>3. CASE Created(r)
    <3>1. reservation'[r].status = "PREPARED"
      BY <2>3 DEF Created, NewReservation
    <3> QED
      BY <2>3, <3>1 DEF Created
  <2> QED
    BY <2>1, <2>2, <2>3
<1> QED
  BY <1>1 DEF Licensed

LEMMA ReapedLicences ==
  ASSUME TypeOK, reservation' = Reaped
  PROVE  Licensed' = Licensed
  BY ReapStep, NoNewLicence

\* An answer that calls nothing AUTHORIZED, or only an EVALUATE.
LEMMA SilentAnswer ==
  ASSUME NEW phase, NEW q, NEW code, Answer(phase, q, code),
         phase \notin {"COMMIT", "STATUS"} \/ code # "AUTHORIZED"
  PROVE  Told' = {}
  BY DEF Answer, Told

LEMMA LoudAnswer ==
  ASSUME NEW phase \in {"COMMIT", "STATUS"}, NEW q, Answer(phase, q, "AUTHORIZED")
  PROVE  Told' = {q.id}
  BY DEF Answer, Told

LEMMA PrepareLicences ==
  ASSUME TypeOK, NEW q \in Message, Prepare(q)
  PROVE  Licences!Silence
<1>1. Licensed' = Licensed
  BY PrepareStep, NoNewLicence
<1>2. Told' = {}
  BY SilentAnswer DEF Prepare
<1> QED
  BY <1>1, <1>2 DEF Prepare, quotaVars, adminVars, Licences!Silence, Licences!account,
                    Licences!authority

LEMMA AbortLicences ==
  ASSUME TypeOK, NEW q \in Message, Abort(q)
  PROVE  Licences!Silence
<1>1. Licensed' = Licensed
  BY AbortStep, NoNewLicence
<1>2. Told' = {}
  BY SilentAnswer DEF Abort
<1> QED
  BY <1>1, <1>2 DEF Abort, quotaVars, adminVars, Licences!Silence, Licences!account,
                    Licences!authority

\* An effect that is committed, under an authority that stands, may be confirmed.
LEMMA VouchedConfirms ==
  ASSUME TypeOK, NEW q \in Message, Vouched(q), Licensed' = Licensed, Told' = {q.id},
         UNCHANGED <<quotaVars, adminVars>>
  PROVE  Licences!Next
<1>1. q.id \in Request
  BY DigestType
<1>2. /\ q.id \in DOMAIN Licensed'
      /\ Licensed'[q.id].grant = reservation'[q.id].grant
      /\ Licensed'[q.id].version = reservation'[q.id].digest.version
  BY <1>1 DEF Licensed, Vouched
<1>3. Licences!Confirm(q.id)
  BY <1>2 DEF Vouched, ChainActive, quotaVars, adminVars, Licences!Confirm, Licences!Stands,
              Licences!account, Licences!authority
<1> QED
  BY <1>1, <1>3 DEF Licences!Next

LEMMA StatusLicences ==
  ASSUME LicenceInv, NEW q \in Message, Status(q)
  PROVE  Licences!Next
<1>1. Licensed' = Licensed
  BY ReapedLicences DEF LicenceInv, Status
<1>2. CASE StatusCode(Reaped, q) = "AUTHORIZED"
  <2>1. Told' = {q.id} /\ Vouched(q)
    BY <1>2, LoudAnswer, StatusVouches DEF LicenceInv, Status, Answer
  <2> QED
    BY <1>1, <2>1, VouchedConfirms DEF LicenceInv, Status
<1>3. CASE StatusCode(Reaped, q) # "AUTHORIZED"
  <2>1. Told' = {}
    BY <1>3, SilentAnswer DEF Status
  <2>2. Licences!Silence
    BY <1>1, <2>1 DEF Status, quotaVars, adminVars, Licences!Silence, Licences!account,
                      Licences!authority
  <2> QED
    BY <2>2 DEF Licences!Next
<1> QED
  BY <1>2, <1>3

\* The room that PREPARE reserved is there when COMMIT uses it.
LEMMA RoomIsKept ==
  ASSUME LicenceInv, NEW r \in Request, reservation[r].status = "PREPARED",
         NEW h \in Chain[reservation[r].grant]
  PROVE  Cardinality(Committed(reservation, h)) < Quota[h]
<1>1. reservation[r] \in Reservation
  BY StatusOfReservation DEF LicenceInv, TypeOK, NoReservation
<1>2. h \in Grant
  BY <1>1, ConstantsAssumption DEF Reservation
<1>3. r \in Prepared(reservation, h)
  BY DEF Prepared
<1>4. Cardinality(Prepared(reservation, h)) # 0
  BY <1>3, HolderSets, FS_EmptySet
<1>5. Sold(h) /\ Quota[h] \in Nat
  BY <1>2, ConstantsAssumption DEF LicenceInv, QuotaInv
<1> QED
  BY <1>4, <1>5, HolderSets DEF Sold

LEMMA IssueStep ==
  ASSUME LicenceInv, NEW q \in Message, NEW g \in Selected(q), Commit(q),
         Committable(Reaped, q, g), Reaped[q.id].status = "PREPARED",
         reservation' = [Reaped EXCEPT ![q.id].status = "COMMITTED"],
         usage' = [h \in Grant |-> IF Consumes(Reaped, q, g, h) THEN usage[h] + 1
                                   ELSE usage[h]],
         Told' = {q.id}
  PROVE  Licences!Next
<1>1. /\ q.id \in Request /\ g \in Grant /\ g \in Candidates[q.id]
      /\ reservation \in [Request -> Reservation \cup {NoReservation}]
      /\ Reaped \in [Request -> Reservation \cup {NoReservation}]
  BY DigestType, SelectedType, ReapedFacts DEF LicenceInv, TypeOK, Selected, Matching
<1>2. /\ Reaped[q.id] = reservation[q.id] /\ reservation[q.id] \in Reservation
      /\ reservation[q.id].status = "PREPARED" /\ reservation[q.id].grant = g
      /\ reservation[q.id].digest.version = stateVersion
  BY <1>1, ReapedFacts DEF LicenceInv, Committable, Live, DigestOf, NoReservation
<1>3. /\ reservation'[q.id].status = "COMMITTED"
      /\ reservation'[q.id].grant = g /\ reservation'[q.id].digest.version = stateVersion
  BY <1>1, <1>2 DEF Reservation
<1>4. ASSUME NEW r \in Request \ {q.id}
      PROVE  /\ reservation'[r].status = "COMMITTED" <=> reservation[r].status = "COMMITTED"
             /\ reservation[r].status = "COMMITTED" => reservation'[r] = reservation[r]
  BY <1>1, <1>4, ReapedFacts DEF LicenceInv, NoReservation
<1>5. DOMAIN Licensed' = DOMAIN Licensed \cup {q.id} /\ q.id \notin DOMAIN Licensed
  BY <1>1, <1>2, <1>3, <1>4 DEF Licensed
<1>6. Licensed' = [r \in DOMAIN Licensed \cup {q.id} |->
                     IF r = q.id THEN [grant |-> g, version |-> stateVersion] ELSE Licensed[r]]
  BY <1>1, <1>3, <1>4, <1>5 DEF Licensed
<1>7. \A h \in Chain[g] : Licences!Cardinality(Licences!Holders(h)) < Quota[h]
  BY <1>1, <1>2, RoomIsKept, HoldersCommitted, SameSize
<1>8. usage' = [h \in Grant |-> IF h \in Chain[g] THEN usage[h] + 1 ELSE usage[h]]
  BY DEF Consumes
<1>9. Licences!Issue(q.id, g)
  BY <1>1, <1>5, <1>6, <1>7, <1>8
     DEF Commit, Committable, Live, ChainActive, adminVars, Licences!Issue, Licences!Use,
         Licences!Stands, Licences!authority
<1> QED
  BY <1>1, <1>9 DEF Licences!Next

LEMMA CommitLicences ==
  ASSUME LicenceInv, NEW q \in Message, Commit(q)
  PROVE  Licences!Next
<1>1. CASE reply'.code = "AUTHORIZED"
  <2>1. PICK g \in Selected(q) :
          /\ Committable(Reaped, q, g)
          /\ reservation' = [Reaped EXCEPT ![q.id].status = "COMMITTED"]
          /\ usage' = [h \in Grant |-> IF Consumes(Reaped, q, g, h) THEN usage[h] + 1
                                       ELSE usage[h]]
          /\ Answer("COMMIT", q, "AUTHORIZED")
    BY <1>1 DEF Commit, Answer
  <2>2. Told' = {q.id}
    BY <2>1, LoudAnswer
  <2>3. CASE Reaped[q.id].status = "PREPARED"
    BY <2>1, <2>2, <2>3, IssueStep
  <2>4. CASE Reaped[q.id].status # "PREPARED"
    <3>1. /\ q.id \in Request /\ Reaped[q.id] \in Reservation
          /\ Reaped[q.id].status = "COMMITTED"
      BY <2>1, <2>4, DigestType, ReapedFacts, StatusOfReservation
         DEF LicenceInv, Committable, Reservation
    <3>2. reservation' = Reaped
      BY <2>1, <3>1, ReapedFacts DEF LicenceInv, Reservation
    <3>3. usage' = usage
      BY <2>1, <2>4 DEF Consumes, LicenceInv, TypeOK
    <3>4. Licensed' = Licensed
      BY <3>2, ReapedLicences DEF LicenceInv
    <3>5. Vouched(q)
      BY <1>1, CommitVouches DEF LicenceInv
    <3> QED
      BY <2>2, <3>3, <3>4, <3>5, VouchedConfirms DEF LicenceInv, Commit, quotaVars
  <2> QED
    BY <2>3, <2>4
<1>2. CASE reply'.code # "AUTHORIZED"
  <2>1. reservation' = Reaped /\ usage' = usage /\ Answer("COMMIT", q, "UNAUTHORIZED")
    BY <1>2 DEF Commit, Answer
  <2>2. Licensed' = Licensed /\ Told' = {}
    BY <2>1, ReapedLicences, SilentAnswer DEF LicenceInv
  <2>3. Licences!Silence
    BY <2>1, <2>2 DEF Commit, adminVars, Licences!Silence, Licences!account, Licences!authority
  <2> QED
    BY <2>3 DEF Licences!Next
<1> QED
  BY <1>1, <1>2

LEMMA EvaluateLicences ==
  ASSUME LicenceInv, NEW q \in Message, Evaluate(q)
  PROVE  Licences!Next
<1>1. Licensed' = Licensed /\ Told' = {}
  BY ReapedLicences, SilentAnswer DEF LicenceInv, Evaluate
<1>2. CASE usage' = usage /\ charged' = charged
  <2>1. Licences!Silence
    BY <1>1, <1>2 DEF Evaluate, adminVars, Licences!Silence, Licences!account,
                      Licences!authority
  <2> QED
    BY <2>1 DEF Licences!Next
<1>3. CASE ~(usage' = usage /\ charged' = charged)
  <2>1. PICK g \in Selected(q) :
          /\ Evaluable(q, g)
          /\ charged' = [charged EXCEPT ![q.id] = Chain[g]]
          /\ usage' = [h \in Grant |-> IF charged[q.id] = {} /\ h \in Chain[g]
                                       THEN usage[h] + 1 ELSE usage[h]]
    BY <1>3 DEF Evaluate, quotaVars
  <2>2. q.id \in Request /\ g \in Grant /\ g \in Candidates[q.id]
    BY DigestType, SelectedType DEF Selected, Matching
  <2>3. charged[q.id] = {}
    <3>1. SUFFICES ASSUME charged[q.id] # {}
                   PROVE  FALSE
      OBVIOUS
    <3>2. charged' = charged
      BY <2>1, <2>2, <3>1 DEF Evaluable, LicenceInv, TypeOK
    <3>3. usage' = usage
      BY <2>1, <3>1 DEF LicenceInv, TypeOK
    <3> QED
      BY <1>3, <3>2, <3>3
  <2>4. Licences!Charge(q.id, g)
    BY <1>1, <2>1, <2>2, <2>3
       DEF Evaluable, Live, ChainActive, Evaluate, adminVars, Licences!Charge, Licences!Use,
           Licences!Stands, Licences!authority
  <2> QED
    BY <2>2, <2>4 DEF Licences!Next
<1> QED
  BY <1>2, <1>3

LEMMA AdministerLicences ==
  ASSUME LicenceInv, Administer
  PROVE  [Licences!Next]_Licences!vars
<1>1. Told' = Told /\ UNCHANGED quotaVars
  BY DEF Administer, RecordApproval, ApplyAdmin, Reconfigure, Told
<1>2. Licensed' = Licensed
  <2>1. CASE reservation' = Reaped
    BY <2>1, ReapedLicences DEF LicenceInv
  <2>2. CASE reservation' = reservation
    BY <2>2 DEF Licensed
  <2> QED
    BY <2>1, <2>2 DEF Administer, RecordApproval, ApplyAdmin, Reconfigure
<1>3. CASE UNCHANGED <<revoked, stateVersion, history>>
  BY <1>1, <1>2, <1>3 DEF quotaVars, Licences!vars, Licences!account, Licences!authority
<1>4. ASSUME NEW op \in AdminOp, Revoke(op)
      PROVE  Licences!Next
  <2>1. op.grant \in Grant
    BY <1>4, ConstantsAssumption DEF Revoke
  <2>2. Licences!Revoke(op.grant)
    BY <1>1, <1>2, <1>4 DEF Revoke, quotaVars, Licences!Revoke, Licences!account
  <2> QED
    BY <2>1, <2>2 DEF Licences!Next
<1>5. ASSUME NEW v \in Version, v \notin history, stateVersion' = v,
             history' = history \cup {v}, revoked' = revoked
      PROVE  Licences!Next
  <2>1. Licences!Succeed(v)
    BY <1>1, <1>2, <1>5 DEF quotaVars, Licences!Succeed, Licences!account
  <2> QED
    BY <2>1 DEF Licences!Next
<1>6. ASSUME NEW op \in AdminOp, Rotate(op)
      PROVE  Licences!Next
  BY <1>5, <1>6, ConstantsAssumption DEF Rotate
<1>7. ASSUME NEW v \in Version, Reconfigure(v)
      PROVE  [Licences!Next]_Licences!vars
  BY <1>3, <1>5, <1>7 DEF Reconfigure, Adoptable, LicenceInv, VersionInv
<1> QED
  BY <1>3, <1>4, <1>6, <1>7 DEF Administer, RecordApproval, ApplyAdmin

LEMMA StepImplementsLicence ==
  ASSUME LicenceInv, [Next]_vars
  PROVE  [Licences!Next]_Licences!vars
<1>1. ASSUME NEW q \in Message, EffectRequest(q)
      PROVE  Licences!Next
  BY <1>1, PrepareLicences, AbortLicences, StatusLicences, CommitLicences
     DEF EffectRequest, LicenceInv, Licences!Next
<1>2. ASSUME NEW q \in Message, Evaluate(q)
      PROVE  Licences!Next
  BY <1>2, EvaluateLicences
<1>3. CASE Idle
  BY <1>3, ReapedLicences
     DEF Idle, LicenceInv, quotaVars, adminVars, Told, Licences!vars, Licences!account,
         Licences!authority
<1>4. CASE Tick \/ UNCHANGED vars
  BY <1>4 DEF Tick, vars, quotaVars, adminVars, Told, Licensed, Licences!vars,
              Licences!account, Licences!authority
<1>5. CASE Administer
  BY <1>5, AdministerLicences
<1> QED
  BY <1>1, <1>2, <1>3, <1>4, <1>5 DEF Next

\* The broker, with its reservations, its reaper, replays, evaluations and
\* administration, gives licences as Licence says.
THEOREM LicenceImplemented == Spec => ImplementsLicence
<1>1. Init => StampInv /\ FenceInv /\ VersionInv
  BY DEF Init, StampInv, Stamped, FenceInv, Fenced, NoReservation, VersionInv
<1>2. Spec => []LicenceInv
  BY <1>1, QuotaCorrect, TypeCorrect, StampStep, FenceStep, VersionStep, PTL
     DEF Spec, LicenceInv
<1>3. Init => Licences!Init
  BY DEF Init, NoReservation, NoReply, Licensed, Told, Licences!Init
<1>4. LicenceInv /\ [Next]_vars => [Licences!Next]_Licences!vars
  BY StepImplementsLicence
<1> QED
  BY <1>2, <1>3, <1>4, PTL DEF Spec, ImplementsLicence, Licences!Spec

=============================================================================
