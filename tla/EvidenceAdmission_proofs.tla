----------------------- MODULE EvidenceAdmission_proofs -----------------------
(* The theorems about admitted evidence, for any number of callers, handler   *)
(* threads and requests and any quota.  The threads change in five kinds of   *)
(* step, the stores in four, and the invariants are shown for these.          *)
EXTENDS EvidenceAdmission, FiniteSetTheorems, TLAPS

-----------------------------------------------------------------------------
(* Kinds of steps *)

Busy == {w \in Workers : worker[w] # Free}

\* A thread goes on with the request it is in.
Moves(w) ==
  /\ worker[w] # Free
  /\ \E s \in Steps, x \in Results :
       worker' = [worker EXCEPT ![w] =
         [step |-> s, operation |-> worker[w].operation,
          request |-> worker[w].request, result |-> x]]

LEMMA OperationsNamed == DOMAIN Operations = {"evidence_put", "change_transition"}
BY DEF Operations

LEMMA FreeHasNoStep == Free.step = "free" /\ Free \notin WorkerRecord
BY DEF Free, WorkerRecord, Steps

\* What Step and Finish make of the record of a thread in a request.
LEMMA Stepped ==
  ASSUME TypeOK, NEW w \in Workers, worker[w].step # "free", NEW s \in Steps, Step(w, s)
  PROVE  /\ worker[w] # Free
         /\ worker' = [worker EXCEPT ![w] =
              [step |-> s, operation |-> worker[w].operation,
               request |-> worker[w].request, result |-> worker[w].result]]
         /\ worker[w].result \in Results
         /\ Moves(w)
<1>1. worker[w] \in WorkerRecord /\ worker[w] # Free
  BY FreeHasNoStep DEF TypeOK
<1>2. worker' = [worker EXCEPT ![w] =
        [step |-> s, operation |-> worker[w].operation,
         request |-> worker[w].request, result |-> worker[w].result]]
  <2>1. [worker[w] EXCEPT !.step = s] =
          [step |-> s, operation |-> worker[w].operation,
           request |-> worker[w].request, result |-> worker[w].result]
    BY <1>1 DEF WorkerRecord
  <2> QED
    BY <2>1 DEF Step, TypeOK
<1>3. worker[w].result \in Results
  BY <1>1 DEF WorkerRecord
<1> QED
  BY <1>1, <1>2, <1>3 DEF Moves

LEMMA Finished ==
  ASSUME TypeOK, NEW w \in Workers, worker[w].step # "free", NEW x \in Results, Finish(w, x)
  PROVE  /\ worker[w] # Free
         /\ worker' = [worker EXCEPT ![w] =
              [step |-> "reply", operation |-> worker[w].operation,
               request |-> worker[w].request, result |-> x]]
         /\ Moves(w)
<1>1. worker[w] \in WorkerRecord /\ worker[w] # Free
  BY FreeHasNoStep DEF TypeOK
<1>2. worker' = [worker EXCEPT ![w] =
        [step |-> "reply", operation |-> worker[w].operation,
         request |-> worker[w].request, result |-> x]]
  <2>1. [worker[w] EXCEPT !.step = "reply", !.result = x] =
          [step |-> "reply", operation |-> worker[w].operation,
           request |-> worker[w].request, result |-> x]
    <3> DEFINE v == worker[w]
    <3>1. v \in WorkerRecord
      BY <1>1
    <3>2. [v EXCEPT !.step = "reply", !.result = x] =
            [[v EXCEPT !.step = "reply"] EXCEPT !.result = x]
      OBVIOUS
    <3> HIDE DEF v
    <3>3. [v EXCEPT !.step = "reply"] =
            [step |-> "reply", operation |-> v.operation,
             request |-> v.request, result |-> v.result]
      BY <3>1 DEF WorkerRecord
    <3>4. [[v EXCEPT !.step = "reply"] EXCEPT !.result = x] =
            [step |-> "reply", operation |-> v.operation,
             request |-> v.request, result |-> x]
      <4>1. \A r : [[step |-> "reply", operation |-> v.operation, request |-> v.request,
                     result |-> r] EXCEPT !.result = x] =
                   [step |-> "reply", operation |-> v.operation,
                    request |-> v.request, result |-> x]
        OBVIOUS
      <4> QED
        BY <3>3, <4>1, Zenon
    <3> QED
      BY <3>2, <3>4 DEF v
  <2> QED
    BY <2>1 DEF Finish, TypeOK
<1> QED
  BY <1>1, <1>2 DEF Moves, Steps

Taken(w) ==
  /\ worker[w] = Free
  /\ capacity > 0 /\ capacity' = capacity - 1
  /\ \E operation \in DOMAIN Operations, r \in Requests :
       worker' = [worker EXCEPT ![w] =
         [step |-> "admit", operation |-> operation, request |-> r, result |-> None]]

Freed(w) ==
  /\ worker[w] # Free
  /\ capacity' = capacity + 1
  /\ worker' = [worker EXCEPT ![w] = Free]

Threads ==
  \/ UNCHANGED <<capacity, worker>>
  \/ capacity' = Cardinality(Workers) /\ worker' = [w \in Workers |-> Free]
  \/ \E w \in Workers : Taken(w) \/ (Moves(w) /\ UNCHANGED capacity) \/ Freed(w)

CallerRecord ==
  {Idle} \cup [pc : DOMAIN Operations, request : Requests, worker : Workers]
         \cup [pc : {"admitted"}, request : Requests]

NewRow(r) == [content |-> r.envelope, final |-> FALSE]

Stores ==
  \/ UNCHANGED stores
  \/ \E r \in Requests :
       /\ Key(r) \notin DOMAIN admissions /\ ~(Cardinality(HeldBy(r.principal)) >= Quota)
       /\ admissions' = Extend(admissions, Key(r), NewRow(r))
       /\ UNCHANGED <<objects, ledger>>
  \/ \E r \in Requests :
       objects' = objects \cup {r.envelope} /\ UNCHANGED <<admissions, ledger>>
  \/ \E r \in Requests :
       /\ SameContent(r)
       /\ admissions' = [admissions EXCEPT ![Key(r)].final = TRUE]
       /\ UNCHANGED <<objects, ledger>>
  \/ \E r \in Requests :
       /\ Verified(r.envelope, r) /\ {e \in ledger : e.command = r.command} = {}
       /\ ledger' = ledger \cup {r}
       /\ UNCHANGED <<admissions, objects>>

Shape ==
  /\ server' \in {"up", "down"}
  /\ Threads
  /\ caller' \in [Callers -> CallerRecord]
  /\ Stores

LEMMA CallerType == TypeOK <=> TypeOK /\ caller \in [Callers -> CallerRecord]
BY DEF TypeOK, CallerRecord

LEMMA AcceptShape ==
  ASSUME TypeOK, NEW c \in Callers, NEW w \in Workers, NEW r \in Requests,
         NEW operation \in DOMAIN Operations, Accept(c, w, operation, r)
  PROVE  Shape
<1>0. server \in {"up", "down"} /\ caller \in [Callers -> CallerRecord]
  BY CallerType DEF TypeOK
<1>1. CASE TurnAway(c) /\ UNCHANGED capacity
  BY <1>0, <1>1 DEF TurnAway, Shape, Threads, Stores, CallerRecord
<1>2. CASE Take(c, w, operation, r)
  <2>1. Taken(w)
    BY <1>2 DEF Take, Taken
  <2>2. caller' \in [Callers -> CallerRecord]
    BY <1>0, <1>2 DEF Take, CallerRecord
  <2> QED
    BY <1>0, <1>2, <2>1, <2>2 DEF Take, Shape, Threads, Stores
<1> QED
  BY <1>1, <1>2 DEF Accept

LEMMA WorkerRequest ==
  ASSUME TypeOK, NEW w \in Workers, worker[w].step # "free"
  PROVE  /\ worker[w] \in WorkerRecord /\ worker[w] # Free
         /\ worker[w].request \in Requests
         /\ worker[w].operation \in {"evidence_put", "change_transition"}
BY FreeHasNoStep, OperationsNamed DEF TypeOK, WorkerRecord

LEMMA MovedShape ==
  ASSUME TypeOK, NEW w \in Workers, Moves(w), UNCHANGED <<server, capacity, caller>>, Stores
  PROVE  Shape
BY CallerType DEF TypeOK, Shape, Threads

LEMMA HandlerShape ==
  ASSUME TypeOK, NEW w \in Workers,
         Admit(w) \/ Reserve(w) \/ Upload(w) \/ Finalize(w) \/ ReadBack(w) \/ Govern(w)
         \/ Fail(w)
  PROVE  Shape
<1>1. worker[w].step # "free" /\ UNCHANGED <<server, capacity, caller>>
  BY DEF Admit, Reserve, ReserveIf, Upload, Finalize, ReadBack, Govern, Fail
<1>2. worker[w].request \in Requests
  BY <1>1, WorkerRequest
<1>3. Moves(w)
  <2>1. (\E s \in Steps : Step(w, s)) \/ (\E x \in Results : Finish(w, x))
    BY DEF Admit, Reserve, ReserveIf, Upload, Finalize, ReadBack, Govern, Fail, Steps, Results
  <2> QED
    BY <1>1, <2>1, Stepped, Finished
<1>4. Stores
  <2>1. CASE Reserve(w)
    BY <1>2, <2>1 DEF Reserve, ReserveIf, Stores, NewRow, stores
  <2>2. CASE Upload(w)
    BY <1>2, <2>2 DEF Upload, Stores
  <2>3. CASE Finalize(w)
    BY <1>2, <2>3 DEF Finalize, Stores, stores
  <2>4. CASE Govern(w)
    BY <1>2, <2>4 DEF Govern, Stores, stores
  <2>5. CASE Admit(w) \/ ReadBack(w) \/ Fail(w)
    BY <2>5 DEF Admit, ReadBack, Fail, Stores
  <2> QED
    BY <2>1, <2>2, <2>3, <2>4, <2>5
<1> QED
  BY <1>1, <1>3, <1>4, MovedShape

LEMMA ReplyShape ==
  ASSUME TypeOK, NEW w \in Workers, Reply(w)
  PROVE  Shape
<1>1. caller \in [Callers -> CallerRecord] /\ server \in {"up", "down"}
  BY CallerType DEF TypeOK
<1>2. worker[w] # Free
  BY FreeHasNoStep DEF Reply
<1>3. Freed(w)
  BY <1>2 DEF Reply, Deliver, Freed
<1>4. ASSUME NEW c \in Callers, c \in Waiting(w)
      PROVE  caller[c].request \in Requests
  BY <1>1, <1>4, OperationsNamed DEF CallerRecord, Idle, Waiting
<1>5. caller' \in [Callers -> CallerRecord]
  BY <1>1, <1>4 DEF Reply, Deliver, CallerRecord
<1> QED
  BY <1>1, <1>3, <1>5 DEF Shape, Threads, Stores, Reply, Deliver

LEMMA StepShape == ASSUME TypeOK, [Next]_vars PROVE Shape
<1>0. caller \in [Callers -> CallerRecord] /\ server \in {"up", "down"}
  BY CallerType DEF TypeOK
<1>1. CASE UNCHANGED vars
  BY <1>0, <1>1 DEF vars, stores, Shape, Threads, Stores
<1>2. CASE Start
  BY <1>0, <1>2 DEF Start, Shape, Threads, Stores
<1>3. CASE Stop
  BY <1>0, <1>3 DEF Stop, Shape, Threads, Stores, CallerRecord
<1>4. ASSUME NEW c \in Callers, NEW w \in Workers, NEW r \in Requests,
             SendEvidence(c, w, r) \/ SendQuoting(c, w, r)
      PROVE  Shape
  BY <1>4, AcceptShape, OperationsNamed DEF SendEvidence, SendQuoting
<1>5. ASSUME NEW c \in Callers, NEW w \in Workers, SendGoverned(c, w)
      PROVE  Shape
  <2>1. caller[c].request \in Requests
    BY <1>0, <1>5, OperationsNamed DEF SendGoverned, CallerRecord, Idle
  <2> QED
    BY <1>5, <2>1, AcceptShape, OperationsNamed DEF SendGoverned
<1>6. ASSUME NEW c \in Callers, Abandon(c)
      PROVE  Shape
  BY <1>0, <1>6 DEF Abandon, Shape, Threads, Stores, CallerRecord
<1>7. ASSUME NEW w \in Workers, Advance(w) \/ Fail(w)
      PROVE  Shape
  BY <1>7, HandlerShape, ReplyShape DEF Advance
<1> QED
  BY <1>1, <1>2, <1>3, <1>4, <1>5, <1>6, <1>7 DEF Next

-----------------------------------------------------------------------------
(* Types, slots and quota *)

LEMMA KeyType ==
  ASSUME NEW r \in Requests
  PROVE  /\ Key(r) \in (DOMAIN Families) \X Commands
         /\ Key(r)[1] = r.principal /\ r.envelope \in Envelope
BY AdmissionAssumption DEF AdmissionAssumption, Key

LEMMA ExactStep ==
  ASSUME TypeOK, CapacityIsExact, Threads
  PROVE  CapacityIsExact' /\ capacity' \in 0..Cardinality(Workers)
<1> DEFINE busy == {w \in Workers : worker[w] # Free}
<1>1. IsFiniteSet(Workers) /\ Cardinality(Workers) \in Nat
  BY AdmissionAssumption, FS_CardinalityType DEF AdmissionAssumption
<1>2. /\ IsFiniteSet(busy) /\ Cardinality(busy) \in Nat
      /\ capacity + Cardinality(busy) = Cardinality(Workers)
      /\ capacity \in Nat
  BY <1>1, FS_Subset, FS_CardinalityType DEF CapacityIsExact, TypeOK
<1>3. IsFiniteSet(busy') /\ Cardinality(busy') \in Nat
  BY <1>1, FS_Subset, FS_CardinalityType
<1>4. capacity' + Cardinality(busy') = Cardinality(Workers) /\ capacity' \in Nat
  <2>1. CASE UNCHANGED <<capacity, worker>>
    BY <1>2, <2>1
  <2>2. CASE capacity' = Cardinality(Workers) /\ worker' = [w \in Workers |-> Free]
    <3>1. busy' = {}
      BY <2>2
    <3> QED
      BY <1>1, <2>2, <3>1, FS_EmptySet
  <2>3. ASSUME NEW w \in Workers, Moves(w) /\ UNCHANGED capacity
        PROVE  capacity' + Cardinality(busy') = Cardinality(Workers) /\ capacity' \in Nat
    <3>1. busy' = busy
      BY <2>3, FreeHasNoStep DEF Moves, Steps, TypeOK, Free
    <3> QED
      BY <1>2, <2>3, <3>1
  <2>4. ASSUME NEW w \in Workers, Taken(w)
        PROVE  capacity' + Cardinality(busy') = Cardinality(Workers) /\ capacity' \in Nat
    <3>1. busy' = busy \cup {w} /\ w \notin busy
      BY <2>4, FreeHasNoStep DEF Taken, TypeOK, Free
    <3>2. Cardinality(busy') = Cardinality(busy) + 1
      BY <1>2, <3>1, FS_AddElement
    <3> QED
      BY <1>1, <1>2, <2>4, <3>2 DEF Taken
  <2>5. ASSUME NEW w \in Workers, Freed(w)
        PROVE  capacity' + Cardinality(busy') = Cardinality(Workers) /\ capacity' \in Nat
    <3>1. busy' = busy \ {w} /\ w \in busy
      BY <2>5 DEF Freed, TypeOK
    <3>2. Cardinality(busy') = Cardinality(busy) - 1
      BY <1>2, <3>1, FS_RemoveElement
    <3> QED
      BY <1>1, <1>2, <2>5, <3>2 DEF Freed
  <2> QED
    BY <2>1, <2>2, <2>3, <2>4, <2>5 DEF Threads
<1>5. CapacityIsExact'
  BY <1>4 DEF CapacityIsExact
<1> QED
  BY <1>1, <1>3, <1>4, <1>5

LEMMA WorkersTyped ==
  ASSUME TypeOK, Threads
  PROVE  worker' \in [Workers -> WorkerRecord \cup {Free}]
<1>1. worker \in [Workers -> WorkerRecord \cup {Free}]
  BY DEF TypeOK
<1>2. ASSUME NEW w \in Workers, Taken(w)
      PROVE  worker' \in [Workers -> WorkerRecord \cup {Free}]
  BY <1>1, <1>2 DEF Taken, WorkerRecord, Steps, Results
<1>3. ASSUME NEW w \in Workers, Moves(w)
      PROVE  worker' \in [Workers -> WorkerRecord \cup {Free}]
  BY <1>1, <1>3 DEF Moves, WorkerRecord
<1> QED
  BY <1>1, <1>2, <1>3 DEF Threads, Freed

LEMMA StoresTyped ==
  ASSUME TypeOK, Stores
  PROVE  /\ DOMAIN admissions' \subseteq (DOMAIN Families) \X Commands
         /\ \A k \in DOMAIN admissions' :
              admissions'[k] \in [content : Envelope, final : BOOLEAN]
         /\ objects' \subseteq Envelope
         /\ ledger' \subseteq Requests
<1>1. CASE UNCHANGED stores
  BY <1>1 DEF TypeOK, stores
<1>2. ASSUME NEW r \in Requests,
             admissions' = Extend(admissions, Key(r), NewRow(r)),
             UNCHANGED <<objects, ledger>>
      PROVE  /\ DOMAIN admissions' \subseteq (DOMAIN Families) \X Commands
             /\ \A k \in DOMAIN admissions' :
                  admissions'[k] \in [content : Envelope, final : BOOLEAN]
  BY <1>2, KeyType DEF TypeOK, Extend, NewRow
<1>3. ASSUME NEW r \in Requests, SameContent(r),
             admissions' = [admissions EXCEPT ![Key(r)].final = TRUE]
      PROVE  /\ DOMAIN admissions' \subseteq (DOMAIN Families) \X Commands
             /\ \A k \in DOMAIN admissions' :
                  admissions'[k] \in [content : Envelope, final : BOOLEAN]
  BY <1>3 DEF TypeOK, SameContent
<1> QED
  BY <1>1, <1>2, <1>3, KeyType DEF Stores, TypeOK

\* The rows a producer holds, and that they are finitely many.
QuotaInv ==
  /\ IsFiniteSet(DOMAIN admissions)
  /\ QuotaHolds

LEMMA HeldFinite ==
  ASSUME IsFiniteSet(DOMAIN admissions), NEW p
  PROVE  IsFiniteSet(HeldBy(p)) /\ Cardinality(HeldBy(p)) \in Nat
BY FS_Subset, FS_CardinalityType DEF HeldBy

LEMMA QuotaStep ==
  ASSUME QuotaInv, Stores
  PROVE  QuotaInv'
<1>1. CASE DOMAIN admissions' = DOMAIN admissions
  BY <1>1 DEF QuotaInv, QuotaHolds, HeldBy
<1>2. ASSUME NEW r \in Requests, Key(r) \notin DOMAIN admissions,
             ~(Cardinality(HeldBy(r.principal)) >= Quota),
             admissions' = Extend(admissions, Key(r), NewRow(r))
      PROVE  QuotaInv'
  <2>1. DOMAIN admissions' = DOMAIN admissions \cup {Key(r)}
    BY <1>2 DEF Extend
  <2>2. IsFiniteSet(DOMAIN admissions')
    BY <2>1, FS_AddElement DEF QuotaInv
  <2>3. ASSUME NEW p \in DOMAIN Families
        PROVE  Cardinality(HeldBy(p)') <= Quota
    <3>1. CASE p = r.principal
      <4>1. HeldBy(p)' = HeldBy(p) \cup {Key(r)} /\ Key(r) \notin HeldBy(p)
        BY <1>2, <2>1, <3>1, KeyType DEF HeldBy
      <4>2. IsFiniteSet(HeldBy(p)) /\ Cardinality(HeldBy(p)) \in Nat
        BY HeldFinite DEF QuotaInv
      <4>3. Cardinality(HeldBy(p)') = Cardinality(HeldBy(p)) + 1
        BY <4>1, <4>2, FS_AddElement
      <4> QED
        BY <1>2, <3>1, <4>2, <4>3, AdmissionAssumption DEF AdmissionAssumption
    <3>2. CASE p # r.principal
      <4>1. HeldBy(p)' = HeldBy(p)
        BY <2>1, <3>2, KeyType DEF HeldBy
      <4> QED
        BY <4>1 DEF QuotaInv, QuotaHolds
    <3> QED
      BY <3>1, <3>2
  <2> QED
    BY <2>2, <2>3 DEF QuotaInv, QuotaHolds
<1>3. \/ DOMAIN admissions' = DOMAIN admissions
      \/ \E r \in Requests :
           /\ Key(r) \notin DOMAIN admissions
           /\ ~(Cardinality(HeldBy(r.principal)) >= Quota)
           /\ admissions' = Extend(admissions, Key(r), NewRow(r))
  BY DEF Stores, stores
<1> QED
  BY <1>1, <1>2, <1>3

TypeInv == TypeOK /\ CapacityIsExact /\ QuotaInv

LEMMA TypeInit == ASSUME Init PROVE TypeInv
<1>1. IsFiniteSet(Workers) /\ Cardinality(Workers) \in Nat /\ Quota \in Nat
  BY AdmissionAssumption, FS_CardinalityType DEF AdmissionAssumption
<1>2. TypeOK
  BY <1>1 DEF Init, TypeOK
<1>3. {w \in Workers : worker[w] # Free} = {}
  BY DEF Init
<1>4. CapacityIsExact
  <2>1. Cardinality({w \in Workers : worker[w] # Free}) = 0
    BY <1>3, FS_EmptySet
  <2> QED
    BY <1>1, <2>1 DEF Init, CapacityIsExact
<1>5. DOMAIN admissions = {}
  BY DEF Init
<1>6. QuotaInv
  <2>1. \A p : HeldBy(p) = {}
    BY <1>5 DEF HeldBy
  <2> QED
    BY <1>1, <1>5, <2>1, FS_EmptySet DEF QuotaInv, QuotaHolds
<1> QED
  BY <1>2, <1>4, <1>6 DEF TypeInv

LEMMA TypeStep == ASSUME TypeInv, [Next]_vars PROVE TypeInv'
<1>1. Shape
  BY StepShape DEF TypeInv
<1>2. CapacityIsExact' /\ capacity' \in 0..Cardinality(Workers)
  BY <1>1, ExactStep DEF TypeInv, Shape
<1>3. worker' \in [Workers -> WorkerRecord \cup {Free}]
  BY <1>1, WorkersTyped DEF TypeInv, Shape
<1>4. QuotaInv'
  BY <1>1, QuotaStep DEF TypeInv, Shape
<1>5. TypeOK'
  BY <1>1, <1>2, <1>3, StoresTyped DEF TypeInv, Shape, TypeOK, CallerRecord
<1> QED
  BY <1>2, <1>4, <1>5 DEF TypeInv

LEMMA Typed == Spec => []TypeInv
BY TypeInit, TypeStep, PTL DEF Spec

\* TypeOK for every number of callers, threads and requests: a thread is in one request
\* at one step, a caller waits for one thread (_StateHandler.handle, exchange).
THEOREM TypeCorrect == Spec => []TypeOK
<1>1. TypeInv => TypeOK
  BY DEF TypeInv
<1> QED
  BY <1>1, Typed, PTL

\* CapacityIsExact for every number of handler threads: process_request and
\* process_request_thread never leak a slot and never return one twice.
THEOREM SlotsAreExact == Spec => []CapacityIsExact
<1>1. TypeInv => CapacityIsExact
  BY DEF TypeInv
<1> QED
  BY <1>1, Typed, PTL

\* QuotaHolds for every quota and any number of concurrent handlers: reserve_evidence
\* counts and inserts under one lock, and a row is never taken twice.
THEOREM QuotaIsKept == Spec => []QuotaHolds
<1>1. TypeInv => QuotaHolds
  BY DEF TypeInv, QuotaInv
<1> QED
  BY <1>1, Typed, PTL

-----------------------------------------------------------------------------
(* References: rows and objects only grow, and every thread and every caller  *)
(* rests on those it has seen.                                                *)

Grows ==
  /\ DOMAIN admissions \subseteq DOMAIN admissions'
  /\ \A k \in DOMAIN admissions :
       /\ admissions'[k].content = admissions[k].content
       /\ admissions[k].final => admissions'[k].final
  /\ objects \subseteq objects'

Kept(r) == SameContent(r) /\ admissions[Key(r)].final

ThreadSound(w) ==
  LET v == worker[w]
      r == v.request IN
  /\ v.step \in {"reserve", "upload", "finalize", "readback"} =>
       v.operation = "evidence_put" /\ r.envelope.producer = r.principal
  /\ v.step = "govern" =>
       v.operation = "change_transition" /\ Owners[r.state] = r.principal
  /\ v.step \in {"upload", "finalize", "readback"} => SameContent(r)
  /\ v.step = "finalize" => r.envelope \in objects
  /\ v.step = "readback" => Kept(r)
  /\ v.step = "reply" /\ v.operation = "evidence_put" /\ v.result = "ok" => Kept(r)

CallerSound(c) ==
  /\ caller[c].pc \in DOMAIN Operations =>
       LET w == caller[c].worker IN
       /\ w \in Workers /\ worker[w] # Free
       /\ worker[w].operation = caller[c].pc /\ worker[w].request = caller[c].request
  /\ caller[c].pc = "admitted" => Kept(caller[c].request)

StoresSound ==
  /\ \A k \in DOMAIN admissions : admissions[k].final => admissions[k].content \in objects
  /\ \A x \in objects : \E k \in HeldBy(x.producer) : admissions[k].content = x

AdmissionInv ==
  /\ \A w \in Workers : ThreadSound(w)
  /\ \A c \in Callers : CallerSound(c)
  /\ StoresSound
  /\ GovernedIsEvidenced

LEMMA StoresGrow == ASSUME TypeOK, Stores PROVE Grows
<1>1. ASSUME NEW r \in Requests, Key(r) \notin DOMAIN admissions,
             admissions' = Extend(admissions, Key(r), NewRow(r)),
             UNCHANGED objects
      PROVE  Grows
  BY <1>1 DEF Extend, Grows
<1>2. ASSUME NEW r \in Requests, SameContent(r),
             admissions' = [admissions EXCEPT ![Key(r)].final = TRUE],
             UNCHANGED objects
      PROVE  Grows
  <2>1. \A k \in DOMAIN admissions :
          admissions[k] \in [content : Envelope, final : BOOLEAN]
    BY DEF TypeOK
  <2> QED
    BY <1>2, <2>1 DEF SameContent, Grows
<1> QED
  BY <1>1, <1>2 DEF Stores, stores, Grows

LEMMA RowsStay ==
  ASSUME Grows, NEW r
  PROVE  (SameContent(r) => SameContent(r)') /\ (Kept(r) => Kept(r)')
BY DEF Grows, SameContent, Kept, Key

LEMMA ThreadStays ==
  ASSUME Grows, NEW w, ThreadSound(w), worker'[w] = worker[w]
  PROVE  ThreadSound(w)'
<1>1. objects \subseteq objects'
  BY DEF Grows
<1> QED
  BY <1>1, RowsStay DEF ThreadSound

LEMMA CallerStays ==
  ASSUME Grows, NEW c, CallerSound(c), caller'[c] = caller[c],
         caller[c].pc \in DOMAIN Operations =>
           /\ worker'[caller[c].worker] # Free
           /\ worker'[caller[c].worker].operation = worker[caller[c].worker].operation
           /\ worker'[caller[c].worker].request = worker[caller[c].worker].request
  PROVE  CallerSound(c)'
BY RowsStay DEF CallerSound

LEMMA IdleSound == ASSUME NEW c, caller'[c] = Idle PROVE CallerSound(c)'
BY OperationsNamed DEF Idle, CallerSound

LEMMA CallerWaits ==
  ASSUME AdmissionInv, Grows, UNCHANGED worker, NEW c \in Callers,
         caller'[c] = caller[c] \/ caller'[c] = Idle
  PROVE  CallerSound(c)'
<1>1. CallerSound(c)
  BY DEF AdmissionInv
<1>2. CASE caller'[c] = caller[c]
  BY <1>1, <1>2, CallerStays DEF CallerSound
<1> QED
  BY <1>2, IdleSound

LEMMA FreeSound == ASSUME NEW w, worker'[w] = Free PROVE ThreadSound(w)'
BY DEF Free, ThreadSound

LEMMA MoveSound ==
  ASSUME TypeOK, AdmissionInv, Grows, NEW w \in Workers, Moves(w), UNCHANGED caller,
         ThreadSound(w)'
  PROVE  (\A v \in Workers : ThreadSound(v)') /\ (\A c \in Callers : CallerSound(c)')
<1>1. worker \in [Workers -> WorkerRecord \cup {Free}]
  BY DEF TypeOK
<1>2. /\ worker'[w] # Free
      /\ worker'[w].operation = worker[w].operation
      /\ worker'[w].request = worker[w].request
  BY <1>1, FreeHasNoStep DEF Moves, Steps, Free
<1>3. \A v \in Workers : v # w => worker'[v] = worker[v]
  BY <1>1 DEF Moves
<1>4. ASSUME NEW v \in Workers
      PROVE  ThreadSound(v)'
  <2>1. CASE v = w
    BY <2>1
  <2>2. CASE v # w
    BY <1>3, <2>2, ThreadStays DEF AdmissionInv
  <2> QED
    BY <2>1, <2>2
<1>5. ASSUME NEW c \in Callers
      PROVE  CallerSound(c)'
  <2>1. CallerSound(c)
    BY DEF AdmissionInv
  <2>2. caller[c].pc \in DOMAIN Operations =>
          /\ worker'[caller[c].worker] # Free
          /\ worker'[caller[c].worker].operation = worker[caller[c].worker].operation
          /\ worker'[caller[c].worker].request = worker[caller[c].worker].request
    BY <1>2, <1>3, <2>1 DEF CallerSound
  <2> QED
    BY <2>1, <2>2, CallerStays
<1> QED
  BY <1>4, <1>5

LEMMA StoresStay ==
  ASSUME AdmissionInv, Grows, UNCHANGED ledger
  PROVE  GovernedIsEvidenced'
<1>1. ASSUME NEW p, NEW k \in HeldBy(p)
      PROVE  k \in HeldBy(p)' /\ admissions'[k].content = admissions[k].content
  BY <1>1 DEF Grows, HeldBy
<1> QED
  BY <1>1 DEF AdmissionInv, GovernedIsEvidenced

LEMMA AdmitSound ==
  ASSUME TypeOK, AdmissionInv, NEW w \in Workers, Admit(w)
  PROVE  ThreadSound(w)'
<1>0. PICK r : r = worker[w].request
  OBVIOUS
<1>1. worker[w].step # "free" /\ worker[w] \in WorkerRecord
  BY WorkerRequest DEF Admit
<1>2. worker[w].operation \in {"evidence_put", "change_transition"}
  BY <1>1, WorkerRequest
<1>3. CASE Finish(w, "refused")
  <2>1. worker'[w].step = "reply" /\ worker'[w].result = "refused"
    BY <1>1, <1>3, Finished DEF Results, TypeOK
  <2> QED
    BY <2>1 DEF ThreadSound
<1>4. CASE Step(w, "reserve") /\ worker[w].operation = "evidence_put"
           /\ Canonical(r.envelope, r.principal)
  <2>1. /\ worker'[w].step = "reserve"
        /\ worker'[w].operation = "evidence_put" /\ worker'[w].request = r
    BY <1>0, <1>1, <1>4, Stepped DEF Steps, TypeOK
  <2> QED
    BY <1>4, <2>1 DEF ThreadSound, Canonical
<1>5. CASE Step(w, "govern") /\ worker[w].operation = "change_transition"
           /\ Owners[r.state] = r.principal
  <2>1. /\ worker'[w].step = "govern"
        /\ worker'[w].operation = "change_transition" /\ worker'[w].request = r
    BY <1>0, <1>1, <1>5, Stepped DEF Steps, TypeOK
  <2> QED
    BY <1>5, <2>1 DEF ThreadSound
<1> QED
  BY <1>0, <1>2, <1>3, <1>4, <1>5 DEF Admit

LEMMA ReserveSound ==
  ASSUME TypeOK, AdmissionInv, NEW w \in Workers, Reserve(w)
  PROVE  ThreadSound(w)' /\ StoresSound'
<1>0. PICK r : r = worker[w].request
  OBVIOUS
<1>1. /\ worker[w].step # "free" /\ worker[w] \in WorkerRecord /\ r \in Requests
      /\ worker[w].step = "reserve"
  BY <1>0, WorkerRequest DEF Reserve
<1>2. /\ worker[w].operation = "evidence_put" /\ r.envelope.producer = r.principal
      /\ StoresSound
  BY <1>0, <1>1 DEF AdmissionInv, ThreadSound
<1>3. ASSUME NEW x \in {"conflict", "quota"}, Finish(w, x), UNCHANGED <<admissions, objects>>
      PROVE  ThreadSound(w)' /\ StoresSound'
  <2>1. worker'[w].step = "reply" /\ worker'[w].result = x
    BY <1>1, <1>3, Finished DEF Results, TypeOK
  <2> QED
    BY <1>2, <1>3, <2>1 DEF ThreadSound, StoresSound, HeldBy
<1>4. CASE Finish(w, "ok") /\ Kept(r) /\ UNCHANGED <<admissions, objects>>
  <2>1. worker'[w].step = "reply" /\ worker'[w].request = r
    BY <1>0, <1>1, <1>4, Finished DEF Results, TypeOK
  <2>2. Kept(r)'
    BY <1>4 DEF Kept, SameContent, Key
  <2> QED
    BY <1>2, <1>4, <2>1, <2>2 DEF ThreadSound, StoresSound, HeldBy
<1>5. CASE Step(w, "upload") /\ SameContent(r) /\ UNCHANGED <<admissions, objects>>
  <2>1. /\ worker'[w].step = "upload" /\ worker'[w].request = r
        /\ worker'[w].operation = "evidence_put"
    BY <1>0, <1>1, <1>2, <1>5, Stepped DEF Steps, TypeOK
  <2>2. SameContent(r)'
    BY <1>5 DEF SameContent, Key
  <2> QED
    BY <1>2, <1>5, <2>1, <2>2 DEF ThreadSound, StoresSound, HeldBy
<1>6. CASE /\ Step(w, "upload") /\ Key(r) \notin DOMAIN admissions
           /\ admissions' = Extend(admissions, Key(r), NewRow(r)) /\ UNCHANGED objects
  <2>1. /\ worker'[w].step = "upload" /\ worker'[w].request = r
        /\ worker'[w].operation = "evidence_put"
    BY <1>0, <1>1, <1>2, <1>6, Stepped DEF Steps, TypeOK
  <2>2. /\ DOMAIN admissions' = DOMAIN admissions \cup {Key(r)}
        /\ admissions'[Key(r)] = NewRow(r)
        /\ \A k \in DOMAIN admissions : admissions'[k] = admissions[k]
    BY <1>6 DEF Extend
  <2>3. ThreadSound(w)'
    <3>1. SameContent(r)'
      BY <2>2 DEF SameContent, Key, NewRow
    <3> QED
      BY <1>2, <2>1, <3>1 DEF ThreadSound
  <2>4. StoresSound'
    <3>1. \A k \in DOMAIN admissions' : admissions'[k].final => admissions'[k].content \in objects'
      <4>1. admissions'[Key(r)].final = FALSE
        BY <2>2 DEF NewRow
      <4> QED
        BY <1>2, <1>6, <2>2, <4>1 DEF StoresSound
    <3>2. \A x \in objects' : \E k \in HeldBy(x.producer)' : admissions'[k].content = x
      BY <1>2, <1>6, <2>2 DEF StoresSound, HeldBy
    <3> QED
      BY <3>1, <3>2 DEF StoresSound
  <2> QED
    BY <2>3, <2>4
<1>7. ReserveIf(w, SameContent(r), HeldBy(r.principal))
  BY <1>0 DEF Reserve
<1> QED
  BY <1>0, <1>3, <1>4, <1>5, <1>6, <1>7 DEF ReserveIf, NewRow, Kept

LEMMA UploadSound ==
  ASSUME TypeOK, AdmissionInv, NEW w \in Workers, Upload(w)
  PROVE  ThreadSound(w)' /\ StoresSound'
<1>0. PICK r : r = worker[w].request
  OBVIOUS
<1>1. /\ worker[w].step # "free" /\ worker[w] \in WorkerRecord
      /\ worker[w].step = "upload" /\ UNCHANGED admissions
      /\ objects' = objects \cup {r.envelope} /\ Step(w, "finalize")
  BY <1>0, WorkerRequest DEF Upload
<1>2. /\ worker[w].operation = "evidence_put" /\ r.envelope.producer = r.principal
      /\ SameContent(r) /\ StoresSound
  BY <1>0, <1>1 DEF AdmissionInv, ThreadSound
<1>3. /\ worker'[w].step = "finalize" /\ worker'[w].request = r
      /\ worker'[w].operation = "evidence_put"
  BY <1>0, <1>1, <1>2, Stepped DEF Steps, TypeOK
<1>4. SameContent(r)' /\ r.envelope \in objects'
  BY <1>1, <1>2 DEF SameContent, Key
<1>5. StoresSound'
  <2>1. Key(r) \in HeldBy(r.principal)' /\ admissions'[Key(r)].content = r.envelope
    BY <1>4 DEF SameContent, HeldBy, Key
  <2> QED
    BY <1>1, <1>2, <2>1 DEF StoresSound, HeldBy
<1> QED
  BY <1>2, <1>3, <1>4, <1>5 DEF ThreadSound

LEMMA FinalizeSound ==
  ASSUME TypeOK, AdmissionInv, NEW w \in Workers, Finalize(w)
  PROVE  ThreadSound(w)' /\ StoresSound'
<1>0. PICK r : r = worker[w].request
  OBVIOUS
<1>1. /\ worker[w].step # "free" /\ worker[w] \in WorkerRecord
      /\ worker[w].step = "finalize" /\ UNCHANGED objects
  BY WorkerRequest DEF Finalize
<1>2. /\ worker[w].operation = "evidence_put" /\ r.envelope.producer = r.principal
      /\ SameContent(r) /\ r.envelope \in objects /\ StoresSound
  BY <1>0, <1>1 DEF AdmissionInv, ThreadSound
<1>3. admissions' = [admissions EXCEPT ![Key(r)].final = TRUE] /\ Step(w, "readback")
  BY <1>0, <1>2 DEF Finalize
<1>4. /\ worker'[w].step = "readback" /\ worker'[w].request = r
      /\ worker'[w].operation = "evidence_put"
  BY <1>0, <1>1, <1>2, <1>3, Stepped DEF Steps, TypeOK
<1>5. /\ DOMAIN admissions' = DOMAIN admissions
      /\ \A k \in DOMAIN admissions :
           /\ admissions'[k].content = admissions[k].content
           /\ k # Key(r) => admissions'[k].final = admissions[k].final
      /\ Key(r) \in DOMAIN admissions /\ admissions'[Key(r)].final = TRUE
  <2>1. \A k \in DOMAIN admissions :
          admissions[k] \in [content : Envelope, final : BOOLEAN]
    BY DEF TypeOK
  <2> QED
    BY <1>2, <1>3, <2>1 DEF SameContent
<1>6. Kept(r)'
  BY <1>2, <1>5 DEF Kept, SameContent, Key
<1>7. StoresSound'
  <2>1. \A k \in DOMAIN admissions' : admissions'[k].final => admissions'[k].content \in objects'
    BY <1>1, <1>2, <1>5 DEF StoresSound, SameContent
  <2>2. \A x \in objects' : \E k \in HeldBy(x.producer)' : admissions'[k].content = x
    BY <1>1, <1>2, <1>5 DEF StoresSound, HeldBy
  <2> QED
    BY <2>1, <2>2 DEF StoresSound
<1> QED
  BY <1>2, <1>4, <1>6, <1>7 DEF ThreadSound, Kept

LEMMA ReadBackSound ==
  ASSUME TypeOK, AdmissionInv, NEW w \in Workers, ReadBack(w)
  PROVE  ThreadSound(w)' /\ StoresSound'
<1>0. PICK r : r = worker[w].request
  OBVIOUS
<1>1. /\ worker[w].step = "readback" /\ UNCHANGED <<admissions, objects>>
      /\ \E x \in {"ok", "corrupt"} : Finish(w, x)
  BY DEF ReadBack, stores
<1>2. Kept(r) /\ StoresSound
  BY <1>0, <1>1 DEF AdmissionInv, ThreadSound
<1>3. worker'[w].step = "reply" /\ worker'[w].request = r
  BY <1>0, <1>1, Finished DEF Results, TypeOK
<1>4. Kept(r)'
  BY <1>1, <1>2 DEF Kept, SameContent, Key
<1> QED
  BY <1>1, <1>2, <1>3, <1>4 DEF ThreadSound, StoresSound, HeldBy

LEMMA FailSound ==
  ASSUME TypeOK, AdmissionInv, NEW w \in Workers, Fail(w)
  PROVE  ThreadSound(w)'
<1>1. worker'[w].step = "reply" /\ worker'[w].result = "unavailable"
  BY Finished DEF Fail, Results, TypeOK
<1> QED
  BY <1>1 DEF ThreadSound

LEMMA GovernSound ==
  ASSUME TypeOK, AdmissionInv, NEW w \in Workers, Govern(w)
  PROVE  ThreadSound(w)' /\ GovernedIsEvidenced'
<1>0. PICK r : r = worker[w].request
  OBVIOUS
<1>1. /\ worker[w].step # "free" /\ worker[w] \in WorkerRecord
      /\ worker[w].step = "govern" /\ UNCHANGED <<admissions, objects>>
  BY WorkerRequest DEF Govern
<1>2. /\ worker[w].operation = "change_transition" /\ Owners[r.state] = r.principal
      /\ StoresSound /\ GovernedIsEvidenced
  BY <1>0, <1>1 DEF AdmissionInv, ThreadSound
<1>3. \E x \in {"corrupt", "ok", "conflict"} : Finish(w, x)
  BY DEF Govern
<1>4. /\ worker'[w].step = "reply" /\ worker'[w].operation = "change_transition"
  BY <1>1, <1>2, <1>3, Finished DEF Results, TypeOK
<1>5. ThreadSound(w)'
  BY <1>4 DEF ThreadSound
<1>6. CASE UNCHANGED ledger
  BY <1>1, <1>2, <1>5, <1>6 DEF GovernedIsEvidenced, HeldBy
<1>7. CASE /\ ledger' = ledger \cup {r} /\ Verified(r.envelope, r)
           /\ {e \in ledger : e.command = r.command} = {}
  <2>1. r.envelope.disposition = r.state /\ r.envelope.producer = r.principal
    BY <1>7 DEF Verified
  <2>2. \E k \in HeldBy(r.principal) : admissions[k].content = r.envelope
    BY <1>2, <1>7, <2>1 DEF Verified, StoresSound
  <2>3. \A e \in ledger' :
          /\ Owners[e.state] = e.principal /\ e.envelope.disposition = e.state
          /\ \E k \in HeldBy(e.principal)' : admissions'[k].content = e.envelope
    BY <1>1, <1>2, <1>7, <2>1, <2>2 DEF GovernedIsEvidenced, HeldBy
  <2>4. \A e, f \in ledger' : e.command = f.command => e = f
    BY <1>2, <1>7 DEF GovernedIsEvidenced
  <2> QED
    BY <1>5, <2>3, <2>4 DEF GovernedIsEvidenced
<1> QED
  BY <1>0, <1>6, <1>7, <1>5 DEF Govern

LEMMA HandlerSound ==
  ASSUME TypeOK, AdmissionInv, NEW w \in Workers,
         Admit(w) \/ Reserve(w) \/ Upload(w) \/ Finalize(w) \/ ReadBack(w) \/ Govern(w)
         \/ Fail(w)
  PROVE  AdmissionInv'
<1>1. Stores /\ Grows
  BY HandlerShape, StoresGrow DEF Shape
<1>2. worker[w].step # "free" /\ UNCHANGED caller
  BY DEF Admit, Reserve, ReserveIf, Upload, Finalize, ReadBack, Govern, Fail
<1>3. Moves(w)
  <2>1. (\E s \in Steps : Step(w, s)) \/ (\E x \in Results : Finish(w, x))
    BY DEF Admit, Reserve, ReserveIf, Upload, Finalize, ReadBack, Govern, Fail, Steps, Results
  <2> QED
    BY <1>2, <2>1, Stepped, Finished
<1>4. ThreadSound(w)'
  BY AdmitSound, ReserveSound, UploadSound, FinalizeSound, ReadBackSound, GovernSound, FailSound
<1>5. StoresSound'
  <2>1. CASE Admit(w) \/ Govern(w) \/ Fail(w)
    <3>1. UNCHANGED <<admissions, objects>>
      BY <2>1 DEF Admit, Govern, Fail, stores
    <3> QED
      BY <3>1 DEF AdmissionInv, StoresSound, HeldBy
  <2> QED
    BY <2>1, ReserveSound, UploadSound, FinalizeSound, ReadBackSound
<1>6. GovernedIsEvidenced'
  <2>1. CASE Govern(w)
    BY <2>1, GovernSound
  <2>2. CASE ~Govern(w)
    BY <1>1, <2>2, StoresStay DEF Admit, Reserve, ReserveIf, Upload, Finalize, ReadBack, Fail, stores
  <2> QED
    BY <2>1, <2>2
<1> QED
  BY <1>1, <1>2, <1>3, <1>4, <1>5, <1>6, MoveSound DEF AdmissionInv

\* What every step does that leaves the stores alone.
LEMMA OutsideSound ==
  ASSUME AdmissionInv, UNCHANGED stores,
         \A w \in Workers : ThreadSound(w)', \A c \in Callers : CallerSound(c)'
  PROVE  AdmissionInv'
BY DEF AdmissionInv, stores, StoresSound, GovernedIsEvidenced, HeldBy

LEMMA AcceptSound ==
  ASSUME TypeOK, AdmissionInv, NEW c \in Callers, NEW w \in Workers, NEW r \in Requests,
         NEW operation \in DOMAIN Operations, Accept(c, w, operation, r)
  PROVE  AdmissionInv'
<1>1. Grows /\ UNCHANGED stores
  BY DEF Accept, TurnAway, Take, stores, Grows
<1>2. worker \in [Workers -> WorkerRecord \cup {Free}] /\ caller \in [Callers -> CallerRecord]
  BY CallerType DEF TypeOK
<1>3. CASE TurnAway(c)
  <2>1. \A v \in Workers : ThreadSound(v)'
    BY <1>1, <1>3, ThreadStays DEF TurnAway, AdmissionInv
  <2>2. ASSUME NEW d \in Callers
        PROVE  CallerSound(d)'
    BY <1>1, <1>2, <1>3, CallerWaits DEF TurnAway
  <2> QED
    BY <1>1, <2>1, <2>2, OutsideSound
<1>4. CASE Take(c, w, operation, r)
  <2>1. /\ worker[w] = Free
        /\ worker'[w] = [step |-> "admit", operation |-> operation, request |-> r,
                         result |-> None]
        /\ \A v \in Workers : v # w => worker'[v] = worker[v]
        /\ caller'[c] = [pc |-> operation, request |-> r, worker |-> w]
        /\ \A d \in Callers : d # c => caller'[d] = caller[d]
    BY <1>2, <1>4 DEF Take
  <2>2. ThreadSound(w)'
    BY <2>1 DEF ThreadSound
  <2>3. \A v \in Workers : ThreadSound(v)'
    BY <1>1, <2>1, <2>2, ThreadStays DEF AdmissionInv
  <2>4. CallerSound(c)'
    <3>1. worker'[w] # Free
      BY <2>1, FreeHasNoStep
    <3> QED
      BY <2>1, <3>1, OperationsNamed DEF CallerSound
  <2>5. ASSUME NEW d \in Callers, d # c
        PROVE  CallerSound(d)'
    BY <1>1, <2>1, <2>5, CallerStays DEF AdmissionInv, CallerSound
  <2> QED
    BY <1>1, <2>3, <2>4, <2>5, OutsideSound
<1> QED
  BY <1>3, <1>4 DEF Accept

LEMMA ReplySound ==
  ASSUME TypeOK, AdmissionInv, NEW w \in Workers, Reply(w)
  PROVE  AdmissionInv'
<1>1. Grows /\ UNCHANGED stores
  BY DEF Reply, Deliver, stores, Grows
<1>2. worker \in [Workers -> WorkerRecord \cup {Free}] /\ caller \in [Callers -> CallerRecord]
  BY CallerType DEF TypeOK
<1>3. worker'[w] = Free /\ \A v \in Workers : v # w => worker'[v] = worker[v]
  BY <1>2 DEF Reply, Deliver
<1>4. \A v \in Workers : ThreadSound(v)'
  BY <1>1, <1>3, ThreadStays, FreeSound DEF AdmissionInv
<1>5. ASSUME NEW c \in Callers
      PROVE  CallerSound(c)'
  <2>1. CASE c \notin Waiting(w)
    <3>1. caller'[c] = caller[c]
      BY <2>1 DEF Reply, Deliver
    <3> QED
      BY <1>1, <1>3, <2>1, <3>1, CallerStays DEF AdmissionInv, CallerSound, Waiting
  <2>2. CASE c \in Waiting(w) /\ caller[c].pc = "evidence_put" /\ worker[w].result = "ok"
    <3>0. PICK r : r = caller[c].request
      OBVIOUS
    <3>1. caller'[c] = [pc |-> "admitted", request |-> r]
      BY <2>2, <3>0 DEF Reply, Deliver
    <3>2. worker[w].operation = "evidence_put" /\ worker[w].request = r
      BY <2>2, <3>0, OperationsNamed DEF AdmissionInv, CallerSound, Waiting
    <3>3. Kept(r)
      BY <2>2, <3>2 DEF AdmissionInv, ThreadSound, Reply
    <3>4. Kept(r)'
      BY <1>1, <3>3, RowsStay
    <3> QED
      BY <3>1, <3>4, OperationsNamed DEF CallerSound
  <2>3. CASE c \in Waiting(w) /\ ~(caller[c].pc = "evidence_put" /\ worker[w].result = "ok")
    <3>1. caller'[c] = Idle
      BY <2>3 DEF Reply, Deliver
    <3> QED
      BY <3>1, IdleSound
  <2> QED
    BY <2>1, <2>2, <2>3
<1> QED
  BY <1>1, <1>4, <1>5, OutsideSound

LEMMA AdmissionStep == ASSUME TypeOK, AdmissionInv, [Next]_vars PROVE AdmissionInv'
<1>0. worker \in [Workers -> WorkerRecord \cup {Free}] /\ caller \in [Callers -> CallerRecord]
  BY CallerType DEF TypeOK
<1>1. CASE UNCHANGED vars \/ Start
  <2>1. UNCHANGED <<worker, caller, stores>> /\ Grows
    BY <1>1 DEF vars, Start, stores, Grows
  <2> QED
    BY <2>1, ThreadStays, CallerWaits, OutsideSound DEF AdmissionInv
<1>2. CASE Stop
  <2>1. UNCHANGED stores /\ Grows
    BY <1>2 DEF Stop, stores, Grows
  <2>2. \A w \in Workers : ThreadSound(w)'
    BY <1>2, FreeSound DEF Stop
  <2>3. ASSUME NEW c \in Callers
        PROVE  CallerSound(c)'
    <3>1. CASE caller[c].pc \in DOMAIN Operations
      BY <1>2, <3>1, IdleSound DEF Stop
    <3>2. CASE caller[c].pc \notin DOMAIN Operations
      BY <1>2, <2>1, <3>2, CallerStays DEF Stop, AdmissionInv
    <3> QED
      BY <3>1, <3>2
  <2> QED
    BY <2>1, <2>2, <2>3, OutsideSound
<1>3. ASSUME NEW c \in Callers, NEW w \in Workers, NEW r \in Requests,
             SendEvidence(c, w, r) \/ SendQuoting(c, w, r)
      PROVE  AdmissionInv'
  BY <1>3, AcceptSound, OperationsNamed DEF SendEvidence, SendQuoting
<1>4. ASSUME NEW c \in Callers, NEW w \in Workers, SendGoverned(c, w)
      PROVE  AdmissionInv'
  <2>1. caller[c].request \in Requests
    BY <1>0, <1>4, OperationsNamed DEF SendGoverned, CallerRecord, Idle
  <2> QED
    BY <1>4, <2>1, AcceptSound, OperationsNamed DEF SendGoverned
<1>5. ASSUME NEW c \in Callers, Abandon(c)
      PROVE  AdmissionInv'
  <2>1. /\ UNCHANGED <<worker, stores>> /\ Grows /\ caller'[c] = Idle
        /\ \A d \in Callers : d # c => caller'[d] = caller[d]
    BY <1>0, <1>5 DEF Abandon, stores, Grows
  <2>2. \A d \in Callers : CallerSound(d)'
    BY <2>1, CallerWaits
  <2> QED
    BY <2>1, <2>2, ThreadStays, OutsideSound DEF AdmissionInv
<1>6. ASSUME NEW w \in Workers, Advance(w) \/ Fail(w)
      PROVE  AdmissionInv'
  BY <1>6, HandlerSound, ReplySound DEF Advance
<1> QED
  BY <1>1, <1>2, <1>3, <1>4, <1>5, <1>6 DEF Next

LEMMA AdmissionInit == ASSUME Init PROVE AdmissionInv
<1>1. \A w \in Workers : ThreadSound(w)
  BY DEF Init, Free, ThreadSound
<1>2. \A c \in Callers : CallerSound(c)
  BY OperationsNamed DEF Init, Idle, CallerSound
<1> QED
  BY <1>1, <1>2 DEF Init, AdmissionInv, StoresSound, GovernedIsEvidenced

LEMMA Admitted == Spec => [](TypeInv /\ AdmissionInv)
<1>1. TypeInv /\ AdmissionInv /\ [Next]_vars => (TypeInv /\ AdmissionInv)'
  BY TypeStep, AdmissionStep DEF TypeInv
<1> QED
  BY <1>1, TypeInit, AdmissionInit, PTL DEF Spec

\* AdmissionIsDurable for every interleaving of any number of handlers, failures and
\* retries: put_envelope hands out only references whose row and object stay.
THEOREM ReferencesStand == Spec => []AdmissionIsDurable
<1>1. AdmissionInv => AdmissionIsDurable
  BY DEF AdmissionInv, StoresSound, CallerSound, Kept, AdmissionIsDurable
<1> QED
  BY <1>1, Admitted, PTL

\* GovernedIsEvidenced for every set of requests: verify_record and the object store
\* only let a service commit its own state on evidence it had admitted itself.
THEOREM CommandsAreEvidenced == Spec => []GovernedIsEvidenced
<1>1. AdmissionInv => GovernedIsEvidenced
  BY DEF AdmissionInv
<1> QED
  BY <1>1, Admitted, PTL

-----------------------------------------------------------------------------
(* The admission implements the register *)

\* An answer has one addressee: two callers never wait for the same thread.
WaitAlone ==
  \A c, d \in Callers :
    /\ caller[c].pc \in DOMAIN Operations /\ caller[d].pc \in DOMAIN Operations
    /\ caller[c].worker = caller[d].worker
    => c = d

LEMMA WaitAloneKept ==
  ASSUME WaitAlone, \A c \in Callers :
           caller'[c].pc \in DOMAIN Operations => caller'[c] = caller[c]
  PROVE  WaitAlone'
BY DEF WaitAlone

LEMMA AcceptAlone ==
  ASSUME TypeOK, AdmissionInv, WaitAlone, NEW c \in Callers, NEW w \in Workers,
         NEW r \in Requests, NEW operation \in DOMAIN Operations, Accept(c, w, operation, r)
  PROVE  WaitAlone'
<1>0. caller \in [Callers -> CallerRecord]
  BY CallerType DEF TypeOK
<1>1. CASE TurnAway(c)
  <2>1. \A d \in Callers : caller'[d].pc \in DOMAIN Operations => caller'[d] = caller[d]
    BY <1>0, <1>1, OperationsNamed DEF TurnAway, Idle
  <2> QED
    BY <2>1, WaitAloneKept
<1>2. CASE Take(c, w, operation, r)
  <2>1. /\ worker[w] = Free
        /\ caller'[c].worker = w
        /\ \A d \in Callers : d # c => caller'[d] = caller[d]
    BY <1>0, <1>2 DEF Take
  <2>2. \A d \in Callers : caller[d].pc \in DOMAIN Operations => caller[d].worker # w
    BY <2>1 DEF AdmissionInv, CallerSound
  <2> QED
    BY <2>1, <2>2 DEF WaitAlone
<1> QED
  BY <1>1, <1>2 DEF Accept

LEMMA AloneStep == ASSUME TypeOK, AdmissionInv, WaitAlone, [Next]_vars PROVE WaitAlone'
<1>0. caller \in [Callers -> CallerRecord]
  BY CallerType DEF TypeOK
<1>1. CASE UNCHANGED caller
  BY <1>1, WaitAloneKept
<1>2. CASE Stop
  <2>1. \A c \in Callers : caller'[c].pc \in DOMAIN Operations => caller'[c] = caller[c]
    BY <1>2, OperationsNamed DEF Stop, Idle
  <2> QED
    BY <2>1, WaitAloneKept
<1>3. ASSUME NEW c \in Callers, NEW w \in Workers, NEW r \in Requests,
             SendEvidence(c, w, r) \/ SendQuoting(c, w, r)
      PROVE  WaitAlone'
  BY <1>3, AcceptAlone, OperationsNamed DEF SendEvidence, SendQuoting
<1>4. ASSUME NEW c \in Callers, NEW w \in Workers, SendGoverned(c, w)
      PROVE  WaitAlone'
  <2>1. caller[c].request \in Requests
    BY <1>0, <1>4, OperationsNamed DEF SendGoverned, CallerRecord, Idle
  <2> QED
    BY <1>4, <2>1, AcceptAlone, OperationsNamed DEF SendGoverned
<1>5. ASSUME NEW c \in Callers, Abandon(c)
      PROVE  WaitAlone'
  <2>1. \A d \in Callers : caller'[d].pc \in DOMAIN Operations => caller'[d] = caller[d]
    BY <1>0, <1>5, OperationsNamed DEF Abandon, Idle
  <2> QED
    BY <2>1, WaitAloneKept
<1>6. ASSUME NEW w \in Workers, Reply(w)
      PROVE  WaitAlone'
  <2>1. ASSUME NEW c \in Callers, caller'[c].pc \in DOMAIN Operations
        PROVE  caller'[c] = caller[c]
    <3>1. CASE c \notin Waiting(w)
      BY <1>6, <3>1 DEF Reply, Deliver
    <3>2. CASE c \in Waiting(w)
      <4>1. PICK r : r = caller[c].request
        OBVIOUS
      <4>2. caller'[c] = Idle \/ caller'[c] = [pc |-> "admitted", request |-> r]
        BY <1>6, <3>2, <4>1 DEF Reply, Deliver
      <4> QED
        BY <2>1, <4>2, OperationsNamed DEF Idle
    <3> QED
      BY <3>1, <3>2
  <2> QED
    BY <2>1, WaitAloneKept
<1> QED
  BY <1>1, <1>2, <1>3, <1>4, <1>5, <1>6
     DEF Next, Advance, vars, Start, Admit, Reserve, ReserveIf, Upload, Finalize, ReadBack,
         Govern, Fail

RegisterInv == TypeInv /\ AdmissionInv /\ WaitAlone

\* A row is durable when it is final: its bytes are there.
LEMMA FinalIsDurable ==
  ASSUME StoresSound
  PROVE  Durable = {k \in DOMAIN admissions : admissions[k].final}
BY DEF StoresSound, Durable

LEMMA KeptIsAdmitted ==
  ASSUME AdmissionInv, NEW r, Kept(r)
  PROVE  Register!Key(r) \in Durable /\ Bound[Register!Key(r)] = r.envelope
BY FinalIsDurable DEF AdmissionInv, Kept, SameContent, Key, Register!Key, Bound

\* The register counts as the admission does.
LEMMA CountsAgree == ASSUME NEW S PROVE Register!Cardinality(S) = Cardinality(S)
BY DEF Cardinality, Register!Cardinality

LEMMA HoldsStays ==
  ASSUME UNCHANGED caller
  PROVE  Holds' = Holds
BY DEF Holds

LEMMA HoldsMoves ==
  ASSUME NEW c \in Callers, \A d \in Callers : d # c => caller'[d] = caller[d]
  PROVE  Holds' = [Holds EXCEPT ![c] =
                     IF caller'[c].pc = "admitted" THEN {caller'[c].request} ELSE {}]
BY DEF Holds

LEMMA StoresStutter ==
  ASSUME UNCHANGED stores
  PROVE  UNCHANGED <<Bound, Durable, ledger>>
BY DEF stores, Bound, Durable

\* A caller that goes on, gives up or is turned away keeps no reference.
LEMMA ForgetStep ==
  ASSUME TypeOK, UNCHANGED stores, NEW c \in Callers,
         NEW x, caller' = [caller EXCEPT ![c] = x], x.pc # "admitted"
  PROVE  Register!Forget(c)
<1>1. caller \in [Callers -> CallerRecord]
  BY CallerType DEF TypeOK
<1>2. /\ caller'[c] = x
      /\ \A d \in Callers : d # c => caller'[d] = caller[d]
  BY <1>1
<1>3. Holds' = [Holds EXCEPT ![c] = {}]
  BY <1>2, HoldsMoves
<1> QED
  BY <1>3, StoresStutter DEF Register!Forget

LEMMA AcceptForgets ==
  ASSUME TypeOK, NEW c \in Callers, NEW w \in Workers, NEW r,
         NEW operation \in DOMAIN Operations, Accept(c, w, operation, r)
  PROVE  Register!Forget(c)
<1>1. UNCHANGED stores
  BY DEF Accept, TurnAway, Take
<1>2. CASE TurnAway(c)
  <2>1. PICK x : x = Idle
    OBVIOUS
  <2>2. x.pc # "admitted"
    BY <2>1 DEF Idle
  <2> QED
    BY <1>1, <1>2, <2>1, <2>2, ForgetStep DEF TurnAway
<1>3. CASE Take(c, w, operation, r)
  <2>1. PICK x : x = [pc |-> operation, request |-> r, worker |-> w]
    OBVIOUS
  <2>2. x.pc # "admitted"
    BY <2>1, OperationsNamed
  <2> QED
    BY <1>1, <1>3, <2>1, <2>2, ForgetStep DEF Take
<1> QED
  BY <1>2, <1>3 DEF Accept

\* The reference goes to the one caller that waits, and is good.
LEMMA HandStep ==
  ASSUME RegisterInv, NEW w \in Workers, Reply(w)
  PROVE  [Register!Next]_Register!vars
<1>0. caller \in [Callers -> CallerRecord] /\ UNCHANGED stores
  BY CallerType DEF RegisterInv, TypeInv, TypeOK, Reply, Deliver
<1>1. CASE Waiting(w) = {}
  <2>1. \A c \in Callers : caller'[c] = caller[c]
    BY <1>1 DEF Reply, Deliver
  <2>2. Holds' = Holds
    BY <2>1 DEF Holds
  <2> QED
    BY <1>0, <2>2, StoresStutter DEF Register!vars
<1>2. ASSUME NEW c \in Waiting(w)
      PROVE  Register!Next
  <2>1. /\ c \in Callers
        /\ \A d \in Callers : d # c => d \notin Waiting(w)
    BY <1>2 DEF Waiting, RegisterInv, WaitAlone
  <2>2. \A d \in Callers : d # c => caller'[d] = caller[d]
    BY <2>1 DEF Reply, Deliver
  <2>3. PICK r \in Requests : r = caller[c].request
    BY <1>0, <1>2, <2>1, OperationsNamed DEF Waiting, CallerRecord, Idle
  <2>4. CASE caller[c].pc = "evidence_put" /\ worker[w].result = "ok"
    <3>1. worker[w].operation = "evidence_put" /\ worker[w].request = r
      BY <1>2, <2>1, <2>3, <2>4, OperationsNamed DEF RegisterInv, AdmissionInv, CallerSound, Waiting
    <3>2. Kept(r)
      BY <2>4, <3>1 DEF RegisterInv, AdmissionInv, ThreadSound, Reply
    <3>3. caller'[c] = [pc |-> "admitted", request |-> r]
      BY <1>2, <2>1, <2>3, <2>4 DEF Reply, Deliver
    <3>4. Holds' = [Holds EXCEPT ![c] = {r}]
      BY <2>1, <2>2, <3>3, HoldsMoves
    <3>5. Register!Hand(c, r)
      BY <1>0, <3>2, <3>4, KeptIsAdmitted, StoresStutter DEF Register!Hand, RegisterInv
    <3> QED
      BY <2>1, <3>5 DEF Register!Next
  <2>5. CASE ~(caller[c].pc = "evidence_put" /\ worker[w].result = "ok")
    <3>1. caller'[c] = Idle
      BY <1>2, <2>1, <2>5 DEF Reply, Deliver
    <3>2. Holds' = [Holds EXCEPT ![c] = {}]
      BY <2>1, <2>2, <3>1, HoldsMoves DEF Idle
    <3>3. Register!Forget(c)
      BY <1>0, <3>2, StoresStutter DEF Register!Forget
    <3> QED
      BY <2>1, <3>3 DEF Register!Next
  <2> QED
    BY <2>4, <2>5
<1> QED
  BY <1>1, <1>2

\* What a handler does to the stores is one step of the register, or none.
LEMMA StoresImplement ==
  ASSUME RegisterInv, RegisterInv', Stores, UNCHANGED caller
  PROVE  [Register!Next]_Register!vars
<1>0. Holds' = Holds
  BY HoldsStays
<1>1. /\ Durable = {k \in DOMAIN admissions : admissions[k].final}
      /\ Durable' = {k \in DOMAIN admissions' : admissions'[k].final}
  BY DEF RegisterInv, AdmissionInv, StoresSound, Durable
<1>2. CASE UNCHANGED stores
  BY <1>0, <1>2, StoresStutter DEF Register!vars
<1>3. ASSUME NEW r \in Requests,
             Key(r) \notin DOMAIN admissions, ~(Cardinality(HeldBy(r.principal)) >= Quota),
             admissions' = Extend(admissions, Key(r), NewRow(r)),
             UNCHANGED <<objects, ledger>>
      PROVE  Register!Next
  <2>1. /\ DOMAIN admissions' = DOMAIN admissions \cup {Key(r)}
        /\ admissions'[Key(r)].content = r.envelope /\ admissions'[Key(r)].final = FALSE
        /\ \A k \in DOMAIN admissions : admissions'[k] = admissions[k]
    BY <1>3 DEF Extend, NewRow
  <2>2. Durable' = Durable
    BY <1>1, <1>3, <2>1
  <2>3. DOMAIN Bound = DOMAIN admissions
    BY DEF Bound
  <2>4. Bound' = [k \in DOMAIN Bound \cup {Key(r)} |-> IF k = Key(r) THEN r.envelope ELSE Bound[k]]
    BY <1>3, <2>1 DEF Bound
  <2>5. Cardinality({k \in DOMAIN Bound : k[1] = r.principal}) < Quota
    <3>1. {k \in DOMAIN Bound : k[1] = r.principal} = HeldBy(r.principal)
      BY <2>3 DEF HeldBy
    <3>2. Cardinality(HeldBy(r.principal)) \in Nat /\ Quota \in Nat
      BY HeldFinite, AdmissionAssumption DEF RegisterInv, TypeInv, QuotaInv, AdmissionAssumption
    <3>3. Cardinality(HeldBy(r.principal)) < Quota
      BY <1>3, <3>2
    <3> QED
      BY <3>1, <3>3
  <2>6. Register!Bind(r)
    BY <1>0, <1>3, <2>2, <2>3, <2>4, <2>5, CountsAgree DEF Register!Bind, Register!Key, Key
  <2> QED
    BY <2>6 DEF Register!Next
<1>4. CASE UNCHANGED <<admissions, ledger>>
  <2>1. Bound' = Bound /\ Durable' = Durable
    BY <1>1, <1>4 DEF Bound
  <2> QED
    BY <1>0, <1>4, <2>1 DEF Register!vars
<1>5. ASSUME NEW r \in Requests, SameContent(r),
             admissions' = [admissions EXCEPT ![Key(r)].final = TRUE],
             UNCHANGED <<objects, ledger>>
      PROVE  Register!Next
  <2>1. \A k \in DOMAIN admissions : admissions[k] \in [content : Envelope, final : BOOLEAN]
    BY DEF RegisterInv, TypeInv, TypeOK
  <2>2. /\ DOMAIN admissions' = DOMAIN admissions
        /\ \A k \in DOMAIN admissions :
             /\ admissions'[k].content = admissions[k].content
             /\ k # Key(r) => admissions'[k].final = admissions[k].final
        /\ Key(r) \in DOMAIN admissions /\ admissions'[Key(r)].final = TRUE
    BY <1>5, <2>1 DEF SameContent
  <2>3. Bound' = Bound
    BY <2>2 DEF Bound
  <2>4. Durable' = Durable \cup {Key(r)}
    BY <1>1, <2>2
  <2>5. Key(r) \in DOMAIN Bound /\ Bound[Key(r)] = r.envelope
    BY <1>5 DEF SameContent, Bound
  <2>6. Register!Admit(r)
    BY <1>0, <1>5, <2>3, <2>4, <2>5 DEF Register!Admit, Register!Key, Key
  <2> QED
    BY <2>6 DEF Register!Next
<1>6. ASSUME NEW r \in Requests, Verified(r.envelope, r),
             {e \in ledger : e.command = r.command} = {},
             ledger' = ledger \cup {r}, UNCHANGED <<admissions, objects>>
      PROVE  Register!Next
  <2>1. Bound' = Bound /\ Durable' = Durable
    BY <1>6 DEF Bound, Durable
  <2>2. Owners[r.state] = r.principal
    BY <1>6 DEF RegisterInv, AdmissionInv, GovernedIsEvidenced
  <2>3. \E k \in DOMAIN Bound : k[1] = r.principal /\ Bound[k] = r.envelope
    BY <1>6 DEF RegisterInv, AdmissionInv, StoresSound, Verified, HeldBy, Bound
  <2>4. Register!Commit(r)
    BY <1>0, <1>6, <2>1, <2>2, <2>3 DEF Register!Commit, Verified
  <2> QED
    BY <2>4 DEF Register!Next
<1> QED
  BY <1>2, <1>3, <1>4, <1>5, <1>6 DEF Stores

LEMMA StepImplementsRegister ==
  ASSUME RegisterInv, RegisterInv', [Next]_vars
  PROVE  [Register!Next]_Register!vars
<1>0. TypeOK /\ caller \in [Callers -> CallerRecord]
  BY CallerType DEF RegisterInv, TypeInv, TypeOK
<1>1. CASE UNCHANGED vars \/ Start
  <2>1. UNCHANGED <<caller, stores>>
    BY <1>1 DEF vars, Start, stores
  <2> QED
    BY <2>1, HoldsStays, StoresStutter DEF Register!vars
<1>2. CASE Stop
  <2>1. ASSUME NEW c \in Callers
        PROVE  /\ caller'[c].pc = "admitted" <=> caller[c].pc = "admitted"
               /\ caller[c].pc = "admitted" => caller'[c] = caller[c]
    BY <1>2, OperationsNamed DEF Stop, Idle
  <2>2. Holds' = Holds
    BY <2>1 DEF Holds
  <2>3. UNCHANGED stores
    BY <1>2 DEF Stop
  <2> QED
    BY <2>2, <2>3, StoresStutter DEF Register!vars
<1>3. ASSUME NEW c \in Callers, NEW w \in Workers, NEW r \in Requests,
             SendEvidence(c, w, r) \/ SendQuoting(c, w, r)
      PROVE  Register!Next
  <2>1. Register!Forget(c)
    BY <1>0, <1>3, AcceptForgets, OperationsNamed DEF SendEvidence, SendQuoting
  <2> QED
    BY <2>1 DEF Register!Next
<1>4. ASSUME NEW c \in Callers, NEW w \in Workers, SendGoverned(c, w)
      PROVE  Register!Next
  <2>1. Register!Forget(c)
    BY <1>0, <1>4, AcceptForgets, OperationsNamed DEF SendGoverned
  <2> QED
    BY <2>1 DEF Register!Next
<1>5. ASSUME NEW c \in Callers, Abandon(c)
      PROVE  Register!Next
  <2>1. Register!Forget(c)
    <3>1. PICK x : x = Idle
      OBVIOUS
    <3>2. x.pc # "admitted"
      BY <3>1 DEF Idle
    <3> QED
      BY <1>0, <1>5, <3>1, <3>2, ForgetStep DEF Abandon
  <2> QED
    BY <2>1 DEF Register!Next
<1>6. ASSUME NEW w \in Workers,
             Admit(w) \/ Reserve(w) \/ Upload(w) \/ Finalize(w) \/ ReadBack(w) \/ Govern(w)
             \/ Fail(w)
      PROVE  [Register!Next]_Register!vars
  <2>1. Stores
    BY <1>0, <1>6, HandlerShape DEF Shape
  <2>2. UNCHANGED caller
    BY <1>6 DEF Admit, Reserve, ReserveIf, Upload, Finalize, ReadBack, Govern, Fail
  <2> QED
    BY <2>1, <2>2, StoresImplement
<1>7. ASSUME NEW w \in Workers, Reply(w)
      PROVE  [Register!Next]_Register!vars
  BY <1>7, HandStep
<1> QED
  BY <1>1, <1>2, <1>3, <1>4, <1>5, <1>6, <1>7 DEF Next, Advance

LEMMA RegisterInit == ASSUME Init PROVE WaitAlone /\ Register!Init
<1>1. \A c \in Callers : caller[c].pc = "idle"
  BY DEF Init, Idle
<1>2. WaitAlone
  BY <1>1, OperationsNamed DEF WaitAlone
<1>3. Holds = [c \in Callers |-> {}]
  BY <1>1 DEF Holds
<1>4. DOMAIN admissions = {}
  BY DEF Init
<1>5. Bound = <<>> /\ Durable = {}
  BY <1>4 DEF Bound, Durable
<1> QED
  BY <1>2, <1>3, <1>5 DEF Init, Register!Init

\* The admission is one register: of the many steps of any number of handlers, each
\* binds a command, admits its content, hands a reference to the caller that asked,
\* commits a governed command, or shows nothing.
THEOREM RegisterImplemented == Spec => ImplementsRegister
<1>1. Init => RegisterInv /\ Register!Init
  BY TypeInit, AdmissionInit, RegisterInit DEF RegisterInv
<1>2. RegisterInv /\ [Next]_vars => RegisterInv'
  BY TypeStep, AdmissionStep, AloneStep DEF RegisterInv, TypeInv
<1>3. RegisterInv /\ RegisterInv' /\ [Next]_vars => [Register!Next]_Register!vars
  BY StepImplementsRegister
<1> QED
  BY <1>1, <1>2, <1>3, PTL DEF Spec, ImplementsRegister, Register!Spec
=============================================================================
