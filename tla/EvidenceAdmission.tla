-------------------------- MODULE EvidenceAdmission --------------------------
(***************************************************************************)
(* The state service as its callers meet it: the socket and its bounded    *)
(* workers (service.py, protocol.py), the admission of evidence in three   *)
(* stores' worth of steps - reserve a row, upload the object, finalize the *)
(* row, read back (evidence.py, repository.py) - and the governed command  *)
(* that quotes the evidence.  A caller (change_role.py) makes two          *)
(* exchanges, stops waiting when its socket times out, and may try again   *)
(* while the first worker is still busy.                                   *)
(***************************************************************************)
EXTENDS Naturals, FiniteSets

CONSTANTS
  Callers,     \* threads of role services, each with one exchange at a time
  Workers,     \* max_workers handler threads
  Commands,    \* command identities
  Requests,    \* what callers ask: principal, command, envelope and new state
  Quota        \* evidence rows a producer may ever hold

VARIABLES
  server,      \* the state process and its socket: "up" or "down"
  capacity,    \* the BoundedSemaphore
  worker,      \* the request each handler thread is in, and its next step
  caller,      \* the exchange each caller is in
  admissions,  \* evidence_admissions: <<producer, command>> -> digest, and whether
               \* the reference is in (the digest determines it)
  objects,     \* the contents in the bucket
  ledger       \* governed commands that were committed

stores == <<admissions, objects, ledger>>
vars == <<server, capacity, worker, caller, admissions, objects, ledger>>

-----------------------------------------------------------------------------
(* Tables *)

\* which envelopes a service may produce: operation prefixes and source schemes
Families == [
  state      |-> [operations |-> {"activation"}, sources |-> {"sha256"}],
  authority  |-> [operations |-> {"authority"}, sources |-> {"sha256"}],
  effects    |-> [operations |-> {"effect"}, sources |-> {"provider", "sha256"}],
  runtime    |-> [operations |-> {"change", "package"}, sources |-> {"sha256", "generation"}],
  abi        |-> [operations |-> {"command"}, sources |-> {"sha256"}],
  controller |-> [operations |-> {"change", "package"}, sources |-> {"sha256", "generation"}],
  packages   |-> [operations |-> {"package", "capability-set"},
                  sources |-> {"sha256", "generation"}],
  evaluator  |-> [operations |-> {"change"}, sources |-> {"sha256"}],
  signer     |-> [operations |-> {"change"}, sources |-> {"sha256"}],
  health     |-> [operations |-> {"change"}, sources |-> {"sha256", "generation"}]]

\* the service whose command a governed state is
Owners == [BUILT |-> "controller", STAGED |-> "controller", ACTIVATED |-> "controller",
           ROLLED_BACK |-> "controller", EVALUATED |-> "evaluator",
           REJECTED |-> "evaluator", SIGNED |-> "signer", CONFIRMED |-> "health",
           QUARANTINED |-> "health"]

\* services that may send an operation, of the two this module follows
Operations == [
  evidence_put |-> DOMAIN Families \ {"state"},
  change_transition |-> {"runtime", "controller", "evaluator", "signer", "health"}]

Envelope == [producer : DOMAIN Families, subject : {"candidate"},
             operation : {"change", "effect"}, source : {"sha256", "generation"},
             disposition : DOMAIN Owners, payload : {0, 1}]

ASSUME AdmissionAssumption ==
  /\ Quota \in Nat /\ IsFiniteSet(Workers)
  /\ Requests \subseteq [principal : DOMAIN Families, command : Commands,
                         envelope : Envelope, state : DOMAIN Owners]

-----------------------------------------------------------------------------
(* Helpers *)

None == "none"
Free == [step |-> "free"]
Idle == [pc |-> "idle"]
Key(r) == <<r.principal, r.command>>
Extend(f, x, y) == [z \in DOMAIN f \cup {x} |-> IF z = x THEN y ELSE f[z]]
HeldBy(p) == {k \in DOMAIN admissions : k[1] = p}
Step(w, step) == worker' = [worker EXCEPT ![w].step = step]
Finish(w, result) == worker' = [worker EXCEPT ![w].step = "reply", ![w].result = result]

\* put_envelope's checks of an envelope against the authenticated caller
Canonical(x, principal) ==
  /\ x.producer = principal
  /\ x.operation \in Families[principal].operations
  /\ x.source \in Families[principal].sources

Init ==
  /\ server = "down"
  /\ capacity = Cardinality(Workers)
  /\ worker = [w \in Workers |-> Free]
  /\ caller = [c \in Callers |-> Idle]
  /\ admissions = <<>> /\ objects = {} /\ ledger = {}

-----------------------------------------------------------------------------
(* The service process *)

\* migrations and recovery first, then the socket: nothing is served before
Start ==
  /\ server = "down"
  /\ server' = "up"
  /\ UNCHANGED <<capacity, worker, caller, stores>>

\* stop or crash: the handler threads are daemons and die, and the connections of
\* their callers break
Stop ==
  /\ server = "up"
  /\ server' = "down"
  /\ capacity' = Cardinality(Workers)
  /\ worker' = [w \in Workers |-> Free]
  /\ caller' = [c \in Callers |->
                 IF caller[c].pc \in DOMAIN Operations THEN Idle ELSE caller[c]]
  /\ UNCHANGED stores

TurnAway(c) ==
  /\ capacity = 0
  /\ caller' = [caller EXCEPT ![c] = Idle]
  /\ UNCHANGED <<server, worker, stores>>

Take(c, w, operation, r) ==
  /\ capacity > 0 /\ worker[w] = Free
  /\ capacity' = capacity - 1
  /\ worker' = [worker EXCEPT ![w] =
       [step |-> "admit", operation |-> operation, request |-> r, result |-> None]]
  /\ caller' = [caller EXCEPT ![c] = [pc |-> operation, request |-> r, worker |-> w]]
  /\ UNCHANGED <<server, stores>>

\* process_request: take a slot or turn the connection away
Accept(c, w, operation, r) ==
  \/ TurnAway(c) /\ UNCHANGED capacity
  \/ Take(c, w, operation, r)

-----------------------------------------------------------------------------
(* The caller: change_role.py's dispatch and exchange *)

\* the first exchange; a caller waits for a socket that is absent or refuses
SendEvidence(c, w, r) ==
  /\ server = "up" /\ caller[c] = Idle
  /\ Accept(c, w, "evidence_put", r)

\* the second exchange quotes the reference the first returned
SendGoverned(c, w) ==
  /\ server = "up" /\ caller[c].pc = "admitted"
  /\ Accept(c, w, "change_transition", caller[c].request)

\* a client of the state socket that is not a role service may quote any reference
SendQuoting(c, w, r) ==
  /\ server = "up" /\ caller[c] = Idle
  /\ Accept(c, w, "change_transition", r)

\* the ten seconds pass, or the caller dies: the worker is not told
Abandon(c) ==
  /\ caller[c] # Idle
  /\ caller' = [caller EXCEPT ![c] = Idle]
  /\ UNCHANGED <<server, capacity, worker, stores>>

-----------------------------------------------------------------------------
(* The worker: _StateHandler.handle and what dispatch calls *)

Admit(w) ==
  LET r == worker[w].request IN
  /\ worker[w].step = "admit"
  /\ IF r.principal \notin Operations[worker[w].operation]
     THEN Finish(w, "refused")
     ELSE IF worker[w].operation = "evidence_put"
     THEN IF Canonical(r.envelope, r.principal) THEN Step(w, "reserve")
          ELSE Finish(w, "refused")
     ELSE IF Owners[r.state] = r.principal THEN Step(w, "govern")
          ELSE Finish(w, "refused")
  /\ UNCHANGED <<server, capacity, caller, stores>>

\* one transaction under the producer's advisory lock; `same' says whether a row
\* that exists is this admission, `held' which rows the quota counts
ReserveIf(w, same, held) ==
  LET r == worker[w].request IN
  /\ worker[w].step = "reserve"
  /\ IF Key(r) \in DOMAIN admissions
     THEN /\ IF ~same THEN Finish(w, "conflict")
             ELSE IF admissions[Key(r)].final THEN Finish(w, "ok")
             ELSE Step(w, "upload")
          /\ UNCHANGED admissions
     ELSE IF Cardinality(held) >= Quota
     THEN Finish(w, "quota") /\ UNCHANGED admissions
     ELSE /\ admissions' = Extend(admissions, Key(r),
                                  [content |-> r.envelope, final |-> FALSE])
          /\ Step(w, "upload")
  /\ UNCHANGED <<server, capacity, caller, objects, ledger>>

SameContent(r) == Key(r) \in DOMAIN admissions /\ admissions[Key(r)].content = r.envelope

\* Mutant: a row that exists is answered whatever content it was made for.
ReserveAnyContent(w) ==
  worker[w].step = "reserve" /\
  LET r == worker[w].request IN ReserveIf(w, TRUE, HeldBy(r.principal))

\* Mutant: a row whose upload never came to its end is taken over by the next
\* content under its command.
ReserveAnew(w) ==
  /\ worker[w].step = "reserve"
  /\ LET r == worker[w].request IN
     IF Key(r) \in DOMAIN admissions /\ ~admissions[Key(r)].final
     THEN /\ admissions' = [admissions EXCEPT ![Key(r)].content = r.envelope]
          /\ Step(w, "upload")
          /\ UNCHANGED <<server, capacity, caller, objects, ledger>>
     ELSE ReserveIf(w, SameContent(r), HeldBy(r.principal))

\* reserve_evidence: rows are never removed, so an upload that failed keeps its row
Reserve(w) ==
  worker[w].step = "reserve" /\
  LET r == worker[w].request IN ReserveIf(w, SameContent(r), HeldBy(r.principal))

\* put: create the object or find the same bytes there
Upload(w) ==
  /\ worker[w].step = "upload"
  /\ objects' = objects \cup {worker[w].request.envelope}
  /\ Step(w, "finalize")
  /\ UNCHANGED <<server, capacity, caller, admissions, ledger>>

\* finalize_evidence: the row must still carry this digest
Finalize(w) ==
  LET r == worker[w].request IN
  /\ worker[w].step = "finalize"
  /\ IF SameContent(r)
     THEN admissions' = [admissions EXCEPT ![Key(r)].final = TRUE] /\ Step(w, "readback")
     ELSE UNCHANGED admissions /\ Finish(w, "conflict")
  /\ UNCHANGED <<server, capacity, caller, objects, ledger>>

ReadBack(w) ==
  /\ worker[w].step = "readback"
  /\ Finish(w, IF worker[w].request.envelope \in objects THEN "ok" ELSE "corrupt")
  /\ UNCHANGED <<server, capacity, caller, stores>>

\* Mutant: whose evidence is quoted is not compared.
VerifiedOfAnyone(x, r) ==
  x \in objects /\ x.operation = "change" /\ x.disposition = r.state

\* verify_record: the quoted object exists and binds what the command says of it
Verified(x, r) ==
  /\ x \in objects
  /\ x.producer = r.principal /\ x.operation = "change" /\ x.disposition = r.state

Govern(w) ==
  LET r == worker[w].request
      past == {e \in ledger : e.command = r.command} IN
  /\ worker[w].step = "govern"
  /\ IF ~Verified(r.envelope, r)
     THEN Finish(w, "corrupt") /\ UNCHANGED ledger
     ELSE IF past # {}
     THEN Finish(w, IF r \in past THEN "ok" ELSE "conflict") /\ UNCHANGED ledger
     ELSE ledger' = ledger \cup {r} /\ Finish(w, "ok")
  /\ UNCHANGED <<server, capacity, caller, admissions, objects>>

\* a database or an object store that is unreachable ends a request at any step
Fail(w) ==
  /\ worker[w].step \in {"reserve", "upload", "finalize", "readback", "govern"}
  /\ Finish(w, "unavailable")
  /\ UNCHANGED <<server, capacity, caller, stores>>

Waiting(w) == {c \in Callers :
  caller[c].pc \in DOMAIN Operations /\ caller[c].worker = w}

\* the answer goes to the caller, if one still waits for it
Deliver(w) ==
  /\ worker' = [worker EXCEPT ![w] = Free]
  /\ caller' = [c \in Callers |->
       IF c \notin Waiting(w) THEN caller[c]
       ELSE IF caller[c].pc = "evidence_put" /\ worker[w].result = "ok"
       THEN [pc |-> "admitted", request |-> caller[c].request]
       ELSE Idle]
  /\ UNCHANGED <<server, stores>>

\* Mutant: an answer nobody reads keeps its slot.
ReplyLeaking(w) ==
  /\ worker[w].step = "reply" /\ Deliver(w)
  /\ capacity' = IF Waiting(w) = {} THEN capacity ELSE capacity + 1

\* the slot comes back whether or not the caller is still there
Reply(w) ==
  worker[w].step = "reply" /\ Deliver(w) /\ capacity' = capacity + 1

-----------------------------------------------------------------------------

Advance(w) == Admit(w) \/ Reserve(w) \/ Upload(w) \/ Finalize(w) \/ ReadBack(w)
              \/ Govern(w) \/ Reply(w)

Next ==
  \/ Start
  \/ Stop
  \/ \E c \in Callers :
       \/ \E w \in Workers :
            \/ \E r \in Requests : SendEvidence(c, w, r) \/ SendQuoting(c, w, r)
            \/ SendGoverned(c, w)
       \/ Abandon(c)
  \/ \E w \in Workers : Advance(w) \/ Fail(w)

Spec == Init /\ [][Next]_vars

-----------------------------------------------------------------------------
(* Properties *)

Results == {None, "ok", "refused", "conflict", "quota", "corrupt", "unavailable"}
Steps == {"admit", "reserve", "upload", "finalize", "readback", "govern", "reply"}
WorkerRecord == [step : Steps, operation : DOMAIN Operations, request : Requests,
                 result : Results]

\* Every thread is free or in one request at one step, every caller waits for one
\* thread, and a row of evidence_admissions has a digest, finalized or not.
TypeOK ==
  /\ server \in {"up", "down"}
  /\ capacity \in 0..Cardinality(Workers)
  /\ worker \in [Workers -> WorkerRecord \cup {Free}]
  /\ caller \in [Callers -> {Idle}
       \cup [pc : DOMAIN Operations, request : Requests, worker : Workers]
       \cup [pc : {"admitted"}, request : Requests]]
  /\ DOMAIN admissions \subseteq (DOMAIN Families) \X Commands
  /\ \A k \in DOMAIN admissions :
       admissions[k] \in [content : Envelope, final : BOOLEAN]
  /\ objects \subseteq Envelope
  /\ ledger \subseteq Requests

\* The semaphore counts exactly the threads that are not in a request: no refusal,
\* abandoned exchange, failure or restart leaks a slot or gives one back twice.
CapacityIsExact ==
  capacity + Cardinality({w \in Workers : worker[w] # Free}) = Cardinality(Workers)

\* However the workers interleave and wherever they fail, no producer ever holds more
\* rows of evidence_admissions than its quota.
QuotaHolds == \A p \in DOMAIN Families : Cardinality(HeldBy(p)) <= Quota

\* The object of a finalized row is there; a caller that was given a reference was
\* given the one its command is bound to, though other attempts of the same command,
\* with this content or another, were under way or were cut short.
AdmissionIsDurable ==
  /\ \A k \in DOMAIN admissions : admissions[k].final => admissions[k].content \in objects
  /\ \A c \in Callers : caller[c].pc = "admitted" =>
       LET r == caller[c].request IN
       SameContent(r) /\ admissions[Key(r)].final

\* A governed command is committed once, by the service that owns its state, on
\* evidence which that service itself had admitted for that state: a reference of
\* another service's evidence, or of an object nobody admitted, commits nothing.
GovernedIsEvidenced ==
  /\ \A e \in ledger :
       /\ Owners[e.state] = e.principal /\ e.envelope.disposition = e.state
       /\ \E k \in HeldBy(e.principal) : admissions[k].content = e.envelope
  /\ \A e, f \in ledger : e.command = f.command => e = f

-----------------------------------------------------------------------------
(* Refinement *)

Bound == [k \in DOMAIN admissions |-> admissions[k].content]

\* a reference is good when its row is final and its bytes are there
Durable == {k \in DOMAIN admissions : admissions[k].final /\ admissions[k].content \in objects}

Holds == [c \in Callers |-> IF caller[c].pc = "admitted" THEN {caller[c].request} ELSE {}]

Register ==
  INSTANCE EvidenceRegister
  WITH bound <- Bound, admitted <- Durable, holds <- Holds, committed <- ledger

\* Handlers of many steps, some of them for callers that have left or for a command
\* that another handler is at, bind, admit, hand out and commit each at once: an
\* answer reaches the caller that asked, and no attempt undoes another's.
ImplementsRegister == Register!Spec
=============================================================================
