----------------------------- MODULE StateStore -----------------------------
(***************************************************************************)
(* StateStore (src/src/habitat_state/store.py): one PostgreSQL database    *)
(* that holds the entities, their append-only history and the references   *)
(* of the evidence, and one object store that holds the evidence bytes     *)
(* under their digest.  A transition is one database transaction.          *)
(* put_evidence, backup, restore and reset_for_test each touch the two     *)
(* stores in several steps; a client may die between any two of them.      *)
(***************************************************************************)
EXTENDS Naturals, FiniteSets

CONSTANTS
  Clients,        \* callers of the store, each with one call at a time
  Operators,      \* those that take backups
  Recovery,       \* those constructed with recovery_mode
  Testers,        \* those constructed with allow_test_reset
  Entities,       \* entity uuids, as numbers: the tables order by them
  EntityKind,     \* the kinds callers use, of the four that LEGAL knows
  Requested,      \* the states callers ask for, of those domain.py knows
  Commands,       \* command uuids
  Contents,       \* evidence contents; a content stands for its digest too
  Traces,         \* correlations: trace, agent, objective and generation
  MaxBackupItems, \* contents that fit MAX_BACKUP_BYTES by their size_bytes
  MaxExportItems, \* contents that fit it as an export: base64, with the rows
  MaxBackups,     \* bound: backups taken
  MaxDamage       \* bound: contents that outside damage reaches

ASSUME StoreAssumption ==
  /\ Operators \subseteq Clients /\ Recovery \subseteq Clients /\ Testers \subseteq Clients
  /\ EntityKind \subseteq {"AGENT", "OBJECTIVE", "ACTIVATION", "WAKE"}
  /\ Entities \subseteq Nat
  /\ MaxBackupItems \in Nat /\ MaxExportItems \in 0..MaxBackupItems
  /\ MaxBackups \in Nat
  /\ MaxDamage \in Nat

VARIABLES
  entities,    \* authoritative_entities: uuid -> kind, version, state
  transitions, \* state_transitions; command_id is UNIQUE and names the row
  refs,        \* evidence_refs: content -> correlation of its first writer
  objects,     \* the bucket: content -> metadata, and whether the bytes are right
  backups,     \* what backup() returned: marker -> snapshot
  client,      \* the call each client is in
  answers,     \* the transitions callers were told of since the last reset or restore
  damaged      \* contents and markers that something outside has damaged

tables == <<entities, transitions, refs>>
vars == <<entities, transitions, refs, objects, backups, client,
          answers, damaged>>

-----------------------------------------------------------------------------
(* domain.py *)

INITIAL == [AGENT |-> "REGISTERED", OBJECTIVE |-> "PROPOSED",
            ACTIVATION |-> "REQUESTED", WAKE |-> "PENDING"]

LEGAL == [
  AGENT |-> [REGISTERED |-> {"AVAILABLE"},
             AVAILABLE  |-> {"SUSPENDED", "RETIRED"},
             SUSPENDED  |-> {"AVAILABLE", "RETIRED"}],
  OBJECTIVE |-> [PROPOSED |-> {"ACTIVE", "CANCELLED"},
                 ACTIVE   |-> {"WAITING", "SATISFIED", "FAILED", "CANCELLED"},
                 WAITING  |-> {"ACTIVE", "FAILED", "CANCELLED"}],
  ACTIVATION |-> [REQUESTED |-> {"LEASED", "CANCELLED"},
                  LEASED    |-> {"PREPARING", "FAILED", "CANCELLED"},
                  PREPARING |-> {"RUNNING", "FAILED", "CANCELLED"},
                  RUNNING   |-> {"WAITING_CONTEXT", "WAITING_EFFECT", "SLEEPING",
                                 "COMPLETED", "FAILED", "CANCELLED"}],
  WAKE |-> [PENDING |-> {"LEASED"},
            LEASED  |-> {"ACKNOWLEDGED", "RELEASED", "EXPIRED"}]]

State == {"REGISTERED", "AVAILABLE", "SUSPENDED", "RETIRED", "PROPOSED", "ACTIVE",
          "WAITING", "SATISFIED", "FAILED", "CANCELLED", "REQUESTED", "LEASED",
          "PREPARING", "RUNNING", "WAITING_CONTEXT", "WAITING_EFFECT", "SLEEPING",
          "COMPLETED", "PENDING", "ACKNOWLEDGED", "RELEASED", "EXPIRED"}

ASSUME RequestedAssumption == Requested \subseteq State

MayFollow(kind, previous, new) ==
  previous \in DOMAIN LEGAL[kind] /\ new \in LEGAL[kind][previous]

-----------------------------------------------------------------------------
(* Helpers *)

None == "none"
Idle(last) == [op |-> "idle", last |-> last]
Snapshot == [entities |-> entities, transitions |-> transitions, refs |-> refs]
Extend(f, x, y) == [z \in DOMAIN f \cup {x} |-> IF z = x THEN y ELSE f[z]]
VersionOf(e) == IF e \in DOMAIN entities THEN entities[e].version ELSE 0
Refused(p, why) == client' = [client EXCEPT ![p] = Idle(why)]

\* put_content: create if absent, then read back; what is there must be the same
\* bytes under the same metadata, whoever put it there
Absent(c) == c \notin DOMAIN objects
PutSucceeds(c, tag) == Absent(c) \/ (objects[c].tag = tag /\ objects[c].sound)
WithObject(c, tag) ==
  IF Absent(c) THEN Extend(objects, c, [tag |-> tag, sound |-> TRUE]) ELSE objects

\* verify_evidence: the reference is known and the bytes still hash to it
Verifies(c) == c \in DOMAIN refs /\ ~Absent(c) /\ objects[c].sound

Init ==
  /\ entities = <<>> /\ transitions = {} /\ refs = <<>>
  /\ objects = <<>> /\ backups = <<>>
  /\ client = [p \in Clients |-> Idle(None)]
  /\ answers = {} /\ damaged = {}

-----------------------------------------------------------------------------
(* put_evidence: the object first, the reference in a transaction of its own *)

PutObject(p, c, t) ==
  /\ client[p].op = "idle"
  /\ objects' = WithObject(c, <<"trace", t>>)
  /\ IF PutSucceeds(c, <<"trace", t>>)
     THEN client' = [client EXCEPT ![p] = [op |-> "put", content |-> c, trace |-> t]]
     ELSE Refused(p, None)
  /\ UNCHANGED <<tables, backups, answers, damaged>>

\* ON CONFLICT DO NOTHING: the first writer's provenance stays
PutReference(p) ==
  /\ client[p].op = "put"
  /\ refs' = IF client[p].content \in DOMAIN refs THEN refs
             ELSE Extend(refs, client[p].content, client[p].trace)
  /\ client' = [client EXCEPT ![p] = Idle(None)]
  /\ UNCHANGED <<entities, transitions, objects, backups, answers,
                 damaged>>

-----------------------------------------------------------------------------
(* transition: one transaction under the advisory lock of its entity *)

Requests == [entity : Entities, kind : EntityKind, state : Requested, evidence : Contents]
RequestOf(t) == [entity |-> t.entity, kind |-> t.kind, state |-> t.state,
                 evidence |-> t.evidence]
Answer(t, p, answered) ==
  /\ answers' = IF answered THEN answers \cup {t} ELSE answers
  /\ client' = [client EXCEPT ![p] = Idle(None)]

\* A command_id that is recorded is answered from the record, whatever version and
\* correction the retry names; another request under it is an integrity error.
Replay(p, k, r, answered) ==
  /\ client[p].op = "idle"
  /\ \E t \in transitions :
       t.id = k /\ RequestOf(t) = r /\ Answer(t, p, answered)
  /\ UNCHANGED <<tables, objects, backups, damaged>>

Admissible(r) ==
  /\ IF r.entity \in DOMAIN entities
     THEN /\ r.kind = entities[r.entity].kind
          /\ MayFollow(r.kind, entities[r.entity].state, r.state)
     ELSE r.state = INITIAL[r.kind]
  /\ r.evidence \in DOMAIN refs

NewTransition(k, r, version, correction) ==
  [id |-> k, entity |-> r.entity, kind |-> r.kind, version |-> version,
   state |-> r.state, evidence |-> r.evidence, correction |-> correction]

Record(p, k, r, version, correction, answered) ==
  LET t == NewTransition(k, r, version, correction) IN
  /\ transitions' = transitions \cup {t}
  /\ entities' = Extend(entities, r.entity,
                        [kind |-> r.kind, version |-> version, state |-> r.state])
  /\ Answer(t, p, answered)
  /\ UNCHANGED <<refs, objects, backups, damaged>>

\* Mutant: the caller's version is believed instead of compared.
ApplyStale(p, k, r, expected, correction, answered) ==
  /\ client[p].op = "idle"
  /\ \A t \in transitions : t.id # k
  /\ Admissible(r)
  /\ correction = None \/ \E t \in transitions : t.id = correction
  /\ Record(p, k, r, expected + 1, correction, answered)

\* `answered' is FALSE when the client dies after the commit; a crash before the
\* commit leaves nothing, like every refusal of this call
Apply(p, k, r, expected, correction, answered) ==
  /\ client[p].op = "idle"
  /\ \A t \in transitions : t.id # k
  /\ expected = VersionOf(r.entity)
  /\ Admissible(r)
  /\ correction = None \/ \E t \in transitions : t.id = correction
  /\ Record(p, k, r, expected + 1, correction, answered)

-----------------------------------------------------------------------------
(* backup: one repeatable-read snapshot, then every object of it, read back *)

BackupSnapshot(p) ==
  /\ client[p].op = "idle" /\ p \in Operators
  /\ Cardinality(DOMAIN refs) <= MaxBackupItems
  /\ client' = [client EXCEPT ![p] =
                  [op |-> "backup", snap |-> Snapshot, todo |-> DOMAIN refs]]
  /\ UNCHANGED <<tables, objects, backups, answers, damaged>>

BackupVerify(p, c) ==
  /\ client[p].op = "backup" /\ c \in client[p].todo
  /\ IF Verifies(c)
     THEN client' = [client EXCEPT ![p].todo = @ \ {c}]
     ELSE Refused(p, None)
  /\ UNCHANGED <<tables, objects, backups, answers, damaged>>

Finished(p, snap) ==
  LET m == Cardinality(DOMAIN backups) + 1 IN
  /\ client[p].todo = {}
  /\ IF Cardinality(DOMAIN snap.refs) <= MaxExportItems
     THEN /\ m <= MaxBackups
          /\ backups' = Extend(backups, m, snap)
          /\ client' = [client EXCEPT ![p] = Idle(None)]
     ELSE Refused(p, None) /\ UNCHANGED backups
  /\ UNCHANGED <<tables, objects, answers, damaged>>

\* Mutant: the history is read after the objects, not in the snapshot.
BackupLate(p) ==
  /\ client[p].op = "backup"
  /\ Finished(p, [client[p].snap EXCEPT !.transitions = transitions])

BackupFinish(p) == client[p].op = "backup" /\ Finished(p, client[p].snap)

-----------------------------------------------------------------------------
(* restore: validate, put every object, then replace the tables *)

\* what restore demands of a backup before it touches anything; an evidence item
\* that outside damage reached does not hash to its identity
Valid(b, harmed) ==
  /\ DOMAIN b.refs \cap harmed = {}
  /\ \A t \in b.transitions :
       /\ t.evidence \in DOMAIN b.refs
       /\ t.correction = None \/ \E u \in b.transitions : u.id = t.correction
  /\ \A e \in DOMAIN b.entities :
       /\ \E t \in b.transitions : t.entity = e /\ t.version = b.entities[e].version
       /\ \A t \in b.transitions : t.entity = e => t.version <= b.entities[e].version

HarmedIn(m) == {c \in Contents : <<m, c>> \in damaged}

RestoreValidate(p, m) ==
  /\ client[p].op = "idle" /\ p \in Recovery /\ m \in DOMAIN backups
  /\ client' = [client EXCEPT ![p] =
       IF Valid(backups[m], HarmedIn(m))
       THEN [op |-> "restore", marker |-> m, todo |-> DOMAIN backups[m].refs]
       ELSE Idle(None)]
  /\ UNCHANGED <<tables, objects, backups, answers, damaged>>

RestoreObject(p, c) ==
  LET tag == <<"marker", client[p].marker>> IN
  /\ client[p].op = "restore" /\ c \in client[p].todo
  /\ objects' = WithObject(c, tag)
  /\ IF PutSucceeds(c, tag)
     THEN client' = [client EXCEPT ![p].todo = @ \ {c}]
     ELSE Refused(p, "restore is corrupt")
  /\ UNCHANGED <<tables, backups, answers, damaged>>

\* The rows go in one by one, ordered by entity and version, and correction_of is
\* a foreign key: the row a correction names must already be in.
InOrder(ts) ==
  \A t, u \in ts : u.id = t.correction =>
    u.entity < t.entity \/ (u.entity = t.entity /\ u.version < t.version)

Restored(p) ==
  LET b == backups[client[p].marker] IN
  /\ IF InOrder(b.transitions)
     THEN /\ answers' = {}
          /\ entities' = b.entities /\ transitions' = b.transitions /\ refs' = b.refs
          /\ client' = [client EXCEPT ![p] = Idle(None)]
     ELSE Refused(p, "restore is out of order") /\ UNCHANGED <<tables, answers>>
  /\ UNCHANGED <<objects, backups, damaged>>

\* Mutant: the rows are put back beside those that are there.
RestoreBeside(p) ==
  LET b == backups[client[p].marker] IN
  /\ client[p].op = "restore" /\ client[p].todo = {}
  /\ IF InOrder(b.transitions)
     THEN /\ answers' = {}
          /\ entities' = b.entities /\ transitions' = transitions \cup b.transitions
          /\ refs' = b.refs
          /\ client' = [client EXCEPT ![p] = Idle(None)]
     ELSE Refused(p, "restore is out of order") /\ UNCHANGED <<tables, answers>>
  /\ UNCHANGED <<objects, backups, damaged>>

\* Mutant: the tables are replaced before the objects are there.
RestoreEarly(p) == client[p].op = "restore" /\ Restored(p)

RestoreCommit(p) ==
  client[p].op = "restore" /\ client[p].todo = {} /\ Restored(p)

-----------------------------------------------------------------------------
(* reset_for_test, crashes, and damage from outside *)

\* the rows, then the objects (`cleared' is FALSE when the tester dies in between);
\* one step, because tests reset a store that nobody else is using
ResetForTest(p, cleared) ==
  /\ p \in Testers /\ \A q \in Clients : client[q].op = "idle"
  /\ answers' = {} /\ entities' = <<>> /\ transitions' = {} /\ refs' = <<>>
  /\ objects' = IF cleared THEN <<>> ELSE objects
  /\ damaged' = {d \in damaged : cleared => d[1] # 0}
  /\ UNCHANGED <<backups, client>>

\* a client dies, or its call fails on an unreachable store, between two steps
Crash(p) ==
  /\ client[p].op # "idle"
  /\ client' = [client EXCEPT ![p] = Idle(None)]
  /\ UNCHANGED <<tables, objects, backups, answers, damaged>>

\* an object is lost or overwritten by something that is not this code
DamageObject(c, lost) ==
  /\ ~Absent(c) /\ Cardinality(damaged) < MaxDamage
  /\ damaged' = damaged \cup {<<0, c>>}
  /\ objects' = IF lost THEN [x \in DOMAIN objects \ {c} |-> objects[x]]
                ELSE [objects EXCEPT ![c].sound = FALSE]
  /\ UNCHANGED <<tables, backups, client, answers>>

\* an evidence item of a stored backup is altered
DamageBackup(m, c) ==
  /\ m \in DOMAIN backups /\ c \in DOMAIN backups[m].refs
  /\ Cardinality(damaged) < MaxDamage
  /\ damaged' = damaged \cup {<<m, c>>}
  /\ UNCHANGED <<tables, objects, backups, client, answers>>

Next ==
  \/ \E p \in Clients :
       \/ \E c \in Contents, t \in Traces : PutObject(p, c, t)
       \/ PutReference(p)
       \/ \E k \in Commands, r \in Requests, answered \in BOOLEAN :
            \/ Replay(p, k, r, answered)
            \/ \E expected \in 0..(Cardinality(Commands)), correction \in Commands \cup {None} :
                 Apply(p, k, r, expected, correction, answered)
       \/ BackupSnapshot(p)
       \/ \E c \in Contents : BackupVerify(p, c)
       \/ BackupFinish(p)
       \/ \E m \in 1..MaxBackups : RestoreValidate(p, m)
       \/ \E c \in Contents : RestoreObject(p, c)
       \/ RestoreCommit(p)
       \/ \E cleared \in BOOLEAN : ResetForTest(p, cleared)
       \/ Crash(p)
  \/ \E c \in Contents :
       \/ \E lost \in BOOLEAN : DamageObject(c, lost)
       \/ \E m \in 1..MaxBackups : DamageBackup(m, c)

Spec == Init /\ [][Next]_vars

-----------------------------------------------------------------------------
(* Properties *)

TransitionRecord ==
  [id : Commands, entity : Entities, kind : EntityKind, version : Nat, state : State,
   evidence : Contents, correction : Commands \cup {None}]
Maps(f, S, T) == DOMAIN f \subseteq S /\ \A x \in DOMAIN f : f[x] \in T
EntityRow == [kind : EntityKind, version : Nat, state : State]
IsSnapshot(s) ==
  /\ Maps(s.entities, Entities, EntityRow)
  /\ s.transitions \subseteq TransitionRecord
  /\ Maps(s.refs, Contents, Traces)
Outcomes == {None, "restore is corrupt", "restore is out of order"}
IsCall(x) ==
  \/ x.op = "idle" /\ x.last \in Outcomes
  \/ x.op = "put" /\ x.content \in Contents /\ x.trace \in Traces
  \/ x.op = "backup" /\ IsSnapshot(x.snap) /\ x.todo \subseteq DOMAIN x.snap.refs
  \/ x.op = "restore" /\ x.marker \in DOMAIN backups
     /\ x.todo \subseteq DOMAIN backups[x.marker].refs

\* The tables, the objects, the backups and the calls have the types the code gives
\* them; a call only verifies or restores evidence its own snapshot refers to.
TypeOK ==
  /\ IsSnapshot(Snapshot)
  /\ DOMAIN objects \subseteq Contents
  /\ \A c \in DOMAIN objects : objects[c].sound \in BOOLEAN
  /\ DOMAIN backups \subseteq 1..MaxBackups
  /\ \A m \in DOMAIN backups : IsSnapshot(backups[m])
  /\ DOMAIN client = Clients /\ \A p \in Clients : IsCall(client[p])
  /\ answers \subseteq TransitionRecord
  /\ damaged \subseteq (0..MaxBackups) \X Contents

HistoryOf(e, ts) == {t \in ts : t.entity = e}

\* every entity is the last row of a legal history without gap or fork
Agrees(es, ts) ==
  /\ \A t \in ts : t.entity \in DOMAIN es
  /\ \A t, u \in ts : t.entity = u.entity /\ t.version = u.version => t = u
  /\ \A e \in DOMAIN es :
       /\ \E t \in HistoryOf(e, ts) : t.version = es[e].version /\ t.state = es[e].state
       /\ \A t \in HistoryOf(e, ts) :
            /\ t.kind = es[e].kind
            /\ t.version \in 1..es[e].version
            /\ IF t.version = 1 THEN t.state = INITIAL[t.kind]
               ELSE \E u \in HistoryOf(e, ts) :
                      u.version + 1 = t.version /\ MayFollow(t.kind, u.state, t.state)

\* Two writers, a crash, a replay or a restore never leave an entity whose row is
\* not the last of its history, a version that is missing or taken twice, or a step
\* that domain.py does not allow.
HistoryIsLinear == Agrees(entities, transitions)

\* A reference exists only when its bytes do, and a transition only when its
\* reference does, through every crash of put_evidence and of restore: only damage
\* from outside can make evidence of record unreadable.
EvidenceStands ==
  /\ \A c \in DOMAIN refs : <<0, c>> \in damaged \/ Verifies(c)
  /\ \A t \in transitions : t.evidence \in DOMAIN refs

\* What a caller was told stays true until a reset or a restore: the transition is
\* in the history, and a retry of the command, under whatever expected version, was
\* told the same transition.
AnswersStand ==
  /\ answers \subseteq transitions
  /\ \A t, u \in transitions : t.id = u.id => t = u

\* Whatever runs while backup() reads the objects, the export it returns is one
\* point of the store: its histories are linear and restore()'s checks accept it.
BackupIsOnePoint ==
  \A m \in DOMAIN backups :
    Valid(backups[m], {}) /\ Agrees(backups[m].entities, backups[m].transitions)

\* docs/implementation/W02.md: "Software rollback requires restoring a verified
\* pre-v1 backup in recovery mode".  A backup that nothing has damaged, restored in
\* recovery mode beside objects that nothing has damaged, is not refused.
RollbackIsPossible ==
  damaged = {} => \A p \in Clients :
    client[p].op = "idle" =>
      client[p].last \notin {"restore is corrupt", "restore is out of order"}

-----------------------------------------------------------------------------
(* Refinement *)

Point(snap) == [log |-> snap.transitions, known |-> DOMAIN snap.refs]

Captured ==
  [p \in Clients |-> IF client[p].op = "backup" THEN {Point(client[p].snap)} ELSE {}]

Saved == [m \in DOMAIN backups |-> Point(backups[m])]

Log ==
  INSTANCE AppendOnlyLog
  WITH log <- transitions, known <- DOMAIN refs, told <- answers,
       captured <- Captured, saved <- Saved,
       Versions <- {v + 1 : v \in 0..Cardinality(Commands)}

\* Evidence, transitions, backups and restores in many steps, of many clients
\* that may die between them, act on the log at once or not at all; the rows of
\* the entities are what the log says (put_evidence, transition, backup, restore).
ImplementsLog == Log!Spec
=============================================================================
