-------------------------- MODULE StateStore_proofs --------------------------
(* The theorems about the state store, for any clients, entities, commands and *)
(* contents.  The tables, a snapshot that a backup has taken and a backup that *)
(* was returned are three places for the same thing: tables that are in order. *)
EXTENDS StateStore, FiniteSetTheorems, TLAPS

-----------------------------------------------------------------------------
(* The inductive invariant *)

\* Tables in order: typed, linear, with every row a command, an evidence and a
\* correction point at.
InOrderTables(es, ts, rs) ==
  /\ Maps(es, Entities, EntityRow) /\ ts \subseteq TransitionRecord /\ Maps(rs, Contents, Traces)
  /\ Agrees(es, ts)
  /\ \A t, u \in ts : t.id = u.id => t = u
  /\ \A t \in ts : /\ t.evidence \in DOMAIN rs
                   /\ t.correction = None \/ \E u \in ts : u.id = t.correction

Sound(b) == InOrderTables(b.entities, b.transitions, b.refs)

TablesInv == InOrderTables(entities, transitions, refs) /\ answers \subseteq transitions

BackupsInv ==
  /\ \E n \in 0..MaxBackups : DOMAIN backups = 1..n
  /\ \A m \in DOMAIN backups : Sound(backups[m])

\* A call under way, beside the backups bs: what it was handed is in order, and it
\* has evidence to do only from there.
CallSound(x, bs) ==
  \/ x.op = "idle" /\ x.last \in Outcomes
  \/ x.op = "put" /\ x.content \in Contents /\ x.trace \in Traces
  \/ /\ x.op = "backup" /\ x = [op |-> "backup", snap |-> x.snap, todo |-> x.todo]
     /\ Sound(x.snap) /\ x.todo \subseteq DOMAIN x.snap.refs
  \/ /\ x.op = "restore" /\ x = [op |-> "restore", marker |-> x.marker, todo |-> x.todo]
     /\ x.marker \in DOMAIN bs /\ x.todo \subseteq DOMAIN bs[x.marker].refs

CallsInv ==
  /\ client = [p \in Clients |-> client[p]]
  /\ \A p \in Clients : CallSound(client[p], backups)

\* The bytes of c are there, unless something outside has damaged them.
Present(c) == <<0, c>> \in damaged \/ (c \in DOMAIN objects /\ objects[c].sound)

ObjectsTyped ==
  /\ DOMAIN objects \subseteq Contents
  /\ objects = [c \in DOMAIN objects |-> objects[c]]
  /\ \A c \in DOMAIN objects : /\ objects[c] = [tag |-> objects[c].tag, sound |-> objects[c].sound]
                              /\ objects[c].sound \in BOOLEAN
  /\ damaged \subseteq (0..MaxBackups) \X Contents

\* What a put, or a restore, has done already stands.
DoneStands(x) ==
  /\ x.op = "put" => Present(x.content)
  /\ x.op = "restore" => \A c \in DOMAIN backups[x.marker].refs \ x.todo : Present(c)

ObjectsInv ==
  /\ ObjectsTyped
  /\ \A c \in DOMAIN refs : Present(c)
  /\ \A p \in Clients : DoneStands(client[p])

IInv == TablesInv /\ BackupsInv /\ CallsInv /\ ObjectsInv

-----------------------------------------------------------------------------
(* What one transition does to tables that are in order *)

\* The row that Apply adds carries its entity's history on by one.
LEMMA ApplyInOrder ==
  ASSUME InOrderTables(entities, transitions, refs),
         NEW k \in Commands, NEW r \in Requests, NEW correction \in Commands \cup {None},
         \A t \in transitions : t.id # k,
         Admissible(r),
         correction = None \/ \E t \in transitions : t.id = correction,
         NEW t, t = NewTransition(k, r, VersionOf(r.entity) + 1, correction),
         NEW row, row = [kind |-> r.kind, version |-> VersionOf(r.entity) + 1, state |-> r.state]
  PROVE  InOrderTables(Extend(entities, r.entity, row), transitions \cup {t}, refs)
<1> DEFINE es == Extend(entities, r.entity, row)
           ts == transitions \cup {t}
<1>1. /\ DOMAIN es = DOMAIN entities \cup {r.entity}
      /\ es[r.entity] = row
      /\ \A e \in DOMAIN entities : e # r.entity => es[e] = entities[e]
  BY DEF Extend
<1>2. /\ r.entity \in Entities /\ r.kind \in EntityKind
      /\ r.state \in State /\ r.evidence \in Contents
  BY RequestedAssumption DEF Requests
<1>3. VersionOf(r.entity) \in Nat
  BY DEF VersionOf, InOrderTables, Maps, EntityRow
<1>4. t \in TransitionRecord /\ row \in EntityRow
  BY <1>2, <1>3 DEF TransitionRecord, NewTransition, EntityRow
<1>5. /\ t.entity = r.entity /\ t.kind = r.kind /\ t.state = r.state /\ t.id = k
      /\ t.version = VersionOf(r.entity) + 1 /\ t.evidence = r.evidence
      /\ t.correction = correction
  BY DEF NewTransition
<1>6. row.kind = r.kind /\ row.version = VersionOf(r.entity) + 1 /\ row.state = r.state
  OBVIOUS
<1>7. transitions \subseteq TransitionRecord /\ Agrees(entities, transitions)
  BY DEF InOrderTables
<1>8. \A u \in transitions : u.entity = r.entity =>
        /\ r.entity \in DOMAIN entities
        /\ u.version \in 1..VersionOf(r.entity) /\ u.kind = r.kind
  <2> SUFFICES ASSUME NEW u \in transitions, u.entity = r.entity
               PROVE  /\ r.entity \in DOMAIN entities
                      /\ u.version \in 1..VersionOf(r.entity) /\ u.kind = r.kind
    OBVIOUS
  <2>1. r.entity \in DOMAIN entities
    BY <1>7 DEF Agrees
  <2>2. u \in HistoryOf(r.entity, transitions)
    BY DEF HistoryOf
  <2> QED
    BY <1>7, <2>1, <2>2 DEF Agrees, VersionOf, Admissible
<1>9. Agrees(es, ts)
  <2>1. \A u \in ts : u.entity \in DOMAIN es
    BY <1>1, <1>5, <1>7 DEF Agrees
  <2>2. \A u, v \in ts : u.entity = v.entity /\ u.version = v.version => u = v
    BY <1>3, <1>5, <1>7, <1>8 DEF Agrees
  <2>3. ASSUME NEW e \in DOMAIN es
        PROVE  /\ \E u \in HistoryOf(e, ts) : u.version = es[e].version /\ u.state = es[e].state
               /\ \A u \in HistoryOf(e, ts) :
                    /\ u.kind = es[e].kind
                    /\ u.version \in 1..es[e].version
                    /\ IF u.version = 1 THEN u.state = INITIAL[u.kind]
                       ELSE \E v \in HistoryOf(e, ts) :
                              v.version + 1 = u.version /\ MayFollow(u.kind, v.state, u.state)
    <3>1. CASE e # r.entity
      <4>1. HistoryOf(e, ts) = HistoryOf(e, transitions)
        BY <1>5, <3>1 DEF HistoryOf
      <4>2. e \in DOMAIN entities /\ es[e] = entities[e]
        BY <1>1, <3>1
      <4>3. /\ \E u \in HistoryOf(e, transitions) :
                 u.version = entities[e].version /\ u.state = entities[e].state
            /\ \A u \in HistoryOf(e, transitions) :
                 /\ u.kind = entities[e].kind
                 /\ u.version \in 1..entities[e].version
                 /\ IF u.version = 1 THEN u.state = INITIAL[u.kind]
                    ELSE \E v \in HistoryOf(e, transitions) :
                           v.version + 1 = u.version /\ MayFollow(u.kind, v.state, u.state)
        BY <1>7, <4>2 DEF Agrees
      <4> HIDE DEF es, ts
      <4> QED
        BY <4>1, <4>2, <4>3
    <3>2. CASE e = r.entity
      <4>1. es[e] = row
        BY <1>1, <3>2
      <4>2. HistoryOf(e, ts) = HistoryOf(e, transitions) \cup {t}
        BY <1>5, <3>2 DEF HistoryOf
      <4>3. \E u \in HistoryOf(e, ts) : u.version = row.version /\ u.state = row.state
        BY <1>5, <1>6, <4>2
      <4>4. ASSUME NEW u \in HistoryOf(e, transitions)
            PROVE  /\ u.kind = row.kind
                   /\ u.version \in 1..row.version
                   /\ IF u.version = 1 THEN u.state = INITIAL[u.kind]
                      ELSE \E v \in HistoryOf(e, ts) :
                             v.version + 1 = u.version /\ MayFollow(u.kind, v.state, u.state)
        <5>1. u \in transitions /\ u.entity = r.entity
          BY <3>2 DEF HistoryOf
        <5>2. /\ r.entity \in DOMAIN entities
              /\ u.version \in 1..VersionOf(r.entity) /\ u.kind = r.kind
          BY <1>8, <5>1
        <5>3. IF u.version = 1 THEN u.state = INITIAL[u.kind]
              ELSE \E v \in HistoryOf(e, transitions) :
                     v.version + 1 = u.version /\ MayFollow(u.kind, v.state, u.state)
          BY <1>7, <3>2, <5>2 DEF Agrees
        <5>4. u.version \in 1..row.version
          BY <1>3, <1>6, <5>2
        <5> HIDE DEF es, ts
        <5> QED
          BY <1>6, <4>2, <5>2, <5>3, <5>4
      <4>5. /\ t.kind = row.kind
            /\ t.version \in 1..row.version
            /\ IF t.version = 1 THEN t.state = INITIAL[t.kind]
               ELSE \E v \in HistoryOf(e, ts) :
                      v.version + 1 = t.version /\ MayFollow(t.kind, v.state, t.state)
        <5>1. CASE r.entity \in DOMAIN entities
          <6>1. /\ r.kind = entities[r.entity].kind
                /\ MayFollow(r.kind, entities[r.entity].state, r.state)
            BY <5>1 DEF Admissible
          <6>2. PICK v \in HistoryOf(e, transitions) :
                  v.version = entities[e].version /\ v.state = entities[e].state
            BY <1>7, <3>2, <5>1 DEF Agrees
          <6>3. v.version = VersionOf(r.entity) /\ v.version >= 1
            BY <1>8, <3>2, <5>1, <6>2 DEF VersionOf, HistoryOf
          <6>4. v.version + 1 = t.version /\ MayFollow(t.kind, v.state, t.state)
            BY <1>5, <3>2, <6>1, <6>2, <6>3
          <6>5. t.version # 1 /\ t.version \in 1..row.version
            BY <1>3, <1>5, <1>6, <6>3, <6>4
          <6>6. v \in HistoryOf(e, ts)
            BY <4>2
          <6> HIDE DEF es, ts
          <6> QED
            BY <1>5, <1>6, <6>4, <6>5, <6>6
        <5>2. CASE r.entity \notin DOMAIN entities
          <6>1. VersionOf(r.entity) = 0 /\ r.state = INITIAL[r.kind]
            BY <5>2 DEF VersionOf, Admissible
          <6> QED
            BY <1>5, <1>6, <6>1
        <5> QED
          BY <5>1, <5>2
      <4>6. \A u \in HistoryOf(e, ts) : u \in HistoryOf(e, transitions) \/ u = t
        BY <4>2
      <4> HIDE DEF es, ts
      <4> QED
        BY <4>1, <4>3, <4>4, <4>5, <4>6
    <3> QED
      BY <3>1, <3>2
  <2> HIDE DEF es, ts
  <2> QED
    BY <2>1, <2>2, <2>3 DEF Agrees
<1>10. Maps(es, Entities, EntityRow) /\ ts \subseteq TransitionRecord
  BY <1>1, <1>2, <1>4, <1>7 DEF InOrderTables, Maps
<1>11. \A u, v \in ts : u.id = v.id => u = v
  BY <1>5 DEF InOrderTables
<1>12. \A u \in ts : /\ u.evidence \in DOMAIN refs
                     /\ u.correction = None \/ \E v \in ts : v.id = u.correction
  BY <1>5 DEF InOrderTables, Admissible
<1> QED
  BY <1>9, <1>10, <1>11, <1>12 DEF InOrderTables

-----------------------------------------------------------------------------
(* What a step leaves alone *)

\* Calls stay in order when one of them moves on and no backup is lost.
LEMMA CallMoves ==
  ASSUME CallsInv, NEW p \in Clients, NEW x, client' = [client EXCEPT ![p] = x],
         \A m \in DOMAIN backups : m \in DOMAIN backups' /\ backups'[m] = backups[m],
         CallSound(x, backups')
  PROVE  CallsInv'
<1>1. client' = [q \in Clients |-> client'[q]]
  BY DEF CallsInv
<1>2. \A q \in Clients : client'[q] = IF q = p THEN x ELSE client[q]
  BY DEF CallsInv
<1>3. \A y : CallSound(y, backups) => CallSound(y, backups')
  BY DEF CallSound
<1> QED
  BY <1>1, <1>2, <1>3 DEF CallsInv

\* A step that takes no bytes away leaves standing what was done.
LEMMA WorkStands ==
  ASSUME CallsInv, ObjectsInv, TablesInv, BackupsInv,
         NEW p \in Clients, NEW x, client' = [client EXCEPT ![p] = x],
         \A m \in DOMAIN backups : m \in DOMAIN backups' /\ backups'[m] = backups[m],
         ObjectsTyped',
         \A c \in Contents : Present(c) => Present(c)',
         \A c \in DOMAIN refs' : Present(c)',
         DoneStands(x)'
  PROVE  ObjectsInv'
<1>1. \A q \in Clients : client'[q] = IF q = p THEN x ELSE client[q]
  BY DEF CallsInv
<1>2. ASSUME NEW q \in Clients, q # p
      PROVE  DoneStands(client[q])'
  <2>1. client'[q] = client[q]
    BY <1>1, <1>2
  <2>2. CallSound(client[q], backups) /\ DoneStands(client[q])
    BY DEF CallsInv, ObjectsInv
  <2>3. ASSUME client[q].op = "put" PROVE Present(client[q].content)'
    <3>1. client[q].content \in Contents
      BY <2>2, <2>3 DEF CallSound
    <3>2. PICK c : c = client[q].content
      OBVIOUS
    <3>3. Present(c)'
      BY <2>2, <2>3, <3>1, <3>2 DEF DoneStands
    <3> QED
      BY <2>1, <3>2, <3>3 DEF Present
  <2>4. ASSUME client[q].op = "restore",
               NEW c \in DOMAIN backups'[client[q].marker].refs \ client[q].todo
        PROVE  Present(c)'
    <3>1. client[q].marker \in DOMAIN backups
      BY <2>2, <2>4 DEF CallSound
    <3>2. backups'[client[q].marker] = backups[client[q].marker]
      BY <3>1
    <3>3. Sound(backups[client[q].marker])
      BY <3>1 DEF BackupsInv
    <3>4. c \in Contents
      BY <2>4, <3>2, <3>3 DEF Sound, InOrderTables, Maps
    <3> QED
      BY <2>2, <2>4, <3>2, <3>4 DEF DoneStands
  <2> QED
    BY <2>1, <2>3, <2>4 DEF DoneStands
<1>3. DoneStands(client[p])'
  BY <1>1 DEF DoneStands
<1> QED
  BY <1>1, <1>2, <1>3 DEF ObjectsInv

\* A step of one call that touches no table, object, backup or damage.
LEMMA OnlyTheCall ==
  ASSUME IInv, NEW p \in Clients, NEW x, client' = [client EXCEPT ![p] = x],
         UNCHANGED <<tables, objects, backups, damaged>>,
         answers' \subseteq transitions,
         CallSound(x, backups), DoneStands(x)
  PROVE  IInv'
<1>1. /\ entities' = entities /\ transitions' = transitions /\ refs' = refs
      /\ objects' = objects /\ backups' = backups /\ damaged' = damaged
  BY DEF tables
<1>2. TablesInv' /\ BackupsInv'
  BY <1>1 DEF IInv, TablesInv, BackupsInv
<1>3. CallsInv'
  BY <1>1, CallMoves DEF IInv
<1>4. ObjectsTyped' /\ \A c \in Contents : Present(c) => Present(c)'
  BY <1>1 DEF IInv, ObjectsInv, ObjectsTyped, Present
<1>5. \A c \in DOMAIN refs' : Present(c)'
  BY <1>1 DEF IInv, ObjectsInv, Present
<1>6. DoneStands(x)'
  BY <1>1 DEF DoneStands, Present
<1>7. ObjectsInv'
  BY <1>1, <1>4, <1>5, <1>6, WorkStands DEF IInv
<1> QED
  BY <1>2, <1>3, <1>7 DEF IInv

\* Putting an object never spoils one that is there, and succeeds only when the
\* right bytes are there afterwards.
LEMMA PutKeeps ==
  ASSUME ObjectsTyped, NEW c \in Contents, NEW tag,
         objects' = WithObject(c, tag), damaged' = damaged
  PROVE  /\ ObjectsTyped'
         /\ \A d : Present(d) => Present(d)'
         /\ PutSucceeds(c, tag) => Present(c)'
<1>1. CASE Absent(c)
  <2>1. /\ DOMAIN objects' = DOMAIN objects \cup {c}
        /\ objects'[c] = [tag |-> tag, sound |-> TRUE]
        /\ \A d \in DOMAIN objects : objects'[d] = objects[d]
        /\ objects' = [d \in DOMAIN objects' |-> objects'[d]]
    BY <1>1 DEF WithObject, Extend, Absent
  <2>2. ASSUME NEW d \in DOMAIN objects'
        PROVE  /\ objects'[d] = [tag |-> objects'[d].tag, sound |-> objects'[d].sound]
               /\ objects'[d].sound \in BOOLEAN
    <3>1. CASE d \in DOMAIN objects
      BY <2>1, <3>1 DEF ObjectsTyped
    <3>2. CASE d = c
      <4>1. PICK o : o = [tag |-> tag, sound |-> TRUE]
        OBVIOUS
      <4>2. objects'[d] = o
        BY <2>1, <3>2, <4>1
      <4> QED
        BY <4>1, <4>2
    <3> QED
      BY <2>1, <3>1, <3>2
  <2>3. ObjectsTyped'
    <3>1. DOMAIN objects' \subseteq Contents
      BY <2>1 DEF ObjectsTyped
    <3>2. damaged' \subseteq (0..MaxBackups) \X Contents
      BY DEF ObjectsTyped
    <3> QED
      BY <2>1, <2>2, <3>1, <3>2 DEF ObjectsTyped
  <2> QED
    BY <2>1, <2>3 DEF Present
<1>2. CASE ~Absent(c)
  BY <1>2 DEF WithObject, ObjectsTyped, Present, PutSucceeds, Absent
<1> QED
  BY <1>1, <1>2

-----------------------------------------------------------------------------
(* The steps *)

LEMMA IdleIsSound ==
  ASSUME NEW why \in Outcomes, NEW bs
  PROVE  CallSound(Idle(why), bs) /\ DoneStands(Idle(why)) /\ DoneStands(Idle(why))'
BY DEF CallSound, Idle, DoneStands

LEMMA NoneIsOutcome == None \in Outcomes
BY DEF Outcomes

LEMMA PutObjectStep ==
  ASSUME IInv, NEW p \in Clients, NEW c \in Contents, NEW t \in Traces, PutObject(p, c, t)
  PROVE  IInv'
<1> DEFINE tag == <<"trace", t>>
           put == [op |-> "put", content |-> c, trace |-> t]
<1>1. /\ entities' = entities /\ transitions' = transitions /\ refs' = refs
      /\ backups' = backups /\ answers' = answers /\ damaged' = damaged
      /\ objects' = WithObject(c, tag)
  BY DEF PutObject, tables
<1>2. TablesInv' /\ BackupsInv'
  BY <1>1 DEF IInv, TablesInv, BackupsInv
<1>3. /\ ObjectsTyped'
      /\ \A d : Present(d) => Present(d)'
      /\ PutSucceeds(c, tag) => Present(c)'
  BY <1>1, PutKeeps DEF IInv, ObjectsInv
<1>4. \A d \in DOMAIN refs' : Present(d)'
  BY <1>1, <1>3 DEF IInv, ObjectsInv
<1>5. PICK x : /\ client' = [client EXCEPT ![p] = x]
               /\ x = IF PutSucceeds(c, tag) THEN put ELSE Idle(None)
  BY DEF PutObject, Refused
<1>6. CallSound(x, backups')
  BY <1>5, IdleIsSound, NoneIsOutcome DEF CallSound
<1>7. DoneStands(x)'
  <2>1. CASE PutSucceeds(c, tag)
    BY <1>3, <1>5, <2>1 DEF DoneStands, Present
  <2>2. CASE ~PutSucceeds(c, tag)
    BY <1>5, <2>2 DEF DoneStands, Idle
  <2> QED
    BY <2>1, <2>2
<1>8. CallsInv'
  BY <1>1, <1>5, <1>6, CallMoves DEF IInv
<1>9. ObjectsInv'
  BY <1>1, <1>3, <1>4, <1>5, <1>7, WorkStands DEF IInv
<1> QED
  BY <1>2, <1>8, <1>9 DEF IInv

LEMMA PutReferenceStep ==
  ASSUME IInv, NEW p \in Clients, PutReference(p)
  PROVE  IInv'
<1>1. /\ entities' = entities /\ transitions' = transitions
      /\ backups' = backups /\ answers' = answers /\ damaged' = damaged /\ objects' = objects
      /\ client' = [client EXCEPT ![p] = Idle(None)]
  BY DEF PutReference
<1>2. PICK c, t : c = client[p].content /\ t = client[p].trace
  OBVIOUS
<1>3. c \in Contents /\ t \in Traces /\ Present(c)
  BY <1>2 DEF PutReference, IInv, CallsInv, CallSound, ObjectsInv, DoneStands
<1>4. refs' = IF c \in DOMAIN refs THEN refs ELSE Extend(refs, c, t)
  BY <1>2 DEF PutReference
<1>5. /\ DOMAIN refs' = DOMAIN refs \cup {c}
      /\ \A d \in DOMAIN refs : refs'[d] = refs[d]
      /\ \A d \in DOMAIN refs' : d \in DOMAIN refs \/ refs'[d] = t
  BY <1>4 DEF Extend
<1>6. TablesInv'
  <2>1. Maps(refs', Contents, Traces)
    BY <1>3, <1>5 DEF IInv, TablesInv, InOrderTables, Maps
  <2> QED
    BY <1>1, <1>5, <2>1 DEF IInv, TablesInv, InOrderTables
<1>7. BackupsInv'
  BY <1>1 DEF IInv, BackupsInv
<1>8. CallsInv'
  BY <1>1, CallMoves, IdleIsSound, NoneIsOutcome DEF IInv
<1>9. ObjectsTyped' /\ \A d \in Contents : Present(d) => Present(d)'
  BY <1>1 DEF IInv, ObjectsInv, ObjectsTyped, Present
<1>10. \A d \in DOMAIN refs' : Present(d)'
  BY <1>1, <1>3, <1>5 DEF IInv, ObjectsInv, Present
<1>11. ObjectsInv'
  BY <1>1, <1>9, <1>10, WorkStands, IdleIsSound, NoneIsOutcome DEF IInv
<1> QED
  BY <1>6, <1>7, <1>8, <1>11 DEF IInv

LEMMA ReplayStep ==
  ASSUME IInv, NEW p \in Clients, NEW k \in Commands, NEW r \in Requests,
         NEW answered \in BOOLEAN, Replay(p, k, r, answered)
  PROVE  IInv'
<1>1. PICK t \in transitions : Answer(t, p, answered)
  BY DEF Replay
<1>2. client' = [client EXCEPT ![p] = Idle(None)] /\ answers' \subseteq transitions
  BY <1>1 DEF Answer, IInv, TablesInv
<1> QED
  BY <1>2, OnlyTheCall, IdleIsSound, NoneIsOutcome DEF Replay

LEMMA ApplyStep ==
  ASSUME IInv, NEW p \in Clients, NEW k \in Commands, NEW r \in Requests, NEW expected,
         NEW correction \in Commands \cup {None}, NEW answered \in BOOLEAN,
         Apply(p, k, r, expected, correction, answered)
  PROVE  IInv'
<1>1. PICK t : t = NewTransition(k, r, VersionOf(r.entity) + 1, correction)
  OBVIOUS
<1>2. PICK row : row = [kind |-> r.kind, version |-> VersionOf(r.entity) + 1, state |-> r.state]
  OBVIOUS
<1>3. /\ \A u \in transitions : u.id # k
      /\ expected = VersionOf(r.entity)
      /\ Admissible(r)
      /\ correction = None \/ \E u \in transitions : u.id = correction
  BY DEF Apply
<1>4. /\ transitions' = transitions \cup {t}
      /\ entities' = Extend(entities, r.entity, row)
      /\ Answer(t, p, answered)
      /\ refs' = refs /\ objects' = objects /\ backups' = backups /\ damaged' = damaged
  BY <1>1, <1>2, <1>3 DEF Apply, Record
<1>5. InOrderTables(entities, transitions, refs)
  BY DEF IInv, TablesInv
<1>6. InOrderTables(entities', transitions', refs')
  <2>1. InOrderTables(Extend(entities, r.entity, row), transitions \cup {t}, refs)
    BY <1>1, <1>2, <1>3, <1>5, ApplyInOrder
  <2> QED
    BY <1>4, <2>1
<1>7. answers' \subseteq transitions'
  BY <1>4 DEF Answer, IInv, TablesInv
<1>8. client' = [client EXCEPT ![p] = Idle(None)]
  BY <1>4 DEF Answer
<1>9. TablesInv' /\ BackupsInv'
  BY <1>4, <1>6, <1>7 DEF TablesInv, IInv, BackupsInv
<1>10. CallsInv'
  BY <1>4, <1>8, CallMoves, IdleIsSound, NoneIsOutcome DEF IInv
<1>11. ObjectsTyped' /\ \A d \in Contents : Present(d) => Present(d)'
  BY <1>4 DEF IInv, ObjectsInv, ObjectsTyped, Present
<1>12. \A d \in DOMAIN refs' : Present(d)'
  BY <1>4 DEF IInv, ObjectsInv, Present
<1>13. ObjectsInv'
  BY <1>4, <1>8, <1>11, <1>12, WorkStands, IdleIsSound, NoneIsOutcome DEF IInv
<1> QED
  BY <1>9, <1>10, <1>13 DEF IInv

LEMMA BackupSnapshotStep ==
  ASSUME IInv, NEW p \in Clients, BackupSnapshot(p)
  PROVE  IInv'
<1>1. PICK x : x = [op |-> "backup", snap |-> Snapshot, todo |-> DOMAIN refs]
  OBVIOUS
<1>2. x.op = "backup" /\ x.snap = Snapshot /\ x.todo = DOMAIN refs
  BY <1>1
<1>3. Sound(Snapshot) /\ Snapshot.refs = refs
  BY DEF Sound, Snapshot, IInv, TablesInv
<1>4. CallSound(x, backups) /\ DoneStands(x)
  BY <1>1, <1>2, <1>3 DEF CallSound, DoneStands
<1>5. answers' \subseteq transitions
  BY DEF BackupSnapshot, IInv, TablesInv
<1> QED
  BY <1>1, <1>4, <1>5, OnlyTheCall DEF BackupSnapshot

LEMMA BackupVerifyStep ==
  ASSUME IInv, NEW p \in Clients, NEW c \in Contents, BackupVerify(p, c)
  PROVE  IInv'
<1>1. PICK x : x = client[p]
  OBVIOUS
<1>2. /\ x = [op |-> "backup", snap |-> x.snap, todo |-> x.todo]
      /\ Sound(x.snap) /\ x.todo \subseteq DOMAIN x.snap.refs
  BY <1>1 DEF BackupVerify, IInv, CallsInv, CallSound
<1>3. PICK y : y = [op |-> "backup", snap |-> x.snap, todo |-> x.todo \ {c}]
  OBVIOUS
<1>4. [x EXCEPT !.todo = @ \ {c}] = y
  BY <1>2, <1>3
<1>5. y.op = "backup" /\ y.snap = x.snap /\ y.todo = x.todo \ {c}
  BY <1>3
<1>6. CallSound(y, backups) /\ DoneStands(y)
  BY <1>2, <1>3, <1>5 DEF CallSound, DoneStands
<1>7. PICK z : client' = [client EXCEPT ![p] = z] /\ (z = y \/ z = Idle(None))
  <2>1. CASE Verifies(c)
    BY <1>1, <1>4, <2>1 DEF BackupVerify
  <2>2. CASE ~Verifies(c)
    BY <2>2 DEF BackupVerify, Refused
  <2> QED
    BY <2>1, <2>2
<1>8. CallSound(z, backups) /\ DoneStands(z)
  BY <1>6, <1>7, IdleIsSound, NoneIsOutcome
<1>9. answers' \subseteq transitions
  BY DEF BackupVerify, IInv, TablesInv
<1> QED
  BY <1>7, <1>8, <1>9, OnlyTheCall DEF BackupVerify

LEMMA BackupFinishStep ==
  ASSUME IInv, NEW p \in Clients, BackupFinish(p)
  PROVE  IInv'
<1>1. PICK snap : snap = client[p].snap
  OBVIOUS
<1>2. Sound(snap)
  BY <1>1 DEF BackupFinish, IInv, CallsInv, CallSound
<1>3. /\ entities' = entities /\ transitions' = transitions /\ refs' = refs
      /\ objects' = objects /\ answers' = answers /\ damaged' = damaged
      /\ client' = [client EXCEPT ![p] = Idle(None)]
  BY DEF BackupFinish, Finished, Refused, tables
<1>4. TablesInv'
  BY <1>3 DEF IInv, TablesInv
<1>5. BackupsInv' /\ \A m \in DOMAIN backups : m \in DOMAIN backups' /\ backups'[m] = backups[m]
  <2>1. CASE backups' = backups
    BY <2>1 DEF IInv, BackupsInv
  <2>2. CASE backups' # backups
    <3>1. PICK n \in 0..MaxBackups : DOMAIN backups = 1..n
      BY DEF IInv, BackupsInv
    <3>2. n \in Nat /\ MaxBackups \in Nat
      BY <3>1, StoreAssumption
    <3>3. Cardinality(DOMAIN backups) = n
      BY <3>1, <3>2, FS_Interval
    <3>4. n + 1 <= MaxBackups /\ backups' = Extend(backups, n + 1, snap)
      BY <1>1, <2>2, <3>3 DEF BackupFinish, Finished
    <3>5. /\ DOMAIN backups' = 1..(n + 1)
          /\ \A m \in DOMAIN backups : backups'[m] = backups[m]
          /\ backups'[n + 1] = snap
      BY <3>1, <3>2, <3>4 DEF Extend
    <3>6. \A m \in DOMAIN backups' : Sound(backups'[m])
      BY <1>2, <3>1, <3>2, <3>5 DEF IInv, BackupsInv
    <3>7. n + 1 \in 0..MaxBackups
      BY <3>2, <3>4
    <3> QED
      BY <3>1, <3>2, <3>5, <3>6, <3>7 DEF BackupsInv
  <2> QED
    BY <2>1, <2>2
<1>6. CallsInv'
  BY <1>3, <1>5, CallMoves, IdleIsSound, NoneIsOutcome DEF IInv
<1>7. ObjectsTyped' /\ \A d \in Contents : Present(d) => Present(d)'
  BY <1>3 DEF IInv, ObjectsInv, ObjectsTyped, Present
<1>8. \A d \in DOMAIN refs' : Present(d)'
  BY <1>3 DEF IInv, ObjectsInv, Present
<1>9. ObjectsInv'
  BY <1>3, <1>5, <1>7, <1>8, WorkStands, IdleIsSound, NoneIsOutcome DEF IInv
<1> QED
  BY <1>4, <1>5, <1>6, <1>9 DEF IInv

LEMMA RestoreValidateStep ==
  ASSUME IInv, NEW p \in Clients, NEW m, RestoreValidate(p, m)
  PROVE  IInv'
<1>1. PICK x : x = [op |-> "restore", marker |-> m, todo |-> DOMAIN backups[m].refs]
  OBVIOUS
<1>2. x.op = "restore" /\ x.marker = m /\ x.todo = DOMAIN backups[m].refs
  BY <1>1
<1>3. CallSound(x, backups) /\ DoneStands(x)
  BY <1>1, <1>2 DEF RestoreValidate, CallSound, DoneStands
<1>4. PICK z : client' = [client EXCEPT ![p] = z] /\ (z = x \/ z = Idle(None))
  BY <1>1 DEF RestoreValidate
<1>5. CallSound(z, backups) /\ DoneStands(z)
  BY <1>3, <1>4, IdleIsSound, NoneIsOutcome
<1>6. answers' \subseteq transitions
  BY DEF RestoreValidate, IInv, TablesInv
<1> QED
  BY <1>4, <1>5, <1>6, OnlyTheCall DEF RestoreValidate

LEMMA RestoreObjectStep ==
  ASSUME IInv, NEW p \in Clients, NEW c \in Contents, RestoreObject(p, c)
  PROVE  IInv'
<1>1. PICK x, tag : x = client[p] /\ tag = <<"marker", client[p].marker>>
  OBVIOUS
<1>2. /\ x = [op |-> "restore", marker |-> x.marker, todo |-> x.todo]
      /\ x.op = "restore" /\ x.marker \in DOMAIN backups
      /\ x.todo \subseteq DOMAIN backups[x.marker].refs
  BY <1>1 DEF RestoreObject, IInv, CallsInv, CallSound
<1>3. /\ entities' = entities /\ transitions' = transitions /\ refs' = refs
      /\ backups' = backups /\ answers' = answers /\ damaged' = damaged
      /\ objects' = WithObject(c, tag)
  BY <1>1 DEF RestoreObject, tables
<1>4. TablesInv' /\ BackupsInv'
  BY <1>3 DEF IInv, TablesInv, BackupsInv
<1>5. /\ ObjectsTyped'
      /\ \A d : Present(d) => Present(d)'
      /\ PutSucceeds(c, tag) => Present(c)'
  BY <1>3, PutKeeps DEF IInv, ObjectsInv
<1>6. \A d \in DOMAIN refs' : Present(d)'
  BY <1>3, <1>5 DEF IInv, ObjectsInv
<1>7. PICK y : y = [op |-> "restore", marker |-> x.marker, todo |-> x.todo \ {c}]
  OBVIOUS
<1>8. [x EXCEPT !.todo = @ \ {c}] = y
  BY <1>2, <1>7
<1>9. y.op = "restore" /\ y.marker = x.marker /\ y.todo = x.todo \ {c}
  BY <1>7
<1>10. CallSound(y, backups')
  BY <1>2, <1>3, <1>7, <1>9 DEF CallSound
<1>11. ASSUME PutSucceeds(c, tag) PROVE DoneStands(y)'
  <2>1. \A d \in DOMAIN backups[x.marker].refs \ x.todo : Present(d)
    BY <1>1, <1>2 DEF IInv, ObjectsInv, DoneStands
  <2>2. \A d \in DOMAIN backups[x.marker].refs \ (x.todo \ {c}) : Present(d)'
    BY <1>5, <1>11, <2>1
  <2> QED
    BY <1>3, <1>9, <2>2 DEF DoneStands
<1>12. PICK z : /\ client' = [client EXCEPT ![p] = z]
                /\ CallSound(z, backups') /\ DoneStands(z)'
  <2>1. CASE PutSucceeds(c, tag)
    <3>1. client' = [client EXCEPT ![p] = y]
      BY <1>1, <1>8, <2>1 DEF RestoreObject
    <3> QED
      BY <1>10, <1>11, <2>1, <3>1
  <2>2. CASE ~PutSucceeds(c, tag)
    <3>1. client' = [client EXCEPT ![p] = Idle("restore is corrupt")]
      BY <1>1, <2>2 DEF RestoreObject, Refused
    <3>2. "restore is corrupt" \in Outcomes
      BY DEF Outcomes
    <3> QED
      BY <3>1, <3>2, IdleIsSound
  <2> QED
    BY <2>1, <2>2
<1>13. CallsInv'
  BY <1>3, <1>12, CallMoves DEF IInv
<1>14. ObjectsInv'
  BY <1>3, <1>5, <1>6, <1>12, WorkStands DEF IInv
<1> QED
  BY <1>4, <1>13, <1>14 DEF IInv

LEMMA RestoreCommitStep ==
  ASSUME IInv, NEW p \in Clients, RestoreCommit(p)
  PROVE  IInv'
<1>1. PICK m : m = client[p].marker
  OBVIOUS
<1>2. client[p].todo = {} /\ client[p].op = "restore" /\ m \in DOMAIN backups
  BY <1>1 DEF RestoreCommit, IInv, CallsInv, CallSound
<1>3. objects' = objects /\ backups' = backups /\ damaged' = damaged
  BY DEF RestoreCommit, Restored
<1>4. CASE ~InOrder(backups[m].transitions)
  <2>1. /\ client' = [client EXCEPT ![p] = Idle("restore is out of order")]
        /\ UNCHANGED <<tables, answers>>
    BY <1>1, <1>4 DEF RestoreCommit, Restored, Refused
  <2>2. "restore is out of order" \in Outcomes
    BY DEF Outcomes
  <2>3. answers' \subseteq transitions
    BY <2>1 DEF IInv, TablesInv
  <2> QED
    BY <1>3, <2>1, <2>2, <2>3, IdleIsSound, OnlyTheCall
<1>5. CASE InOrder(backups[m].transitions)
  <2>1. /\ answers' = {} /\ entities' = backups[m].entities
        /\ transitions' = backups[m].transitions /\ refs' = backups[m].refs
        /\ client' = [client EXCEPT ![p] = Idle(None)]
    BY <1>1, <1>5 DEF RestoreCommit, Restored
  <2>2. TablesInv'
    BY <1>2, <2>1 DEF TablesInv, IInv, BackupsInv, Sound
  <2>3. BackupsInv'
    BY <1>3 DEF IInv, BackupsInv
  <2>4. CallsInv'
    BY <1>3, <2>1, CallMoves, IdleIsSound, NoneIsOutcome DEF IInv
  <2>5. ObjectsTyped' /\ \A d : Present(d) => Present(d)'
    BY <1>3 DEF IInv, ObjectsInv, ObjectsTyped, Present
  <2>6. \A d \in DOMAIN backups[m].refs : Present(d)
    BY <1>1, <1>2 DEF IInv, ObjectsInv, DoneStands
  <2>7. \A d \in DOMAIN refs' : Present(d)'
    BY <2>1, <2>5, <2>6
  <2>8. ObjectsInv'
    BY <1>3, <2>1, <2>5, <2>7, WorkStands, IdleIsSound, NoneIsOutcome DEF IInv
  <2> QED
    BY <2>2, <2>3, <2>4, <2>8 DEF IInv
<1> QED
  BY <1>4, <1>5

LEMMA EmptyTables ==
  /\ DOMAIN <<>> = {}
  /\ InOrderTables(<<>>, {}, <<>>)
<1>1. DOMAIN <<>> = {}
  OBVIOUS
<1> QED
  BY <1>1 DEF InOrderTables, Maps, Agrees

LEMMA ResetForTestStep ==
  ASSUME IInv, NEW p \in Clients, NEW cleared \in BOOLEAN, ResetForTest(p, cleared)
  PROVE  IInv'
<1>1. /\ answers' = {} /\ entities' = <<>> /\ transitions' = {} /\ refs' = <<>>
      /\ backups' = backups /\ client' = client
      /\ damaged' \subseteq damaged
      /\ \A q \in Clients : client[q].op = "idle"
      /\ objects' = <<>> \/ objects' = objects
  BY DEF ResetForTest
<1>2. TablesInv'
  BY <1>1, EmptyTables DEF TablesInv
<1>3. BackupsInv' /\ CallsInv'
  BY <1>1 DEF IInv, BackupsInv, CallsInv
<1>4. ObjectsTyped'
  <2>1. CASE objects' = objects
    BY <1>1, <2>1 DEF IInv, ObjectsInv, ObjectsTyped
  <2>2. CASE objects' = <<>>
    <3>1. DOMAIN objects' = {} /\ objects' = [c \in DOMAIN objects' |-> objects'[c]]
      BY <2>2, EmptyTables
    <3> QED
      BY <1>1, <3>1 DEF IInv, ObjectsInv, ObjectsTyped
  <2> QED
    BY <1>1, <2>1, <2>2
<1>5. \A q \in Clients : DoneStands(client[q])'
  BY <1>1 DEF DoneStands
<1>6. ObjectsInv'
  BY <1>1, <1>4, <1>5, EmptyTables DEF ObjectsInv
<1> QED
  BY <1>2, <1>3, <1>6 DEF IInv

LEMMA CrashStep ==
  ASSUME IInv, NEW p \in Clients, Crash(p)
  PROVE  IInv'
<1>1. answers' \subseteq transitions
  BY DEF Crash, IInv, TablesInv
<1> QED
  BY <1>1, OnlyTheCall, IdleIsSound, NoneIsOutcome DEF Crash

LEMMA DamageStep ==
  ASSUME IInv, UNCHANGED <<tables, backups, client, answers>>,
         ObjectsTyped', \A c \in Contents : Present(c) => Present(c)'
  PROVE  IInv'
<1>1. /\ entities' = entities /\ transitions' = transitions /\ refs' = refs
      /\ backups' = backups /\ client' = client /\ answers' = answers
  BY DEF tables
<1>2. TablesInv' /\ BackupsInv' /\ CallsInv'
  BY <1>1 DEF IInv, TablesInv, BackupsInv, CallsInv
<1>3. \A c \in DOMAIN refs' : Present(c)'
  BY <1>1 DEF IInv, TablesInv, InOrderTables, Maps, ObjectsInv
<1>4. ASSUME NEW q \in Clients PROVE DoneStands(client[q])'
  <2>1. CallSound(client[q], backups) /\ DoneStands(client[q])
    BY DEF IInv, CallsInv, ObjectsInv
  <2>2. ASSUME client[q].op = "put" PROVE Present(client[q].content)'
    <3>1. PICK c \in Contents : c = client[q].content
      BY <2>1, <2>2 DEF CallSound
    <3>2. Present(c)'
      BY <2>1, <2>2, <3>1 DEF DoneStands
    <3> QED
      BY <1>1, <3>1, <3>2 DEF Present
  <2>3. ASSUME client[q].op = "restore",
               NEW c \in DOMAIN backups[client[q].marker].refs \ client[q].todo
        PROVE  Present(c)'
    <3>1. c \in Contents
      BY <2>1, <2>3 DEF CallSound, IInv, BackupsInv, Sound, InOrderTables, Maps
    <3> QED
      BY <2>1, <2>3, <3>1 DEF DoneStands
  <2> QED
    BY <1>1, <2>2, <2>3 DEF DoneStands
<1> QED
  BY <1>2, <1>3, <1>4 DEF IInv, ObjectsInv

LEMMA DamageObjectStep ==
  ASSUME IInv, NEW c \in Contents, NEW lost \in BOOLEAN, DamageObject(c, lost)
  PROVE  IInv'
<1>1. /\ DOMAIN objects' \subseteq DOMAIN objects
      /\ objects' = [d \in DOMAIN objects' |-> objects'[d]]
      /\ \A d \in DOMAIN objects \ {c} : d \in DOMAIN objects' /\ objects'[d] = objects[d]
      /\ c \in DOMAIN objects' =>
           objects'[c] = [tag |-> objects[c].tag, sound |-> FALSE]
  <2>1. CASE lost
    BY <2>1 DEF DamageObject
  <2>2. CASE ~lost
    <3>1. PICK o : o = objects[c]
      OBVIOUS
    <3>2. c \in DOMAIN objects /\ objects = [d \in DOMAIN objects |-> objects[d]]
          /\ o = [tag |-> o.tag, sound |-> o.sound]
      BY <3>1 DEF DamageObject, Absent, IInv, ObjectsInv, ObjectsTyped
    <3>3. PICK y : y = [tag |-> o.tag, sound |-> FALSE]
      OBVIOUS
    <3>4. [o EXCEPT !.sound = FALSE] = y
      <4>1. PICK no : no = FALSE
        OBVIOUS
      <4>2. [o EXCEPT !.sound = no] = [tag |-> o.tag, sound |-> no]
        BY <3>2
      <4> QED
        BY <3>3, <4>1, <4>2
    <3>5. objects' = [objects EXCEPT ![c] = y]
      BY <2>2, <3>1, <3>4 DEF DamageObject
    <3> QED
      BY <3>1, <3>2, <3>3, <3>5
  <2> QED
    BY <2>1, <2>2
<1>2. damaged' = damaged \cup {<<0, c>>}
  BY DEF DamageObject
<1>3. ObjectsTyped'
  <2>1. DOMAIN objects' \subseteq Contents /\ damaged' \subseteq (0..MaxBackups) \X Contents
    BY <1>1, <1>2, StoreAssumption DEF IInv, ObjectsInv, ObjectsTyped
  <2>2. ASSUME NEW d \in DOMAIN objects'
        PROVE  /\ objects'[d] = [tag |-> objects'[d].tag, sound |-> objects'[d].sound]
               /\ objects'[d].sound \in BOOLEAN
    <3>1. CASE d # c
      BY <1>1, <3>1 DEF IInv, ObjectsInv, ObjectsTyped
    <3>2. CASE d = c
      <4>1. PICK o : o = [tag |-> objects[c].tag, sound |-> FALSE]
        OBVIOUS
      <4>2. objects'[d] = o
        BY <1>1, <3>2, <4>1
      <4> QED
        BY <4>1, <4>2
    <3> QED
      BY <3>1, <3>2
  <2> QED
    BY <1>1, <2>1, <2>2 DEF ObjectsTyped
<1>4. \A d \in Contents : Present(d) => Present(d)'
  BY <1>1, <1>2 DEF Present
<1> QED
  BY <1>3, <1>4, DamageStep DEF DamageObject

LEMMA DamageBackupStep ==
  ASSUME IInv, NEW c \in Contents, NEW m \in 1..MaxBackups, DamageBackup(m, c)
  PROVE  IInv'
<1>1. objects' = objects /\ damaged' = damaged \cup {<<m, c>>}
  BY DEF DamageBackup
<1>2. <<m, c>> \in (0..MaxBackups) \X Contents
  BY StoreAssumption
<1>3. ObjectsTyped'
  BY <1>1, <1>2 DEF IInv, ObjectsInv, ObjectsTyped
<1>4. \A d \in Contents : Present(d) => Present(d)'
  BY <1>1 DEF Present
<1> QED
  BY <1>3, <1>4, DamageStep DEF DamageBackup

-----------------------------------------------------------------------------
(* The theorems *)

LEMMA InitIInv == Init => IInv
<1> SUFFICES ASSUME Init PROVE IInv
  OBVIOUS
<1>1. /\ entities = <<>> /\ transitions = {} /\ refs = <<>> /\ objects = <<>>
      /\ backups = <<>> /\ answers = {} /\ damaged = {}
      /\ client = [p \in Clients |-> Idle(None)]
  BY DEF Init
<1>2. TablesInv
  BY <1>1, EmptyTables DEF TablesInv
<1>3. BackupsInv
  <2>1. DOMAIN backups = 1..0 /\ 0 \in 0..MaxBackups
    BY <1>1, EmptyTables, StoreAssumption
  <2> QED
    BY <1>1, <2>1, EmptyTables DEF BackupsInv
<1>4. \A p \in Clients : CallSound(client[p], backups) /\ DoneStands(client[p])
  BY <1>1, IdleIsSound, NoneIsOutcome
<1>5. CallsInv
  BY <1>1, <1>4 DEF CallsInv
<1>6. ObjectsTyped
  <2>1. DOMAIN objects = {} /\ objects = [c \in DOMAIN objects |-> objects[c]]
    BY <1>1, EmptyTables
  <2> QED
    BY <1>1, <2>1 DEF ObjectsTyped
<1>7. ObjectsInv
  BY <1>1, <1>4, <1>6, EmptyTables DEF ObjectsInv
<1> QED
  BY <1>2, <1>3, <1>5, <1>7 DEF IInv

LEMMA NextIInv == IInv /\ [Next]_vars => IInv'
<1> SUFFICES ASSUME IInv, [Next]_vars PROVE IInv'
  OBVIOUS
<1>1. CASE UNCHANGED vars
  BY <1>1 DEF vars, tables, IInv, TablesInv, BackupsInv, CallsInv, ObjectsInv,
              ObjectsTyped, DoneStands, Present
<1>2. ASSUME NEW p \in Clients, NEW c \in Contents, NEW t \in Traces, PutObject(p, c, t)
      PROVE  IInv'
  BY <1>2, PutObjectStep
<1>3. ASSUME NEW p \in Clients, PutReference(p) PROVE IInv'
  BY <1>3, PutReferenceStep
<1>4. ASSUME NEW p \in Clients, NEW k \in Commands, NEW r \in Requests,
             NEW answered \in BOOLEAN, Replay(p, k, r, answered)
      PROVE  IInv'
  BY <1>4, ReplayStep
<1>5. ASSUME NEW p \in Clients, NEW k \in Commands, NEW r \in Requests,
             NEW answered \in BOOLEAN, NEW expected, NEW correction \in Commands \cup {None},
             Apply(p, k, r, expected, correction, answered)
      PROVE  IInv'
  BY <1>5, ApplyStep
<1>6. ASSUME NEW p \in Clients, BackupSnapshot(p) PROVE IInv'
  BY <1>6, BackupSnapshotStep
<1>7. ASSUME NEW p \in Clients, NEW c \in Contents, BackupVerify(p, c) PROVE IInv'
  BY <1>7, BackupVerifyStep
<1>8. ASSUME NEW p \in Clients, BackupFinish(p) PROVE IInv'
  BY <1>8, BackupFinishStep
<1>9. ASSUME NEW p \in Clients, NEW m \in 1..MaxBackups, RestoreValidate(p, m) PROVE IInv'
  BY <1>9, RestoreValidateStep
<1>10. ASSUME NEW p \in Clients, NEW c \in Contents, RestoreObject(p, c) PROVE IInv'
  BY <1>10, RestoreObjectStep
<1>11. ASSUME NEW p \in Clients, RestoreCommit(p) PROVE IInv'
  BY <1>11, RestoreCommitStep
<1>12. ASSUME NEW p \in Clients, NEW cleared \in BOOLEAN, ResetForTest(p, cleared) PROVE IInv'
  BY <1>12, ResetForTestStep
<1>13. ASSUME NEW p \in Clients, Crash(p) PROVE IInv'
  BY <1>13, CrashStep
<1>14. ASSUME NEW c \in Contents, NEW lost \in BOOLEAN, DamageObject(c, lost) PROVE IInv'
  BY <1>14, DamageObjectStep
<1>15. ASSUME NEW c \in Contents, NEW m \in 1..MaxBackups, DamageBackup(m, c) PROVE IInv'
  BY <1>15, DamageBackupStep
<1> QED
  BY <1>1, <1>2, <1>3, <1>4, <1>5, <1>6, <1>7, <1>8, <1>9, <1>10, <1>11, <1>12, <1>13,
     <1>14, <1>15 DEF Next

LEMMA Invariance == Spec => []IInv
BY InitIInv, NextIInv, PTL DEF Spec

LEMMA SoundIsSnapshot ==
  ASSUME NEW s, Sound(s)
  PROVE  IsSnapshot(s)
BY DEF Sound, InOrderTables, IsSnapshot

\* Type correctness: tables, objects, backups and calls keep the types the code
\* gives them, and a call only works on evidence of its own snapshot or backup.
THEOREM TypeCorrect == Spec => []TypeOK
<1>1. IInv => TypeOK
  <2> SUFFICES ASSUME IInv PROVE TypeOK
    OBVIOUS
  <2>1. IsSnapshot(Snapshot)
    BY DEF IInv, TablesInv, InOrderTables, IsSnapshot, Snapshot
  <2>2. /\ DOMAIN objects \subseteq Contents
        /\ \A c \in DOMAIN objects : objects[c].sound \in BOOLEAN
        /\ damaged \subseteq (0..MaxBackups) \X Contents
    BY DEF IInv, ObjectsInv, ObjectsTyped
  <2>3. /\ DOMAIN backups \subseteq 1..MaxBackups
        /\ \A m \in DOMAIN backups : IsSnapshot(backups[m])
    BY SoundIsSnapshot, StoreAssumption DEF IInv, BackupsInv
  <2>4. DOMAIN client = Clients
    BY DEF IInv, CallsInv
  <2>5. \A p \in Clients : IsCall(client[p])
    BY SoundIsSnapshot DEF IInv, CallsInv, CallSound, IsCall
  <2>6. answers \subseteq TransitionRecord
    BY DEF IInv, TablesInv, InOrderTables
  <2> QED
    BY <2>1, <2>2, <2>3, <2>4, <2>5, <2>6 DEF TypeOK
<1> QED
  BY <1>1, Invariance, PTL

\* No writer, retry, crash or restore leaves an entity off the end of its history,
\* or a history with a gap, a fork or a step that domain.py does not allow.
THEOREM HistoriesAreLinear == Spec => []HistoryIsLinear
<1>1. IInv => HistoryIsLinear
  BY DEF IInv, TablesInv, InOrderTables, HistoryIsLinear
<1> QED
  BY <1>1, Invariance, PTL

\* Whatever put_evidence and restore leave half done, a reference has its bytes and
\* a transition its reference; only damage from outside makes evidence unreadable.
THEOREM EvidenceIsKept == Spec => []EvidenceStands
<1>1. IInv => EvidenceStands
  <2> SUFFICES ASSUME IInv PROVE EvidenceStands
    OBVIOUS
  <2>1. \A c \in DOMAIN refs : <<0, c>> \in damaged \/ Verifies(c)
    BY DEF IInv, ObjectsInv, Present, Verifies, Absent
  <2>2. \A t \in transitions : t.evidence \in DOMAIN refs
    BY DEF IInv, TablesInv, InOrderTables
  <2> QED
    BY <2>1, <2>2 DEF EvidenceStands
<1> QED
  BY <1>1, Invariance, PTL

\* A transition a caller was told of is in the history until a reset or a restore,
\* and every retry of its command was told the same one.
THEOREM AnswersAreKept == Spec => []AnswersStand
<1>1. IInv => AnswersStand
  BY DEF IInv, TablesInv, InOrderTables, AnswersStand
<1> QED
  BY <1>1, Invariance, PTL

\* An export is one point of the store, whatever ran while backup() read the
\* objects, and restore()'s own checks accept it.
THEOREM BackupsAreOnePoint == Spec => []BackupIsOnePoint
<1>1. ASSUME NEW b, Sound(b)
      PROVE  Valid(b, {}) /\ Agrees(b.entities, b.transitions)
  <2>1. /\ Agrees(b.entities, b.transitions)
        /\ b.transitions \subseteq TransitionRecord
        /\ Maps(b.entities, Entities, EntityRow)
        /\ \A t \in b.transitions :
             /\ t.evidence \in DOMAIN b.refs
             /\ t.correction = None \/ \E u \in b.transitions : u.id = t.correction
    BY <1>1 DEF Sound, InOrderTables
  <2>2. ASSUME NEW e \in DOMAIN b.entities
        PROVE  /\ \E t \in b.transitions : t.entity = e /\ t.version = b.entities[e].version
               /\ \A t \in b.transitions : t.entity = e => t.version <= b.entities[e].version
    <3>1. /\ \E t \in HistoryOf(e, b.transitions) : t.version = b.entities[e].version
          /\ \A t \in HistoryOf(e, b.transitions) : t.version \in 1..b.entities[e].version
      BY <2>1 DEF Agrees
    <3>2. b.entities[e].version \in Nat
      BY <2>1 DEF Maps, EntityRow
    <3> QED
      BY <3>1, <3>2 DEF HistoryOf
  <2> QED
    BY <2>1, <2>2 DEF Valid
<1>2. IInv => BackupIsOnePoint
  BY <1>1 DEF IInv, BackupsInv, BackupIsOnePoint
<1> QED
  BY <1>2, Invariance, PTL

-----------------------------------------------------------------------------
(* The store implements the log *)

PointOf(x) == IF x.op = "backup" THEN {Point(x.snap)} ELSE {}

\* What a client's next call is decides which point it holds.
LEMMA CapturedMoves ==
  ASSUME CallsInv, NEW p \in Clients, NEW x, client' = [client EXCEPT ![p] = x]
  PROVE  Captured' = [Captured EXCEPT ![p] = PointOf(x)]
<1>1. \A q \in Clients : client'[q] = IF q = p THEN x ELSE client[q]
  BY DEF CallsInv
<1>2. ASSUME NEW q \in Clients
      PROVE  Captured'[q] = [Captured EXCEPT ![p] = PointOf(x)][q]
  <2>1. CASE q = p
    BY <1>1, <2>1 DEF Captured, PointOf, Point
  <2>2. CASE q # p
    BY <1>1, <2>2 DEF Captured, Point
  <2> QED
    BY <2>1, <2>2
<1> QED
  BY <1>2 DEF Captured

LEMMA CapturedStays ==
  ASSUME CallsInv, NEW p \in Clients, client[p].op # "backup",
         NEW x, client' = [client EXCEPT ![p] = x], x.op # "backup"
  PROVE  Captured' = Captured
<1>1. PointOf(x) = {} /\ Captured[p] = {}
  BY DEF PointOf, Captured
<1>2. Captured' = [Captured EXCEPT ![p] = {}]
  BY <1>1, CapturedMoves
<1> QED
  BY <1>1, <1>2 DEF Captured

LEMMA SavedStays ==
  ASSUME backups' = backups
  PROVE  Saved' = Saved
BY DEF Saved, Point

LEMMA IdleHoldsNothing ==
  ASSUME NEW why
  PROVE  Idle(why).op # "backup"
BY DEF Idle

\* A call that goes on or ends without a row, an answer or a backup lets go of the
\* point it held, if it held one.
LEMMA ReleaseStep ==
  ASSUME CallsInv, NEW p \in Clients,
         NEW x, client' = [client EXCEPT ![p] = x], x.op # "backup",
         UNCHANGED <<transitions, refs, answers, backups>>
  PROVE  Log!Release(p)
<1>1. PointOf(x) = {}
  BY DEF PointOf
<1>2. Captured' = [Captured EXCEPT ![p] = {}]
  BY <1>1, CapturedMoves
<1> QED
  BY <1>2, SavedStays DEF Log!Release

LEMMA LogInit ==
  ASSUME Init
  PROVE  Log!Init
<1>1. \A p \in Clients : client[p].op # "backup"
  BY IdleHoldsNothing DEF Init
<1>2. Captured = [p \in Clients |-> {}]
  BY <1>1 DEF Captured
<1>3. Saved = <<>>
  <2>1. DOMAIN backups = {}
    BY EmptyTables DEF Init
  <2> QED
    BY <2>1 DEF Saved
<1> QED
  BY <1>2, <1>3, EmptyTables DEF Init, Log!Init

LEMMA LearnStep ==
  ASSUME IInv, NEW p \in Clients, PutReference(p)
  PROVE  \E c \in Contents : Log!Learn(c)
<1>1. PICK c \in Contents : c = client[p].content
  BY DEF PutReference, IInv, CallsInv, CallSound
<1>2. /\ DOMAIN refs' = DOMAIN refs \cup {c}
      /\ UNCHANGED <<transitions, answers, backups>>
  BY <1>1 DEF PutReference, Extend
<1>3. Captured' = Captured
  BY CapturedStays, IdleHoldsNothing DEF PutReference, IInv
<1>4. Log!Learn(c)
  BY <1>2, <1>3, SavedStays DEF Log!Learn
<1> QED
  BY <1>4

LEMMA TellStep ==
  ASSUME IInv, NEW p \in Clients, NEW k, NEW r, NEW answered \in BOOLEAN,
         Replay(p, k, r, answered)
  PROVE  (\E t \in transitions : Log!Tell(t)) \/ Log!Release(p)
<1>1. PICK t \in transitions : Answer(t, p, answered)
  BY DEF Replay
<1>2. /\ client[p].op = "idle" /\ client' = [client EXCEPT ![p] = Idle(None)]
      /\ UNCHANGED <<transitions, refs, backups>>
  BY <1>1 DEF Replay, Answer, tables
<1>3. CASE answered
  <2>1. Captured' = Captured
    BY <1>2, CapturedStays, IdleHoldsNothing DEF IInv
  <2>2. Log!Tell(t)
    BY <1>1, <1>2, <1>3, <2>1, SavedStays DEF Log!Tell, Answer
  <2> QED
    BY <2>2
<1>4. CASE ~answered
  BY <1>1, <1>2, <1>4, ReleaseStep, IdleHoldsNothing DEF Answer, IInv
<1> QED
  BY <1>3, <1>4

\* The row of an entity is its latest transition, so what Apply checks against the
\* row holds of the log.
LEMMA RowIsLatest ==
  ASSUME InOrderTables(entities, transitions, refs), NEW e
  PROVE  /\ e \notin DOMAIN entities => \A u \in transitions : u.entity # e
         /\ e \in DOMAIN entities => \E u \in transitions :
              /\ u.entity = e /\ u.kind = entities[e].kind /\ Log!Latest(u)
              /\ u.version = entities[e].version /\ u.state = entities[e].state
<1>1. Agrees(entities, transitions)
  BY DEF InOrderTables
<1>2. e \notin DOMAIN entities => \A u \in transitions : u.entity # e
  BY <1>1 DEF Agrees
<1>3. ASSUME e \in DOMAIN entities
      PROVE  \E u \in transitions :
               /\ u.entity = e /\ u.kind = entities[e].kind /\ Log!Latest(u)
               /\ u.version = entities[e].version /\ u.state = entities[e].state
  <2>1. PICK u \in HistoryOf(e, transitions) :
          u.version = entities[e].version /\ u.state = entities[e].state
    BY <1>1, <1>3 DEF Agrees
  <2>2. \A v \in HistoryOf(e, transitions) :
          v.kind = entities[e].kind /\ v.version \in 1..entities[e].version
    BY <1>1, <1>3 DEF Agrees
  <2>3. \A v \in transitions : v.entity = e => v.version <= u.version
    BY <2>1, <2>2 DEF HistoryOf
  <2> QED
    BY <2>1, <2>2, <2>3 DEF HistoryOf, Log!Latest
<1> QED
  BY <1>2, <1>3

LEMMA RecordStep ==
  ASSUME IInv, NEW p \in Clients, NEW k \in Commands, NEW r \in Requests,
         NEW answered \in BOOLEAN, NEW expected \in 0..Cardinality(Commands),
         NEW correction \in Commands \cup {None},
         Apply(p, k, r, expected, correction, answered)
  PROVE  \E t \in Log!Transition : Log!Record(t)
<1>1. PICK t : t = NewTransition(k, r, expected + 1, correction)
  OBVIOUS
<1>2. /\ t.id = k /\ t.entity = r.entity /\ t.kind = r.kind /\ t.version = expected + 1
      /\ t.state = r.state /\ t.evidence = r.evidence /\ t.correction = correction
  BY <1>1 DEF NewTransition
<1>3. /\ client[p].op = "idle" /\ expected = VersionOf(r.entity) /\ Admissible(r)
      /\ \A u \in transitions : u.id # k
      /\ correction = None \/ \E u \in transitions : u.id = correction
  BY DEF Apply
<1>4. /\ transitions' = transitions \cup {t} /\ Answer(t, p, answered)
      /\ refs' = refs /\ backups' = backups
  BY <1>1 DEF Apply, Record
<1>5. Captured' = Captured
  BY <1>3, <1>4, CapturedStays, IdleHoldsNothing DEF Answer, IInv
<1>6. t \in Log!Transition
  BY <1>1 DEF NewTransition, Requests, Log!Transition
<1>7. Log!Continues(t)
  <2>1. InOrderTables(entities, transitions, refs)
    BY DEF IInv, TablesInv
  <2>2. CASE r.entity \in DOMAIN entities
    <3>1. PICK u \in transitions :
            /\ u.entity = r.entity /\ u.kind = entities[r.entity].kind /\ Log!Latest(u)
            /\ u.version = entities[r.entity].version /\ u.state = entities[r.entity].state
      BY <2>1, <2>2, RowIsLatest
    <3>2. /\ t.kind = u.kind /\ t.version = u.version + 1
          /\ u.state \in DOMAIN LEGAL[t.kind] /\ t.state \in LEGAL[t.kind][u.state]
      BY <1>2, <1>3, <2>2, <3>1 DEF VersionOf, Admissible, MayFollow
    <3> HIDE DEF LEGAL
    <3> QED
      BY <1>2, <3>1, <3>2 DEF Log!Continues
  <2>3. CASE r.entity \notin DOMAIN entities
    <3>1. \A u \in transitions : u.entity # r.entity
      BY <2>1, <2>3, RowIsLatest
    <3>2. t.version = 1 /\ t.state = INITIAL[t.kind]
      BY <1>2, <1>3, <2>3 DEF VersionOf, Admissible
    <3> QED
      BY <1>2, <3>1, <3>2 DEF Log!Continues
  <2> QED
    BY <2>2, <2>3
<1>8. t.evidence \in DOMAIN refs
  BY <1>2, <1>3 DEF Admissible
<1>9. answers' \in {answers, answers \cup {t}}
  BY <1>4 DEF Answer
<1>10. Log!Record(t)
  BY <1>2, <1>3, <1>4, <1>5, <1>7, <1>8, <1>9, SavedStays DEF Log!Record
<1> QED
  BY <1>6, <1>10

LEMMA CaptureStep ==
  ASSUME IInv, NEW p \in Clients, BackupSnapshot(p)
  PROVE  Log!Capture(p)
<1>1. PICK x : x = [op |-> "backup", snap |-> Snapshot, todo |-> DOMAIN refs]
  OBVIOUS
<1>2. PointOf(x) = {[log |-> transitions, known |-> DOMAIN refs]}
  BY <1>1 DEF PointOf, Point, Snapshot
<1>3. client[p].op = "idle" /\ client' = [client EXCEPT ![p] = x]
  BY <1>1 DEF BackupSnapshot
<1>4. Captured[p] = {}
  BY <1>3 DEF Captured
<1>5. Captured' = [Captured EXCEPT ![p] = PointOf(x)]
  BY <1>3, CapturedMoves DEF IInv
<1>6. UNCHANGED <<transitions, refs, answers, backups>>
  BY DEF BackupSnapshot, tables
<1> QED
  BY <1>2, <1>4, <1>5, <1>6, SavedStays DEF Log!Capture

\* Reading the objects back leaves the point as it was captured.
LEMMA VerifyKeepsPoint ==
  ASSUME IInv, NEW p \in Clients, NEW c \in Contents, BackupVerify(p, c)
  PROVE  UNCHANGED Log!vars \/ Log!Release(p)
<1>1. PICK x : x = client[p]
  OBVIOUS
<1>2. x.op = "backup" /\ x = [op |-> "backup", snap |-> x.snap, todo |-> x.todo]
  BY <1>1 DEF BackupVerify, IInv, CallsInv, CallSound
<1>3. UNCHANGED <<transitions, refs, answers, backups>>
  BY DEF BackupVerify, tables
<1>4. CASE Verifies(c)
  <2>1. PICK y : y = [op |-> "backup", snap |-> x.snap, todo |-> x.todo \ {c}]
    OBVIOUS
  <2>2. [x EXCEPT !.todo = @ \ {c}] = y /\ y.op = "backup" /\ y.snap = x.snap
    BY <1>2, <2>1
  <2>3. client' = [client EXCEPT ![p] = y]
    BY <1>1, <1>4, <2>2 DEF BackupVerify
  <2>4. PointOf(y) = Captured[p]
    BY <1>1, <1>2, <2>2 DEF PointOf, Captured
  <2>5. Captured' = [Captured EXCEPT ![p] = PointOf(y)]
    BY <2>3, CapturedMoves DEF IInv
  <2>6. Captured' = Captured
    BY <2>4, <2>5 DEF Captured
  <2> QED
    BY <1>3, <2>6, SavedStays DEF Log!vars
<1>5. CASE ~Verifies(c)
  BY <1>3, <1>5, ReleaseStep, IdleHoldsNothing DEF BackupVerify, Refused, IInv
<1> QED
  BY <1>4, <1>5

LEMMA SaveStep ==
  ASSUME IInv, NEW p \in Clients, BackupFinish(p)
  PROVE  (\E m \in 1..MaxBackups : Log!Save(p, m)) \/ Log!Release(p)
<1>1. PICK snap : snap = client[p].snap
  OBVIOUS
<1>2. /\ client[p].op = "backup" /\ client' = [client EXCEPT ![p] = Idle(None)]
      /\ UNCHANGED <<transitions, refs, answers>>
  BY DEF BackupFinish, Finished, Refused, tables
<1>3. CASE backups' = backups
  BY <1>2, <1>3, ReleaseStep, IdleHoldsNothing DEF IInv
<1>4. CASE backups' # backups
  <2>1. PICK n \in 0..MaxBackups : DOMAIN backups = 1..n
    BY DEF IInv, BackupsInv
  <2>2. n \in Nat /\ MaxBackups \in Nat
    BY <2>1, StoreAssumption
  <2>3. Cardinality(DOMAIN backups) = n
    BY <2>1, <2>2, FS_Interval
  <2>4. PICK m : m = n + 1
    OBVIOUS
  <2>5. m \in 1..MaxBackups /\ m \notin DOMAIN backups /\ backups' = Extend(backups, m, snap)
    BY <1>1, <1>4, <2>1, <2>2, <2>3, <2>4 DEF BackupFinish, Finished
  <2>6. /\ DOMAIN Saved = DOMAIN backups
        /\ Saved' = [b \in DOMAIN Saved \cup {m} |-> IF b = m THEN Point(snap) ELSE Saved[b]]
    BY <2>5 DEF Saved, Extend, Point
  <2>7. Point(snap) \in Captured[p]
    BY <1>1, <1>2 DEF Captured
  <2>8. PointOf(Idle(None)) = {}
    BY IdleHoldsNothing DEF PointOf
  <2>9. Captured' = [Captured EXCEPT ![p] = {}]
    BY <1>2, <2>8, CapturedMoves DEF IInv
  <2>10. Log!Save(p, m)
    BY <1>2, <2>5, <2>6, <2>7, <2>9 DEF Log!Save
  <2> QED
    BY <2>5, <2>10
<1> QED
  BY <1>3, <1>4

\* A restore puts back one saved point, whole, or nothing.
LEMMA GoBackStep ==
  ASSUME IInv, NEW p \in Clients, RestoreCommit(p)
  PROVE  (\E m \in DOMAIN Saved : Log!GoBack(Saved[m])) \/ Log!Release(p)
<1>1. PICK m : m = client[p].marker
  OBVIOUS
<1>2. client[p].op = "restore" /\ m \in DOMAIN backups
  BY <1>1 DEF RestoreCommit, IInv, CallsInv, CallSound
<1>3. backups' = backups
  BY DEF RestoreCommit, Restored
<1>4. CASE ~InOrder(backups[m].transitions)
  <2>1. /\ client' = [client EXCEPT ![p] = Idle("restore is out of order")]
        /\ UNCHANGED <<transitions, refs, answers>>
    BY <1>1, <1>4 DEF RestoreCommit, Restored, Refused, tables
  <2> QED
    BY <1>3, <2>1, ReleaseStep, IdleHoldsNothing DEF IInv
<1>5. CASE InOrder(backups[m].transitions)
  <2>1. /\ answers' = {} /\ transitions' = backups[m].transitions /\ refs' = backups[m].refs
        /\ client' = [client EXCEPT ![p] = Idle(None)]
    BY <1>1, <1>5 DEF RestoreCommit, Restored
  <2>2. Captured' = Captured
    BY <1>2, <2>1, CapturedStays, IdleHoldsNothing DEF IInv
  <2>3. m \in DOMAIN Saved /\ Saved[m].log = transitions' /\ Saved[m].known = DOMAIN refs'
    BY <1>2, <2>1 DEF Saved, Point
  <2>4. Log!GoBack(Saved[m])
    BY <1>3, <2>1, <2>2, <2>3, SavedStays DEF Log!GoBack
  <2> QED
    BY <2>3, <2>4
<1> QED
  BY <1>4, <1>5

LEMMA WipeStep ==
  ASSUME NEW p \in Clients, NEW cleared \in BOOLEAN, ResetForTest(p, cleared)
  PROVE  Log!Wipe
<1>1. /\ transitions' = {} /\ DOMAIN refs' = {} /\ answers' = {}
      /\ UNCHANGED <<backups, client>>
  BY EmptyTables DEF ResetForTest
<1>2. Captured' = Captured
  BY <1>1 DEF Captured, Point
<1> QED
  BY <1>1, <1>2, SavedStays DEF Log!Wipe, Log!GoBack

LEMMA LogStutter ==
  ASSUME UNCHANGED <<transitions, refs, answers, backups, client>>
  PROVE  UNCHANGED Log!vars
BY DEF Log!vars, Captured, Saved, Point

\* The steps of calls that write no row and take no point.
LEMMA QuietStep ==
  ASSUME IInv, NEW p \in Clients,
         \/ \E c \in Contents, t \in Traces : PutObject(p, c, t)
         \/ \E m \in 1..MaxBackups : RestoreValidate(p, m)
         \/ \E c \in Contents : RestoreObject(p, c)
         \/ Crash(p)
  PROVE  Log!Release(p)
<1>1. UNCHANGED <<transitions, refs, answers, backups>>
  BY DEF PutObject, RestoreValidate, RestoreObject, Crash, tables
<1>2. \E x : client' = [client EXCEPT ![p] = x] /\ x.op # "backup"
  <2>1. ASSUME NEW c \in Contents, NEW t \in Traces, PutObject(p, c, t)
        PROVE  \E x : client' = [client EXCEPT ![p] = x] /\ x.op # "backup"
    <3>1. PICK x : x = [op |-> "put", content |-> c, trace |-> t]
      OBVIOUS
    <3>2. x.op # "backup"
      BY <3>1
    <3> QED
      BY <2>1, <3>1, <3>2, IdleHoldsNothing DEF PutObject, Refused
  <2>2. ASSUME NEW m \in 1..MaxBackups, RestoreValidate(p, m)
        PROVE  \E x : client' = [client EXCEPT ![p] = x] /\ x.op # "backup"
    <3>1. PICK x : x = [op |-> "restore", marker |-> m, todo |-> DOMAIN backups[m].refs]
      OBVIOUS
    <3>2. x.op # "backup"
      BY <3>1
    <3> QED
      BY <2>2, <3>1, <3>2, IdleHoldsNothing DEF RestoreValidate
  <2>3. ASSUME NEW c \in Contents, RestoreObject(p, c)
        PROVE  \E x : client' = [client EXCEPT ![p] = x] /\ x.op # "backup"
    <3>1. PICK x, tag : x = client[p] /\ tag = <<"marker", client[p].marker>>
      OBVIOUS
    <3>2. x = [op |-> "restore", marker |-> x.marker, todo |-> x.todo]
      BY <2>3, <3>1 DEF RestoreObject, IInv, CallsInv, CallSound
    <3>3. PICK y : y = [op |-> "restore", marker |-> x.marker, todo |-> x.todo \ {c}]
      OBVIOUS
    <3>4. [x EXCEPT !.todo = @ \ {c}] = y /\ y.op # "backup"
      BY <3>2, <3>3
    <3>5. CASE PutSucceeds(c, tag)
      BY <2>3, <3>1, <3>4, <3>5 DEF RestoreObject
    <3>6. CASE ~PutSucceeds(c, tag)
      BY <2>3, <3>1, <3>6, IdleHoldsNothing DEF RestoreObject, Refused
    <3> QED
      BY <3>5, <3>6
  <2>4. ASSUME Crash(p)
        PROVE  \E x : client' = [client EXCEPT ![p] = x] /\ x.op # "backup"
    BY <2>4, IdleHoldsNothing DEF Crash
  <2> QED
    BY <2>1, <2>2, <2>3, <2>4
<1> QED
  BY <1>1, <1>2, ReleaseStep DEF IInv

LEMMA StepImplementsLog ==
  ASSUME IInv, [Next]_vars
  PROVE  [Log!Next]_Log!vars
<1>1. CASE UNCHANGED vars
  BY <1>1, LogStutter DEF vars, tables
<1>2. ASSUME NEW p \in Clients,
             \/ \E c \in Contents, t \in Traces : PutObject(p, c, t)
             \/ \E m \in 1..MaxBackups : RestoreValidate(p, m)
             \/ \E c \in Contents : RestoreObject(p, c)
             \/ Crash(p)
      PROVE  Log!Next
  BY <1>2, QuietStep DEF Log!Next
<1>3. ASSUME NEW p \in Clients, PutReference(p) PROVE Log!Next
  BY <1>3, LearnStep DEF Log!Next
<1>4. ASSUME NEW p \in Clients, NEW k \in Commands, NEW r \in Requests,
             NEW answered \in BOOLEAN, Replay(p, k, r, answered)
      PROVE  Log!Next
  BY <1>4, TellStep DEF Log!Next
<1>5. ASSUME NEW p \in Clients, NEW k \in Commands, NEW r \in Requests,
             NEW answered \in BOOLEAN, NEW expected \in 0..Cardinality(Commands),
             NEW correction \in Commands \cup {None},
             Apply(p, k, r, expected, correction, answered)
      PROVE  Log!Next
  BY <1>5, RecordStep DEF Log!Next
<1>6. ASSUME NEW p \in Clients, BackupSnapshot(p) PROVE Log!Next
  BY <1>6, CaptureStep DEF Log!Next
<1>7. ASSUME NEW p \in Clients, NEW c \in Contents, BackupVerify(p, c)
      PROVE  [Log!Next]_Log!vars
  BY <1>7, VerifyKeepsPoint DEF Log!Next
<1>8. ASSUME NEW p \in Clients, BackupFinish(p) PROVE Log!Next
  BY <1>8, SaveStep DEF Log!Next
<1>9. ASSUME NEW p \in Clients, RestoreCommit(p) PROVE Log!Next
  BY <1>9, GoBackStep DEF Log!Next
<1>10. ASSUME NEW p \in Clients, NEW cleared \in BOOLEAN, ResetForTest(p, cleared)
       PROVE  Log!Next
  BY <1>10, WipeStep DEF Log!Next
<1>11. ASSUME NEW c \in Contents,
              \/ \E lost \in BOOLEAN : DamageObject(c, lost)
              \/ \E m \in 1..MaxBackups : DamageBackup(m, c)
       PROVE  UNCHANGED Log!vars
  BY <1>11, LogStutter DEF DamageObject, DamageBackup, tables
<1> QED
  BY <1>1, <1>2, <1>3, <1>4, <1>5, <1>6, <1>7, <1>8, <1>9, <1>10, <1>11 DEF Next

\* The store is one append-only log: of the steps that its calls take, each appends
\* one lawful transition, learns one evidence, takes or saves one point, goes back
\* to a saved point as a whole, or shows nothing, whichever clients die.
THEOREM LogImplemented == Spec => ImplementsLog
<1>1. Init => Log!Init
  BY LogInit
<1>2. IInv /\ [Next]_vars => [Log!Next]_Log!vars
  BY StepImplementsLog
<1> QED
  BY <1>1, <1>2, Invariance, PTL DEF Spec, ImplementsLog, Log!Spec
=============================================================================
