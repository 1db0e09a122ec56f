---------------------------- MODULE AppendOnlyLog ----------------------------
(***************************************************************************)
(* What the state store promises: one log of transitions, each the next    *)
(* lawful one of its entity, each on evidence that is known.  The log      *)
(* grows by one transition at a time, or goes back, whole, to a point at   *)
(* which it was captured.  Who was told of a transition can rely on it     *)
(* until then.                                                             *)
(***************************************************************************)
EXTENDS Naturals

CONSTANTS Clients, Commands, Entities, EntityKind, Requested, INITIAL, LEGAL, Contents,
          Versions, MaxBackups, None

VARIABLES
  log,       \* the transitions
  known,     \* the evidence
  told,      \* the transitions somebody was told of
  captured,  \* the point that each client is saving, if any
  saved      \* the points that were saved: marker -> point

vars == <<log, known, told, captured, saved>>

Transition ==
  [id : Commands, entity : Entities, kind : EntityKind, version : Versions,
   state : Requested, evidence : Contents, correction : Commands \cup {None}]

Init ==
  /\ log = {} /\ known = {} /\ told = {}
  /\ captured = [p \in Clients |-> {}]
  /\ saved = <<>>

Latest(t) == \A u \in log : u.entity = t.entity => u.version <= t.version

\* t is the first of its entity, or follows the latest one lawfully.
Continues(t) ==
  IF \E u \in log : u.entity = t.entity
  THEN \E u \in log : /\ u.entity = t.entity /\ Latest(u)
                      /\ t.kind = u.kind /\ t.version = u.version + 1
                      /\ u.state \in DOMAIN LEGAL[t.kind] /\ t.state \in LEGAL[t.kind][u.state]
  ELSE t.version = 1 /\ t.state = INITIAL[t.kind]

Learn(c) ==
  /\ known' = known \cup {c}
  /\ UNCHANGED <<log, told, captured, saved>>

Record(t) ==
  /\ t.evidence \in known
  /\ \A u \in log : u.id # t.id
  /\ Continues(t)
  /\ t.correction = None \/ \E u \in log : u.id = t.correction
  /\ log' = log \cup {t}
  /\ told' \in {told, told \cup {t}}
  /\ UNCHANGED <<known, captured, saved>>

Tell(t) ==
  /\ told' = told \cup {t}
  /\ UNCHANGED <<log, known, captured, saved>>

Capture(p) ==
  /\ captured[p] = {}
  /\ captured' = [captured EXCEPT ![p] = {[log |-> log, known |-> known]}]
  /\ UNCHANGED <<log, known, told, saved>>

Release(p) ==
  /\ captured' = [captured EXCEPT ![p] = {}]
  /\ UNCHANGED <<log, known, told, saved>>

Save(p, m) ==
  /\ m \notin DOMAIN saved
  /\ \E point \in captured[p] :
       saved' = [n \in DOMAIN saved \cup {m} |-> IF n = m THEN point ELSE saved[n]]
  /\ captured' = [captured EXCEPT ![p] = {}]
  /\ UNCHANGED <<log, known, told>>

GoBack(point) ==
  /\ log' = point.log /\ known' = point.known
  /\ told' = {}
  /\ UNCHANGED <<captured, saved>>

Wipe == GoBack([log |-> {}, known |-> {}])

Next ==
  \/ \E c \in Contents : Learn(c)
  \/ \E t \in log : Tell(t)
  \/ \E p \in Clients : \/ Capture(p) \/ Release(p)
                        \/ \E m \in 1..MaxBackups : Save(p, m)
  \/ \E m \in DOMAIN saved : GoBack(saved[m])
  \/ Wipe
  \/ \E t \in Transition : Record(t)

Spec == Init /\ [][Next]_vars

=============================================================================
