--------------------------- MODULE EvidenceRegister ---------------------------
(***************************************************************************)
(* What the admission of evidence promises: a command of a producer is     *)
(* bound once, to one content, and a producer has no more commands than    *)
(* its quota; a caller holds a reference only to what is admitted, and it  *)
(* stays; a governed command is committed once, by the owner of its state, *)
(* on a content that one of the owner's own commands is bound to.          *)
(***************************************************************************)
EXTENDS Naturals, FiniteSets

CONSTANTS Callers, Requests, Owners, Quota

VARIABLES
  bound,     \* <<producer, command>> -> content
  admitted,  \* the commands whose content is there for good
  holds,     \* the request that each caller has a reference for, if any
  committed  \* the governed commands

vars == <<bound, admitted, holds, committed>>

Key(r) == <<r.principal, r.command>>

Init ==
  /\ bound = <<>> /\ admitted = {} /\ committed = {}
  /\ holds = [c \in Callers |-> {}]

Bind(r) ==
  /\ Key(r) \notin DOMAIN bound
  /\ Cardinality({k \in DOMAIN bound : k[1] = r.principal}) < Quota
  /\ bound' = [k \in DOMAIN bound \cup {Key(r)} |-> IF k = Key(r) THEN r.envelope ELSE bound[k]]
  /\ UNCHANGED <<admitted, holds, committed>>

Admit(r) ==
  /\ Key(r) \in DOMAIN bound /\ bound[Key(r)] = r.envelope
  /\ admitted' = admitted \cup {Key(r)}
  /\ UNCHANGED <<bound, holds, committed>>

Hand(c, r) ==
  /\ Key(r) \in admitted /\ bound[Key(r)] = r.envelope
  /\ holds' = [holds EXCEPT ![c] = {r}]
  /\ UNCHANGED <<bound, admitted, committed>>

Forget(c) ==
  /\ holds' = [holds EXCEPT ![c] = {}]
  /\ UNCHANGED <<bound, admitted, committed>>

Commit(r) ==
  /\ Owners[r.state] = r.principal /\ r.envelope.disposition = r.state
  /\ \E k \in DOMAIN bound : k[1] = r.principal /\ bound[k] = r.envelope
  /\ \A e \in committed : e.command # r.command
  /\ committed' = committed \cup {r}
  /\ UNCHANGED <<bound, admitted, holds>>

Next ==
  \/ \E c \in Callers : Forget(c) \/ \E r \in Requests : Hand(c, r)
  \/ \E r \in Requests : Bind(r) \/ Admit(r) \/ Commit(r)

Spec == Init /\ [][Next]_vars

=============================================================================
