--------------------------- MODULE ExternalEffect ---------------------------
(***************************************************************************)
(* What Habitat promises of an external effect, for each objective: it is  *)
(* recorded before it happens, it happens at most once, it is called a     *)
(* success only after it has happened and a failure only if it never will, *)
(* and the objective is satisfied only by a success.                       *)
(***************************************************************************)
EXTENDS Naturals

CONSTANT Objective

VARIABLES
  phase,      \* what is durably known of the effect
  happened,   \* how many times it has happened
  satisfied   \* whether its objective is satisfied

vars == <<phase, happened, satisfied>>

Phase == {"none", "reserved", "dispatched", "succeeded", "rejected"}

TypeOK ==
  /\ phase \in [Objective -> Phase]
  /\ happened \in [Objective -> 0..1]
  /\ satisfied \in [Objective -> BOOLEAN]

Init ==
  /\ phase = [o \in Objective |-> "none"]
  /\ happened = [o \in Objective |-> 0]
  /\ satisfied = [o \in Objective |-> FALSE]

Move(o, from, to) ==
  /\ phase[o] = from
  /\ phase' = [phase EXCEPT ![o] = to]
  /\ UNCHANGED <<happened, satisfied>>

Reserve(o) == Move(o, "none", "reserved")
Reject(o) == Move(o, "reserved", "rejected")
Dispatch(o) == Move(o, "reserved", "dispatched")

Happen(o) ==
  /\ phase[o] = "dispatched" /\ happened[o] = 0
  /\ happened' = [happened EXCEPT ![o] = 1]
  /\ UNCHANGED <<phase, satisfied>>

Confirm(o) == happened[o] = 1 /\ Move(o, "dispatched", "succeeded")

Satisfy(o) ==
  /\ phase[o] = "succeeded"
  /\ satisfied' = [satisfied EXCEPT ![o] = TRUE]
  /\ UNCHANGED <<phase, happened>>

Next ==
  \E o \in Objective :
    Reserve(o) \/ Reject(o) \/ Dispatch(o) \/ Happen(o) \/ Confirm(o) \/ Satisfy(o)

Spec == Init /\ [][Next]_vars

=============================================================================
