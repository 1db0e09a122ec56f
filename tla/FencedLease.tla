----------------------------- MODULE FencedLease -----------------------------
(***************************************************************************)
(* What the state service promises of the work on an objective: it is one  *)
(* agent's at a time, under one capability set and one fence, which grows  *)
(* with every gift; each command is committed once, by the agent that has  *)
(* the work at that moment, under the set that is in force at that moment. *)
(***************************************************************************)
EXTENDS Naturals

CONSTANTS Objective, Agent, AgentCommand, CapabilitySet, Nothing

VARIABLES
  fence,    \* how many times the work on an objective was given
  holder,   \* who has it
  under,    \* the set it was given under last
  inForce,  \* the set work may be given and done under
  ledger    \* the fence each command was committed under

vars == <<fence, holder, under, inForce, ledger>>

TypeOK ==
  /\ fence \in [Objective -> Nat]
  /\ holder \in [Objective -> Agent \cup {Nothing}]
  /\ under \in [Objective -> CapabilitySet \cup {Nothing}]
  /\ inForce \in CapabilitySet \cup {Nothing}
  /\ ledger \in [Objective \X AgentCommand -> Nat]

Init ==
  /\ fence = [o \in Objective |-> 0]
  /\ holder = [o \in Objective |-> Nothing]
  /\ under = [o \in Objective |-> Nothing]
  /\ inForce = Nothing
  /\ ledger = [entry \in Objective \X AgentCommand |-> 0]

Give(o, a) ==
  /\ holder[o] = Nothing /\ inForce # Nothing
  /\ fence' = [fence EXCEPT ![o] = @ + 1]
  /\ holder' = [holder EXCEPT ![o] = a]
  /\ under' = [under EXCEPT ![o] = inForce]
  /\ UNCHANGED <<inForce, ledger>>

\* Who loses the work cannot commit any more, and keeps nothing of it.
TakeBack(lost) ==
  /\ holder' = [o \in Objective |-> IF o \in lost THEN Nothing ELSE holder[o]]
  /\ UNCHANGED <<fence, under, inForce, ledger>>

PutInForce(s) ==
  /\ inForce' = s
  /\ UNCHANGED <<fence, holder, under, ledger>>

Commit(o, k) ==
  /\ holder[o] # Nothing /\ under[o] = inForce
  /\ ledger[<<o, k>>] = 0
  /\ ledger' = [ledger EXCEPT ![<<o, k>>] = fence[o]]
  /\ UNCHANGED <<fence, holder, under, inForce>>

Next ==
  \/ \E o \in Objective : \/ \E a \in Agent : Give(o, a)
                          \/ \E k \in AgentCommand : Commit(o, k)
  \/ \E lost \in SUBSET Objective : TakeBack(lost)
  \/ \E s \in CapabilitySet \cup {Nothing} : PutInForce(s)

Spec == Init /\ [][Next]_vars

=============================================================================
