---------------------------- MODULE RunningSystem ----------------------------
(***************************************************************************)
(* What governed change promises of the system that runs.  It is changed   *)
(* only by who has seen it as it is.  Only the change that was the last    *)
(* one, and was not confirmed, can be undone, once, and then the system is *)
(* what it was before.  Grants are offered for the running generation, one *)
(* offer at a time; the name of an offer keeps its meaning, and no offer   *)
(* can be mistaken for one that was made earlier, even of the same name.   *)
(***************************************************************************)
EXTENDS Naturals

CONSTANTS Candidate, Generation, BootGeneration, CapabilitySet, Grants, MaxVersion, Nothing

VARIABLES
  running,  \* the generation
  before,   \* the generation an undo brings back
  last,     \* whose change can be undone
  changes,  \* how often the system has changed; it counts its first start
  seen,     \* how often it had when the candidate looked at it
  meaning,  \* what the name of each offer stands for
  offer,    \* the offer that is made: its name and edition
  past      \* the offers that cannot be made any more

vars == <<running, before, last, changes, seen, meaning, offer, past>>

Offer == CapabilitySet \X (1..MaxVersion)

TypeOK ==
  /\ running \in Generation /\ before \in Generation \cup {Nothing}
  /\ last \in Candidate \cup {Nothing} /\ changes \in Nat
  /\ seen \in [Candidate -> Nat]
  /\ meaning \in [CapabilitySet -> (Generation \X Grants) \cup {Nothing}]
  /\ offer \subseteq Offer /\ past \subseteq Offer

Init ==
  /\ running = BootGeneration /\ before = Nothing /\ last = Nothing
  /\ changes = 1 /\ seen = [c \in Candidate |-> 0]
  /\ meaning = [s \in CapabilitySet |-> Nothing]
  /\ offer = {} /\ past = {}

offers == <<meaning, offer, past>>

Look(c) ==
  /\ seen[c] = 0
  /\ seen' = [seen EXCEPT ![c] = changes]
  /\ UNCHANGED <<running, before, last, changes, offers>>

Change(c, generation) ==
  /\ seen[c] = changes
  /\ running' = generation /\ before' = running /\ last' = c
  /\ changes' = changes + 1
  /\ UNCHANGED <<seen, offers>>

Undo ==
  /\ last # Nothing
  /\ running' = before /\ before' = Nothing /\ last' = Nothing
  /\ changes' = changes + 1
  /\ UNCHANGED <<seen, offers>>

Confirm ==
  /\ last # Nothing
  /\ before' = Nothing /\ last' = Nothing
  /\ UNCHANGED <<running, changes, seen, offers>>

Make(s, grants) ==
  /\ meaning[s] \in {Nothing, <<running, grants>>}
  /\ meaning' = [meaning EXCEPT ![s] = <<running, grants>>]
  /\ \E made \in {s} \X (1..MaxVersion) : made \notin past /\ offer' = {made}
  /\ past \cup offer' \subseteq past' /\ past' \subseteq Offer
  /\ UNCHANGED <<running, before, last, changes, seen>>

Next ==
  \/ \E c \in Candidate : Look(c) \/ \E generation \in Generation : Change(c, generation)
  \/ Undo \/ Confirm
  \/ \E s \in CapabilitySet, grants \in Grants : Make(s, grants)

Spec == Init /\ [][Next]_vars

=============================================================================
