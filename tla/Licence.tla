------------------------------- MODULE Licence -------------------------------
(***************************************************************************)
(* What the authority promises: an effect is licensed once and for good,   *)
(* and a request is charged once, under a grant whose chain stands and in  *)
(* which there is room; a grant that is revoked stays revoked and a state  *)
(* version that was left never comes back; what is answered AUTHORIZED is  *)
(* licensed, and by an authority that stands when it is answered.          *)
(***************************************************************************)
EXTENDS Naturals, FiniteSets

CONSTANTS Request, Grant, Candidates, Chain, Quota, Version, InitVersion

VARIABLES
  licence,   \* request -> the grant and the version it was licensed under
  charged,   \* request -> the chain it was charged to
  used,      \* what licences and charges have used of each grant
  revoked,   \* revoked grants
  inForce,   \* the state version in force
  seen,      \* the state versions that were ever in force
  told       \* the effect that the last answer called AUTHORIZED, if any

account == <<licence, charged, used>>
authority == <<revoked, inForce, seen>>
vars == <<account, authority, told>>

Stands(g) == Chain[g] \cap revoked = {}

Holders(h) == {r \in DOMAIN licence : h \in Chain[licence[r].grant]}

Use(g) == used' = [h \in Grant |-> IF h \in Chain[g] THEN used[h] + 1 ELSE used[h]]

Init ==
  /\ licence = <<>> /\ charged = [r \in Request |-> {}] /\ used = [g \in Grant |-> 0]
  /\ revoked = {} /\ inForce = InitVersion /\ seen = {InitVersion}
  /\ told = {}

\* effects are held to the quota among themselves
Issue(r, g) ==
  /\ r \notin DOMAIN licence /\ g \in Candidates[r] /\ Stands(g)
  /\ \A h \in Chain[g] : Cardinality(Holders(h)) < Quota[h]
  /\ licence' = [x \in DOMAIN licence \cup {r} |->
                   IF x = r THEN [grant |-> g, version |-> inForce] ELSE licence[x]]
  /\ Use(g)
  /\ told' = {r}
  /\ UNCHANGED <<charged, authority>>

\* charges, to what is left of it
Charge(r, g) ==
  /\ charged[r] = {} /\ g \in Candidates[r] /\ Stands(g)
  /\ \A h \in Chain[g] : used[h] < Quota[h]
  /\ charged' = [charged EXCEPT ![r] = Chain[g]]
  /\ Use(g)
  /\ told' = {}
  /\ UNCHANGED <<licence, authority>>

Confirm(r) ==
  /\ r \in DOMAIN licence
  /\ Stands(licence[r].grant) /\ licence[r].version = inForce
  /\ told' = {r}
  /\ UNCHANGED <<account, authority>>

Silence == told' = {} /\ UNCHANGED <<account, authority>>

Revoke(g) == revoked' = revoked \cup {g} /\ UNCHANGED <<account, inForce, seen, told>>

Succeed(v) ==
  /\ v \notin seen
  /\ inForce' = v /\ seen' = seen \cup {v}
  /\ UNCHANGED <<account, revoked, told>>

Next ==
  \/ Silence
  \/ \E r \in Request :
       Confirm(r) \/ \E g \in Grant : Issue(r, g) \/ Charge(r, g)
  \/ \E g \in Grant : Revoke(g)
  \/ \E v \in Version : Succeed(v)

Spec == Init /\ [][Next]_vars

=============================================================================
