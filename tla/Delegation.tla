------------------------------- MODULE Delegation -------------------------------
(***************************************************************************)
(* What a user who connects an app may rely on: a key acts for nobody but  *)
(* a user who let it, by a registration that has not been used yet; while  *)
(* it acts for one user it is not handed to another; and it can be taken   *)
(* back.                                                                   *)
(***************************************************************************)
CONSTANTS Users, Requests, AppKeys, KeyOf, None

VARIABLES
  granter,   \* per request, who approved the registration made for it
  open,      \* registrations that have not been used
  acts       \* per key, whom it acts for

vars == <<granter, open, acts>>

Init ==
  /\ granter = [r \in Requests |-> None]
  /\ open = {}
  /\ acts = [k \in AppKeys |-> None]

Grant(r) ==
  /\ granter[r] = None
  /\ \E u \in Users : granter' = [granter EXCEPT ![r] = u]
  /\ open' \in {open, open \cup {r}}
  /\ UNCHANGED acts

Link(r) ==
  /\ r \in open
  /\ acts[KeyOf[r]] = None
  /\ acts' = [acts EXCEPT ![KeyOf[r]] = granter[r]]
  /\ open' = open \ {r}
  /\ UNCHANGED granter

Lapse(r) ==
  /\ r \in open
  /\ open' = open \ {r}
  /\ UNCHANGED <<granter, acts>>

Unlink(k) ==
  /\ acts' = [acts EXCEPT ![k] = None]
  /\ UNCHANGED <<granter, open>>

Next ==
  \/ \E r \in Requests : Grant(r) \/ Link(r) \/ Lapse(r)
  \/ \E k \in AppKeys : Unlink(k)

Spec == Init /\ [][Next]_vars
=============================================================================
