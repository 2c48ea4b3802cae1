----------------------------- MODULE SlabAllowance -----------------------------
(***************************************************************************)
(* What the storage check promises about a user's pins, whatever the quota *)
(* service counts and whenever it counts it: a request is let through only *)
(* if there is room for its pin beside the pins there are and those of the *)
(* requests let through before it, and only such a request pins.  Each     *)
(* unpinned event without an unpin forgives the user one slab.             *)
(***************************************************************************)
EXTENDS Naturals, FiniteSets

CONSTANTS Requests, Slabs, Limit

VARIABLES
  pinned,   \* the slabs the user has pinned
  granted,  \* the requests that may still pin one
  forgiven  \* slabs given back that were not unpinned

vars == <<pinned, granted, forgiven>>

Init == pinned = {} /\ granted = {} /\ forgiven = 0

Grant(r) ==
  /\ r \notin granted
  /\ Cardinality(pinned) + Cardinality(granted) < Limit + forgiven
  /\ granted' = granted \cup {r}
  /\ UNCHANGED <<pinned, forgiven>>

Pin(r, s) ==
  /\ r \in granted /\ s \notin pinned
  /\ pinned' = pinned \cup {s}
  /\ granted' = granted \ {r}
  /\ UNCHANGED forgiven

Withdraw ==
  /\ granted' \subseteq granted
  /\ UNCHANGED <<pinned, forgiven>>

Unpin(s) ==
  /\ pinned' = pinned \ {s}
  /\ UNCHANGED <<granted, forgiven>>

Forgive ==
  /\ forgiven' = forgiven + 1
  /\ UNCHANGED <<pinned, granted>>

Next ==
  \/ \E r \in Requests : Grant(r) \/ \E s \in Slabs : Pin(r, s)
  \/ Withdraw
  \/ \E s \in Slabs : Unpin(s)
  \/ Forgive

Spec == Init /\ [][Next]_vars
=============================================================================
