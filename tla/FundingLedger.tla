----------------------------- MODULE FundingLedger -----------------------------
(***************************************************************************)
(* What the funding sync promises the quota service, whatever rows, pages  *)
(* and retries it is made of: indexd's events are billed once per meter,   *)
(* each user's in the order of the feed, never behind the published        *)
(* watermark, and the watermark only moves forward, by at most one page.   *)
(* A stretch of one user's events can be opened again, and is then billed  *)
(* once more at most.                                                      *)
(***************************************************************************)
EXTENDS Naturals, Sequences

CONSTANTS Users, Keys, UserOf, Loads, PageSize, MaxEvents

VARIABLES
  feed,       \* the events published so far
  watermark,  \* events up to here are never looked at again
  billed,     \* how often each event was billed on each meter
  reopened    \* how often each event was opened again

vars == <<feed, watermark, billed, reopened>>

Meters == {"upload", "download"}
Ids == 1 .. MaxEvents
Event == [key : Keys, bytes : Loads]
Owner(e) == UserOf[feed[e].key]

Init ==
  /\ feed = <<>>
  /\ watermark = 0
  /\ billed = [e \in Ids |-> [m \in Meters |-> 0]]
  /\ reopened = [e \in Ids |-> 0]

Publish ==
  /\ \E ev \in Event : feed' = Append(feed, ev)
  /\ UNCHANGED <<watermark, billed, reopened>>

(* All of one user's events after one place of the feed up to another.     *)
Reopen ==
  /\ \E u \in Users, after, upto \in 0 .. Len(feed) :
       reopened' = [e \in Ids |->
         IF e \in 1 .. Len(feed) /\ Owner(e) = u /\ after < e /\ e <= upto
           THEN reopened[e] + 1
           ELSE reopened[e]]
  /\ UNCHANGED <<feed, watermark, billed>>

Open(e, m) == billed[e][m] <= reopened[e]

Bill(e, m) ==
  /\ watermark < e
  /\ m \in feed[e].bytes
  /\ Open(e, m)
  /\ \A f \in e + 1 .. Len(feed), n \in Meters : Owner(f) = Owner(e) => Open(f, n)
  /\ billed' = [billed EXCEPT ![e][m] = @ + 1]
  /\ UNCHANGED <<feed, watermark, reopened>>

Advance ==
  /\ watermark' \in watermark + 1 .. watermark + PageSize
  /\ watermark' <= Len(feed)
  /\ UNCHANGED <<feed, billed, reopened>>

Next ==
  \/ Publish
  \/ Reopen
  \/ \E e \in 1 .. Len(feed), m \in Meters : Bill(e, m)
  \/ Advance

Spec == Init /\ [][Next]_vars
=============================================================================
