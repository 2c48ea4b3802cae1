------------------------------ MODULE Reservations ------------------------------
(***************************************************************************)
(* One user's quota: the checks that reserve what they let through         *)
(* (CheckWithReservation, src/internal/quota/quota.go), and who consumes   *)
(* or releases the reservation afterwards:                                 *)
(*   - pinAndRecord, for every slab that is pinned (Pinners); the pinned   *)
(*     event carries the reservation to the quota service, which turns it  *)
(*     into usage when it handles the event;                               *)
(*   - ConnectQuotaCheck, for every view of the connect page (Pages): it   *)
(*     reserves uploads and downloads only to see whether it could.        *)
(* What is pinned is given back by unpins, and by prunes (Prunes), which   *)
(* also give back what they did not delete.                                *)
(* Everything is counted in units: a slab; what one more app may upload or *)
(* download.  Objects have no size, and are neither checked nor charged.   *)
(* The quota service itself is the portal's, outside of this repository.   *)
(***************************************************************************)
EXTENDS Integers, FiniteSets

CONSTANTS
  Pinners, Pages,  \* requests of each kind that may overlap
  Prunes,          \* prunes that may overlap
  Slabs,
  None, Gone,      \* no slab; a pin that was deleted since it was listed
  Limit,           \* what the plan allows, by kind
  MaxTraffic,      \* bound: uploads and downloads recorded
  MaxSurplus,      \* bound: unpinned events for pins that were not deleted
  MaxFaults        \* bound: failed calls and restarts

Procs == Pinners \cup Pages
Kinds == {"storage", "upload", "download"}

ASSUME ReservationsAssumption ==
  /\ Pinners \cap Pages = {}
  /\ None \notin Slabs /\ Gone \notin Slabs \cup {None}
  /\ Limit \in [Kinds -> Nat]
  /\ MaxTraffic \in Nat /\ MaxSurplus \in Nat /\ MaxFaults \in Nat

VARIABLES
  used, reserved,  \* quota service: what is charged, and what is held back
  owed, refunds,   \* pinned and unpinned events it has not handled yet
  pins,            \* the portal's pins of the user: slabs
  pc,
  slab,            \* the slab a request pins
  tickets,         \* the reservations a request holds: result, uploadResult, downloadResult
  victim,          \* the pin a prune has listed and not come to yet
  orphaned,        \* history: reservations nobody will consume or release
  surplus,         \* history: unpinned events for pins that were not deleted
  faults

events == <<owed, refunds>>
pruning == <<victim, surplus>>
vars == <<used, reserved, events, pins, pc, slab, tickets, pruning, orphaned, faults>>

Steps == {"idle", "proxy", "check", "upload", "pin", "download", "answer"}

TypeOK ==
  /\ used \in [Kinds -> Nat]
  /\ reserved \in [Kinds -> Nat]
  /\ owed \in Nat /\ refunds \in Nat
  /\ pins \subseteq Slabs
  /\ pc \in [Procs -> Steps]
  /\ slab \in [Procs -> Slabs \cup {None}]
  /\ tickets \in [Procs -> SUBSET Kinds]
  /\ victim \in [Prunes -> Slabs \cup {None, Gone}]
  /\ orphaned \in [Kinds -> Nat]
  /\ surplus \in 0 .. MaxSurplus
  /\ faults \in 0 .. MaxFaults

Init ==
  /\ used = [k \in Kinds |-> 0]
  /\ reserved = [k \in Kinds |-> 0]
  /\ owed = 0 /\ refunds = 0
  /\ pins = {}
  /\ pc = [p \in Procs |-> "idle"]
  /\ slab = [p \in Procs |-> None]
  /\ tickets = [p \in Procs |-> {}]
  /\ victim = [q \in Prunes |-> None]
  /\ orphaned = [k \in Kinds |-> 0]
  /\ surplus = 0
  /\ faults = 0

Goto(p, step) == pc' = [pc EXCEPT ![p] = step]

Fault ==
  /\ faults < MaxFaults
  /\ faults' = faults + 1

-----------------------------------------------------------------------------
(* The quota service allows one unit more.                                 *)
Fits(k) == used[k] + reserved[k] + 1 <= Limit[k]

(* Mutant: the check does not ask for a reservation.                       *)
CheckOnly(p, k) ==
  /\ Fits(k)
  /\ UNCHANGED <<reserved, tickets>>

(* CheckWithReservation, WithCreateReservation: what is allowed is also    *)
(* reserved, in the same call.                                             *)
Reserve(p, k) ==
  /\ Fits(k)
  /\ reserved' = [reserved EXCEPT ![k] = @ + 1]
  /\ tickets' = [tickets EXCEPT ![p] = @ \cup {k}]

(* ReleaseReservations, of all the request holds.                          *)
Release(p) ==
  /\ reserved' = [k \in Kinds |-> IF k \in tickets[p] THEN reserved[k] - 1 ELSE reserved[k]]
  /\ tickets' = [tickets EXCEPT ![p] = {}]

(* The request returns and releases what it reserved.                      *)
GiveUp(p) ==
  /\ Release(p)
  /\ Goto(p, "idle")
  /\ slab' = [slab EXCEPT ![p] = None]

-----------------------------------------------------------------------------
(* pinAndRecord: a slab that does not fit is answered 402 (nothing         *)
(* happens), and so is one whose check fails.                              *)
BeginPin(p) ==
  /\ pc[p] = "idle"
  /\ Reserve(p, "storage")
  /\ \E s \in Slabs : slab' = [slab EXCEPT ![p] = s]
  /\ Goto(p, "proxy")
  /\ UNCHANGED <<used, events, pins, orphaned, faults, pruning>>

(* indexd pins the slab.                                                   *)
Proxy(p) ==
  /\ pc[p] = "proxy"
  /\ Goto(p, "check")
  /\ UNCHANGED <<used, reserved, events, pins, slab, tickets, orphaned, faults, pruning>>

(* indexd refuses, or its answer cannot be parsed or registered.           *)
ProxyFails(p) ==
  /\ pc[p] = "proxy"
  /\ GiveUp(p)
  /\ UNCHANGED <<used, events, pins, orphaned, faults, pruning>>

(* Mutant: the reservation is not released when the slab is pinned before. *)
AlreadyPinnedKeeps(p) ==
  /\ pc[p] = "check"
  /\ IF slab[p] \in pins
       THEN /\ tickets' = [tickets EXCEPT ![p] = {}]
            /\ Goto(p, "idle")
            /\ slab' = [slab EXCEPT ![p] = None]
       ELSE Goto(p, "upload") /\ UNCHANGED <<slab, tickets>>
  /\ UNCHANGED <<used, reserved, events, pins, orphaned, faults, pruning>>

AlreadyPinned(p) ==
  /\ pc[p] = "check"
  /\ IF slab[p] \in pins
       THEN GiveUp(p)
       ELSE Goto(p, "upload") /\ UNCHANGED <<reserved, slab, tickets>>
  /\ UNCHANGED <<used, events, pins, orphaned, faults, pruning>>

(* UploadPinnedByUser fails: taken for a no.                               *)
CheckFails(p) ==
  /\ pc[p] = "check"
  /\ Fault
  /\ Goto(p, "upload")
  /\ UNCHANGED <<used, reserved, events, pins, slab, tickets, orphaned, pruning>>

SaveUpload(p) ==
  /\ pc[p] = "upload"
  /\ Goto(p, "pin")
  /\ UNCHANGED <<used, reserved, events, pins, slab, tickets, orphaned, faults, pruning>>

SaveUploadFails(p) ==
  /\ pc[p] = "upload"
  /\ Fault
  /\ GiveUp(p)
  /\ UNCHANGED <<used, events, pins, orphaned, pruning>>

(* CreatePin fails: the error is logged.  No event takes the reservation   *)
(* along and nothing releases it.                                          *)
Orphan(p) ==
  /\ orphaned' = [k \in Kinds |-> IF k \in tickets[p] THEN orphaned[k] + 1 ELSE orphaned[k]]
  /\ UNCHANGED <<reserved, pins, owed>>

(* Mutant: the reservation is released although the event takes it along.  *)
RecordReleasing(p) ==
  /\ pins' = pins \cup {slab[p]}
  /\ owed' = owed + 1
  /\ reserved' = [reserved EXCEPT !["storage"] = @ - 1]
  /\ UNCHANGED orphaned

(* The pin is made, and its event takes the reservation along.             *)
Record(p) ==
  /\ pins' = pins \cup {slab[p]}
  /\ owed' = owed + 1
  /\ UNCHANGED <<reserved, orphaned>>

(* A pin that was made since the check is refused.                         *)
CreatePin(p) ==
  /\ pc[p] = "pin"
  /\ IF slab[p] \in pins THEN Orphan(p) ELSE Record(p)
  /\ tickets' = [tickets EXCEPT ![p] = {}]
  /\ Goto(p, "idle")
  /\ slab' = [slab EXCEPT ![p] = None]
  /\ UNCHANGED <<used, refunds, faults, pruning>>

CreatePinFails(p) ==
  /\ pc[p] = "pin"
  /\ Fault
  /\ Orphan(p)
  /\ tickets' = [tickets EXCEPT ![p] = {}]
  /\ Goto(p, "idle")
  /\ slab' = [slab EXCEPT ![p] = None]
  /\ UNCHANGED <<used, refunds, pruning>>

(* A pin is deleted, by the prunes in done or by an unpin; a prune that    *)
(* has listed it too will find nothing.                                    *)
DeletePin(s, done) ==
  /\ s \in pins
  /\ pins' = pins \ {s}
  /\ victim' = [q \in Prunes |-> IF q \in done THEN None
                                 ELSE IF victim[q] = s THEN Gone ELSE victim[q]]

(* deletePinAndUpload: when the deletion of the pin fails nothing happens, *)
(* when that of the upload fails there is no event.                        *)
Unpin(s) ==
  /\ DeletePin(s, {})
  /\ \/ refunds' = refunds + 1 /\ UNCHANGED faults
     \/ Fault /\ UNCHANGED refunds
  /\ UNCHANGED <<used, reserved, owed, pc, slab, tickets, orphaned, surplus>>

(* PruneSlabs lists the pins of a slab that no account has a row of.       *)
ListPin(q) ==
  /\ victim[q] = None
  /\ \E s \in pins : victim' = [victim EXCEPT ![q] = s]
  /\ UNCHANGED <<used, reserved, events, pins, pc, slab, tickets, surplus, orphaned, faults>>

(* ... and deletes them.  An error is logged, also that there is no such   *)
(* pin any more, and the unpinned event follows all the same.              *)
PrunePin(q) ==
  /\ DeletePin(victim[q], {q})
  /\ refunds' = refunds + 1
  /\ UNCHANGED <<used, reserved, owed, pc, slab, tickets, surplus, orphaned, faults>>

PruneInVain(q) ==
  /\ \/ victim[q] = Gone /\ UNCHANGED faults
     \/ victim[q] \in pins /\ Fault
  /\ victim' = [victim EXCEPT ![q] = None]
  /\ surplus < MaxSurplus /\ surplus' = surplus + 1
  /\ refunds' = refunds + 1
  /\ UNCHANGED <<used, reserved, owed, pins, pc, slab, tickets, orphaned>>

(* The quota service handles a pinned event: the reservation named in it   *)
(* becomes usage.                                                          *)
Charge ==
  /\ owed > 0
  /\ owed' = owed - 1
  /\ used' = [used EXCEPT !["storage"] = @ + 1]
  /\ reserved' = [reserved EXCEPT !["storage"] = @ - 1]
  /\ UNCHANGED <<refunds, pins, pc, slab, tickets, orphaned, faults, pruning>>

(* ... and an unpinned one; usage does not go below zero.                  *)
Refund ==
  /\ refunds > 0
  /\ refunds' = refunds - 1
  /\ used' = [used EXCEPT !["storage"] = IF @ > 0 THEN @ - 1 ELSE 0]
  /\ UNCHANGED <<reserved, owed, pins, pc, slab, tickets, orphaned, faults, pruning>>

(* SyncFunding records uploads and downloads, which no check limits.       *)
RecordTraffic(k) ==
  /\ used[k] < MaxTraffic
  /\ used' = [used EXCEPT ![k] = @ + 1]
  /\ UNCHANGED <<reserved, events, pins, pc, slab, tickets, orphaned, faults, pruning>>

-----------------------------------------------------------------------------
(* ConnectQuotaCheck.                                                      *)
ReserveUpload(p) ==
  /\ pc[p] = "idle"
  /\ Reserve(p, "upload")
  /\ Goto(p, "download")
  /\ UNCHANGED <<used, events, pins, slab, orphaned, faults, pruning>>

(* The upload check fails: logged, and the page goes on without.           *)
UploadCheckFails(p) ==
  /\ pc[p] = "idle"
  /\ Fault
  /\ Goto(p, "download")
  /\ UNCHANGED <<used, reserved, events, pins, slab, tickets, orphaned, pruning>>

ReserveDownload(p) ==
  /\ pc[p] = "download"
  /\ Reserve(p, "download")
  /\ Goto(p, "answer")
  /\ UNCHANGED <<used, events, pins, slab, orphaned, faults, pruning>>

(* No room for the downloads, or the check fails: the page says no, and    *)
(* what was reserved for the uploads is released.                          *)
RefuseDownload(p) ==
  /\ pc[p] = "download"
  /\ \/ ~Fits("download") /\ UNCHANGED faults
     \/ Fault
  /\ GiveUp(p)
  /\ UNCHANGED <<used, events, pins, orphaned, pruning>>

(* "Predictive pre-check only"                                             *)
Answer(p) ==
  /\ pc[p] = "answer"
  /\ GiveUp(p)
  /\ UNCHANGED <<used, events, pins, orphaned, faults, pruning>>

(* The process dies, and what its requests held is lost to everybody.      *)
HoldersOf(k) == {p \in Procs : k \in tickets[p]}
OwedOf(k) == IF k = "storage" THEN owed ELSE 0

Restart ==
  /\ Fault
  /\ orphaned' = [k \in Kinds |-> orphaned[k] + Cardinality(HoldersOf(k)) + OwedOf(k)]
  /\ owed' = 0 /\ refunds' = 0
  /\ pc' = [p \in Procs |-> "idle"]
  /\ slab' = [p \in Procs |-> None]
  /\ tickets' = [p \in Procs |-> {}]
  /\ victim' = [q \in Prunes |-> None]
  /\ UNCHANGED <<used, reserved, pins, surplus>>

PinStep(p) ==
  \/ BeginPin(p) \/ Proxy(p) \/ AlreadyPinned(p) \/ SaveUpload(p) \/ CreatePin(p)
  \/ ProxyFails(p) \/ CheckFails(p) \/ SaveUploadFails(p) \/ CreatePinFails(p)

PageStep(p) ==
  \/ ReserveUpload(p) \/ UploadCheckFails(p)
  \/ ReserveDownload(p) \/ RefuseDownload(p) \/ Answer(p)

PruneStep(q) == ListPin(q) \/ PrunePin(q) \/ PruneInVain(q)

Next ==
  \/ \E p \in Pinners : PinStep(p)
  \/ \E p \in Pages : PageStep(p)
  \/ \E s \in Slabs : Unpin(s)
  \/ \E q \in Prunes : PruneStep(q)
  \/ \E k \in {"upload", "download"} : RecordTraffic(k)
  \/ Charge \/ Refund \/ Restart

Spec == Init /\ [][Next]_vars

-----------------------------------------------------------------------------
(* The reservations at the quota service are those of running requests and *)
(* of pinned events on their way, and those whose CreatePin failed or that *)
(* a restart cut off: every other path of pinAndRecord and of              *)
(* ConnectQuotaCheck, however early it returns, releases what it reserved. *)
ReservationsAccounted ==
  \A k \in Kinds :
    reserved[k] = Cardinality(HoldersOf(k)) + OwedOf(k) + orphaned[k]

(* However many pins overlap, and however late their events are handled,   *)
(* the only way past the plan is a surplus unpinned event of a prune: a    *)
(* user has at most one slab more than it allows for each of these.        *)
PinsWithinLimit == Cardinality(pins) <= Limit["storage"] + surplus

(* The storage check of pinAndRecord is the allowance's: the quota         *)
(* service's numbers, which run behind the pins, never let a pin through   *)
(* that the pins themselves would not, surplus unpinned events apart.      *)
Allowance ==
  INSTANCE SlabAllowance WITH
    Requests <- Pinners, Limit <- Limit["storage"],
    pinned <- pins, granted <- HoldersOf("storage"), forgiven <- surplus

ImplementsAllowance == Allowance!Spec

(* Scenarios.  "Predictive pre-check only": a view of the connect page     *)
(* takes no quota from anybody, so that one is refused for want of         *)
(* downloads only when that many were really used.                         *)
RefusedForUse ==
  [][\A p \in Pages : RefuseDownload(p) /\ faults' = faults
                       => used["download"] + 1 > Limit["download"]]_vars

(* What the plan allows, without the surplus events counted: a prune's     *)
(* unpinned event for a pin it did not delete makes room that is not there.*)
PinsWithinPlan == Cardinality(pins) <= Limit["storage"]

(* "Release multiple quota reservations safely" (ReleaseReservations):     *)
(* without any failure no reservation is left behind.                      *)
NothingOrphaned == faults = 0 => \A k \in Kinds : orphaned[k] = 0
=============================================================================
