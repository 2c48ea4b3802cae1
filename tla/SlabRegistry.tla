----------------------------- MODULE SlabRegistry -----------------------------
(***************************************************************************)
(* Pinned slabs and objects: the sia_slabs, sia_objects and                *)
(* sia_object_slabs rows of every app account                              *)
(* (src/internal/service/sia/sia.go), the portal's pins and uploads, and   *)
(* the requests that change them (src/internal/api/indexd.go): pin and     *)
(* unpin a slab or an object, and prune.  Every request is a chain of      *)
(* transactions and calls; requests interleave between them, any of them   *)
(* may fail, and a request may be cut off after any of them.               *)
(*                                                                         *)
(* Rows are soft-deleted.  The unique keys of the tables cover the deleted *)
(* rows, so that a row once deleted ("gone") is in the way of every later  *)
(* insert of the same key.                                                 *)
(***************************************************************************)
EXTENDS Integers, FiniteSets

CONSTANTS
  Users,         \* portal users
  AppAccounts,   \* rows of sia_app_accounts
  UserOf,        \* the user behind an app account
  Slabs, Objects,
  None,          \* "no hash"
  Requests,      \* requests that may be in progress at once
  Ops,           \* the requests the clients make
  MaxRequests,   \* bound: requests begun
  MaxFaults      \* bound: failed calls and requests cut off

Hashes == Slabs \cup Objects
AllOps == {"pinSlab", "pinObject", "unpinSlab", "unpinObject", "prune",
           "disconnect", "pruneAccount"}

ASSUME SlabRegistryAssumption ==
  /\ AppAccounts # {} /\ UserOf \in [AppAccounts -> Users]
  /\ Slabs \cap Objects = {} /\ None \notin Hashes
  /\ Ops \subseteq AllOps
  /\ MaxRequests \in Nat /\ MaxFaults \in Nat

VARIABLES
  slabRow,  \* sia_slabs
  objRow,   \* sia_objects
  refs,     \* sia_object_slabs: the slabs joined to a live object
  pins,     \* the portal's pins, one per user and hash
  uploads,  \* the portal's uploads, one per hash
  usage,    \* storage events: pinned minus unpinned, by user and slab
  apps,     \* indexd: the app accounts not disconnected
  held,     \* indexd: the slabs every app account has pinned
  stored,   \* indexd: the slabs its objects are made of
  pc, req,  \* where every request is, and what it holds
  begun, faults,
  excused,  \* history: pins that no prune is bound to find, see below
  missed,   \* history: slab pins deleted without an event, by user and slab
  surplus   \* history: unpinned events of pins that were not deleted

db == <<slabRow, objRow, refs>>
charges == <<usage, missed, surplus>>
portal == <<pins, uploads, charges>>
indexd == <<apps, held, stored>>
vars == <<db, portal, indexd, pc, req, begun, faults, excused>>

RowState == {"none", "live", "gone"}
Steps == {"idle", "known", "proxy", "proxyOnly", "register", "check", "upload", "pin",
          "row", "readPin", "deletePin", "deleteUpload",
          "objects", "orphans", "loop", "inUse", "getPins", "deletePins"}

Request ==
  [op : AllOps, app : AppAccounts, hash : Hashes \cup {None}, slabs : SUBSET Slabs,
   victims : SUBSET Users, sharers : SUBSET AppAccounts]

TypeOK ==
  /\ slabRow \in [AppAccounts -> [Slabs -> RowState]]
  /\ objRow \in [AppAccounts -> [Objects -> RowState]]
  /\ refs \in [AppAccounts -> [Objects -> SUBSET Slabs]]
  /\ pins \subseteq Users \X Hashes
  /\ uploads \subseteq Hashes
  /\ usage \in [Users -> [Slabs -> Int]]
  /\ missed \in [Users -> [Slabs -> Nat]] /\ surplus \in [Users -> [Slabs -> Nat]]
  /\ apps \subseteq AppAccounts
  /\ held \in [AppAccounts -> SUBSET Slabs]
  /\ stored \in [AppAccounts -> [Objects -> SUBSET Slabs]]
  /\ pc \in [Requests -> Steps]
  /\ req \in [Requests -> Request]
  /\ begun \in 0 .. MaxRequests
  /\ faults \in 0 .. MaxFaults
  /\ excused \subseteq Users \X Slabs

Live(a, s) == slabRow[a][s] = "live"
(* A disconnected account's rows stay, and lead no prune anywhere.         *)
InUse(s) == \E a \in apps : Live(a, s)
LastUser(a, s) == a \in apps /\ Live(a, s) /\ \A b \in apps \ {a} : ~Live(b, s)
PinsOf(s) == {p \in pins : p[2] = s}
(* Mutant: the app account's ID where the user's belongs.                  *)
AppIsUser(r) == req[r].app

Me(r) == UserOf[req[r].app]
Mine(r) == <<Me(r), req[r].hash>>

(* A request at rest holds nothing.                                        *)
Blank(a) ==
  [op |-> "prune", app |-> a, hash |-> None, slabs |-> {}, victims |-> {}, sharers |-> {}]
AnyApp == CHOOSE a \in AppAccounts : TRUE

Init ==
  /\ slabRow = [a \in AppAccounts |-> [s \in Slabs |-> "none"]]
  /\ objRow = [a \in AppAccounts |-> [o \in Objects |-> "none"]]
  /\ refs = [a \in AppAccounts |-> [o \in Objects |-> {}]]
  /\ pins = {}
  /\ uploads = {}
  /\ usage = [u \in Users |-> [s \in Slabs |-> 0]]
  /\ missed = usage /\ surplus = usage
  /\ apps = AppAccounts
  /\ held = [a \in AppAccounts |-> {}]
  /\ stored = [a \in AppAccounts |-> [o \in Objects |-> {}]]
  /\ pc = [r \in Requests |-> "idle"]
  /\ req = [r \in Requests |-> Blank(AnyApp)]
  /\ begun = 0
  /\ faults = 0
  /\ excused = {}

-----------------------------------------------------------------------------
Goto(r, step) == pc' = [pc EXCEPT ![r] = step]
Finish(r) == Goto(r, "idle") /\ req' = [req EXCEPT ![r] = Blank(AnyApp)]

Fault == faults < MaxFaults /\ faults' = faults + 1
NoFault == UNCHANGED <<begun, faults>>

Unpin(P) == pins' = pins \ P /\ excused' = excused \ P

(* Storage events, as the quota service has seen them.                     *)
Emit(u, s, n) == usage' = [usage EXCEPT ![u][s] = @ + n]
EmitMine(r, n) ==
  IF req[r].hash \in Slabs THEN Emit(Me(r), req[r].hash, n) ELSE UNCHANGED usage

(* ... and those that stay out, or come without a pin to go.               *)
Miss(r) ==
  missed' = IF req[r].hash \in Slabs THEN [missed EXCEPT ![Me(r)][req[r].hash] = @ + 1]
                                     ELSE missed
Overdo(u, s) == surplus' = [surplus EXCEPT ![u][s] = @ + 1]

(* The middleware has let the request through, and indexd has accepted     *)
(* what needs no answer of the portal's first; a request indexd refuses    *)
(* changes nothing.                                                        *)
Begin(r, op, q, step) ==
  /\ pc[r] = "idle" /\ op \in Ops /\ begun < MaxRequests
  /\ begun' = begun + 1
  /\ req' = [req EXCEPT ![r] = [q EXCEPT !.op = op]]
  /\ Goto(r, step)
  /\ UNCHANGED <<db, portal, faults, excused>>

(* What the objects of an account keep in indexd.                          *)
Referenced(a) == UNION {stored[a][o] : o \in Objects}

(* A batch of slabs, of which the first gives the pin its hash.            *)
BeginPinSlab(r) ==
  \E a \in apps, batch \in SUBSET Slabs : \E first \in batch :
    /\ Begin(r, "pinSlab", [Blank(a) EXCEPT !.hash = first, !.slabs = batch], "register")
    /\ held' = [held EXCEPT ![a] = @ \cup batch]
    /\ UNCHANGED <<apps, stored>>

BeginPinObject(r) ==
  /\ \E a \in apps, o \in Objects, parts \in SUBSET Slabs \ {{}} :
       Begin(r, "pinObject", [Blank(a) EXCEPT !.hash = o, !.slabs = parts], "known")
  /\ UNCHANGED indexd

BeginUnpinSlab(r) ==
  \E a \in apps, s \in Slabs :
    /\ Begin(r, "unpinSlab", [Blank(a) EXCEPT !.hash = s], "row")
    /\ held' = [held EXCEPT ![a] = @ \ ({s} \ Referenced(a))]
    /\ UNCHANGED <<apps, stored>>

BeginUnpinObject(r) ==
  \E a \in apps, o \in Objects :
    /\ Begin(r, "unpinObject", [Blank(a) EXCEPT !.hash = o], "row")
    /\ stored' = [stored EXCEPT ![a][o] = {}]
    /\ UNCHANGED <<apps, held>>

BeginPrune(r) ==
  \E a \in apps :
    /\ Begin(r, "prune", Blank(a), "objects")
    /\ held' = [held EXCEPT ![a] = @ \cap Referenced(a)]
    /\ UNCHANGED <<apps, stored>>

(* The requests of the portal's account page make one call each that       *)
(* matters here, and leave the rows, pins and uploads alone.               *)
Dashboard(r, op) ==
  /\ pc[r] = "idle" /\ op \in Ops /\ begun < MaxRequests
  /\ begun' = begun + 1
  /\ UNCHANGED <<db, portal, pc, req, faults>>

(* DeleteAppAccount: indexd forgets the account with all it held.          *)
Disconnect(r) ==
  \E a \in apps :
    /\ Dashboard(r, "disconnect")
    /\ apps' = apps \ {a}
    /\ held' = [held EXCEPT ![a] = {}]
    /\ stored' = [stored EXCEPT ![a] = [o \in Objects |-> {}]]
    /\ excused' = excused \cup {p \in pins : p[2] \in Slabs /\ LastUser(a, p[2])}

(* PruneAccount, for one account of its loop; one that fails is passed     *)
(* over.                                                                   *)
PruneAccount(r) ==
  \E a \in apps :
    /\ Dashboard(r, "pruneAccount")
    /\ held' = [held EXCEPT ![a] = @ \cap Referenced(a)]
    /\ UNCHANGED <<apps, stored, excused>>

-----------------------------------------------------------------------------
(* Pinning.  UploadPinnedByUser is asked before the proxied call of an     *)
(* object, and after that of either kind; an object already pinned is      *)
(* only proxied.  indexd refuses an object with a slab it does not hold.   *)
CheckKnown(r) ==
  /\ pc[r] = "known"
  /\ Goto(r, IF Mine(r) \in pins THEN "proxyOnly" ELSE "proxy")
  /\ NoFault /\ UNCHANGED <<db, portal, indexd, req, excused>>

Proxy(r) ==
  /\ pc[r] \in {"proxy", "proxyOnly"}
  /\ IF req[r].slabs \subseteq held[req[r].app]
       THEN /\ stored' = [stored EXCEPT ![req[r].app][req[r].hash] = req[r].slabs]
            /\ IF pc[r] = "proxyOnly" THEN Finish(r) ELSE Goto(r, "register") /\ UNCHANGED req
       ELSE Finish(r) /\ UNCHANGED stored
  /\ NoFault /\ UNCHANGED <<db, portal, apps, held, excused>>

(* The next slab of the batch, the first one first.                        *)
NextOfBatch(r, s) ==
  /\ pc[r] = "register" /\ req[r].op = "pinSlab"
  /\ s \in req[r].slabs
  /\ req[r].hash \in req[r].slabs => s = req[r].hash
  /\ req' = [req EXCEPT ![r].slabs = @ \ {s}]
  /\ Goto(r, IF req[r].slabs = {s} THEN "check" ELSE "register")

(* INSERT ... ON CONFLICT DO NOTHING.                                      *)
RegisterSlab(r) ==
  \E s \in Slabs :
    /\ NextOfBatch(r, s)
    /\ slabRow' = [slabRow EXCEPT ![req[r].app][s] = IF @ = "none" THEN "live" ELSE @]
    /\ NoFault /\ UNCHANGED <<objRow, refs, portal, indexd, excused>>

(* One transaction.  The insert of an object whose row is gone fails on    *)
(* the unique key, and the transaction returns without an error.           *)
RegisterObject(r) ==
  LET a == req[r].app  o == req[r].hash IN
  /\ pc[r] = "register" /\ req[r].op = "pinObject"
  /\ IF objRow[a][o] = "gone"
       THEN UNCHANGED <<objRow, refs>>
       ELSE /\ objRow' = [objRow EXCEPT ![a][o] = "live"]
            /\ refs' = [refs EXCEPT ![a][o] = @ \cup {s \in req[r].slabs : Live(a, s)}]
  /\ Goto(r, "check")
  /\ NoFault /\ UNCHANGED <<slabRow, portal, indexd, req, excused>>

Check(r) ==
  /\ pc[r] = "check"
  /\ IF Mine(r) \in pins THEN Finish(r) ELSE Goto(r, "upload") /\ UNCHANGED req
  /\ NoFault /\ UNCHANGED <<db, portal, indexd, excused>>

SaveUpload(r) ==
  /\ pc[r] = "upload"
  /\ uploads' = uploads \cup {req[r].hash}
  /\ Goto(r, "pin")
  /\ NoFault /\ UNCHANGED <<db, pins, charges, indexd, req, excused>>

(* Mutant: the storage event goes out whether or not the pin is refused.   *)
CreatePinCharges(r) ==
  /\ pc[r] = "pin"
  /\ pins' = pins \cup {Mine(r)}
  /\ EmitMine(r, 1)
  /\ excused' = IF req[r].hash \in Slabs /\ ~InUse(req[r].hash)
                THEN excused \cup {Mine(r)} ELSE excused
  /\ Finish(r)
  /\ NoFault /\ UNCHANGED <<db, uploads, missed, surplus, indexd>>

(* A second pin of the same upload by the same user is refused.  Only      *)
(* slabs have a size, and so a storage event.                              *)
CreatePin(r) ==
  /\ pc[r] = "pin"
  /\ IF Mine(r) \in pins
       THEN UNCHANGED <<pins, usage, excused>>
       ELSE /\ pins' = pins \cup {Mine(r)}
            /\ EmitMine(r, 1)
            /\ excused' = IF req[r].hash \in Slabs /\ ~InUse(req[r].hash)
                          THEN excused \cup {Mine(r)} ELSE excused
  /\ Finish(r)
  /\ NoFault /\ UNCHANGED <<db, uploads, missed, surplus, indexd>>

-----------------------------------------------------------------------------
(* Unpinning: the row, then the pin, then the upload, then the event.      *)
DeleteSlabRow(a, s) ==
  slabRow' = [slabRow EXCEPT ![a][s] = IF @ = "live" THEN "gone" ELSE @]

DeleteSlab(r) ==
  LET a == req[r].app  s == req[r].hash IN
  /\ pc[r] = "row" /\ req[r].op = "unpinSlab"
  /\ DeleteSlabRow(a, s)
  /\ excused' = IF LastUser(a, s) THEN excused \cup PinsOf(s) ELSE excused
  /\ Goto(r, "readPin")
  /\ NoFault /\ UNCHANGED <<objRow, refs, portal, indexd, req>>

DeleteObject(r) ==
  LET a == req[r].app  o == req[r].hash IN
  /\ pc[r] = "row" /\ req[r].op = "unpinObject"
  /\ objRow' = [objRow EXCEPT ![a][o] = IF @ = "live" THEN "gone" ELSE @]
  /\ refs' = [refs EXCEPT ![a][o] = {}]
  /\ Goto(r, "readPin")
  /\ NoFault /\ UNCHANGED <<slabRow, portal, indexd, req, excused>>

(* Nothing is left to do without the user's pin, or without its upload.    *)
ReadPin(r) ==
  /\ pc[r] = "readPin"
  /\ IF Mine(r) \in pins /\ req[r].hash \in uploads
       THEN Goto(r, "deletePin") /\ UNCHANGED req
       ELSE Finish(r)
  /\ NoFault /\ UNCHANGED <<db, portal, indexd, excused>>

DeletePin(r) ==
  /\ pc[r] = "deletePin"
  /\ Unpin({Mine(r)})
  /\ IF Mine(r) \in pins THEN Goto(r, "deleteUpload") /\ UNCHANGED req ELSE Finish(r)
  /\ NoFault /\ UNCHANGED <<db, uploads, charges, indexd>>

(* The upload goes whoever else has it pinned; without one the request     *)
(* ends with the error, before the event.                                  *)
DeleteUpload(r) ==
  /\ pc[r] = "deleteUpload" /\ req[r].op # "prune"
  /\ uploads' = uploads \ {req[r].hash}
  /\ IF req[r].hash \in uploads
       THEN EmitMine(r, -1) /\ UNCHANGED missed
       ELSE Miss(r) /\ UNCHANGED usage
  /\ Finish(r)
  /\ NoFault /\ UNCHANGED <<db, pins, surplus, indexd, excused>>

-----------------------------------------------------------------------------
(* PruneSlabs.                                                             *)
DeleteObjects(r) ==
  LET a == req[r].app IN
  /\ pc[r] = "objects"
  /\ objRow' = [objRow EXCEPT ![a] =
                  [o \in Objects |-> IF @[o] = "live" THEN "gone" ELSE @[o]]]
  /\ refs' = [refs EXCEPT ![a] = [o \in Objects |-> {}]]
  /\ Goto(r, "orphans")
  /\ NoFault /\ UNCHANGED <<slabRow, portal, indexd, req, excused>>

FindOrphanedSlabs(a) == {s \in Slabs : Live(a, s) /\ \A o \in Objects : s \notin refs[a][o]}

FindOrphans(r) ==
  LET orphans == FindOrphanedSlabs(req[r].app) IN
  /\ pc[r] = "orphans"
  /\ IF orphans = {}
       THEN Finish(r)
       ELSE req' = [req EXCEPT ![r].slabs = orphans] /\ Goto(r, "loop")
  /\ NoFault /\ UNCHANGED <<db, portal, indexd, excused>>

NextSlab(r) ==
  IF req[r].slabs = {}
    THEN Finish(r)
    ELSE /\ req' = [req EXCEPT ![r].hash = None, ![r].victims = {}, ![r].sharers = {}]
         /\ Goto(r, "loop")

SharersOf(a, s) == {b \in AppAccounts \ {a} : Live(b, s)}

(* 3a                                                                      *)
PruneDeleteSlab(r) ==
  LET a == req[r].app IN
  /\ pc[r] = "loop"
  /\ \E s \in req[r].slabs :
       /\ DeleteSlabRow(a, s)
       /\ req' = [req EXCEPT ![r].slabs = @ \ {s}, ![r].hash = s,
                             ![r].sharers = SharersOf(a, s)]
  /\ Goto(r, "inUse")
  /\ NoFault /\ UNCHANGED <<objRow, refs, portal, indexd, excused>>

(* Mutants: the count takes in deleted rows; the check is left out.        *)
UsedEver(a, s) == \E b \in AppAccounts \ {a} : slabRow[b][s] # "none"
UsedNever(a, s) == FALSE

StillInUse(a, s) == SharersOf(a, s) # {}

(* The rows left of disconnected accounts, and of no other.                *)
OnlyLeftovers(a, s) == SharersOf(a, s) # {} /\ SharersOf(a, s) \cap apps = {}

(* 3b                                                                      *)
CheckInUse(r) ==
  LET a == req[r].app  s == req[r].hash IN
  /\ pc[r] = "inUse"
  /\ IF StillInUse(a, s) THEN NextSlab(r) ELSE Goto(r, "getPins") /\ UNCHANGED req
  /\ excused' = IF OnlyLeftovers(a, s) THEN excused \cup PinsOf(s) ELSE excused
  /\ NoFault /\ UNCHANGED <<db, portal, indexd>>

(* 3d: GetAllPinsByHash, then one pin at a time.                           *)
GetPins(r) ==
  LET owners == {p[1] : p \in PinsOf(req[r].hash)} IN
  /\ pc[r] = "getPins"
  /\ req' = [req EXCEPT ![r].victims = owners]
  /\ Goto(r, IF owners = {} THEN "deleteUpload" ELSE "deletePins")
  /\ NoFault /\ UNCHANGED <<db, portal, indexd, excused>>

Victim(r, u) ==
  /\ pc[r] = "deletePins"
  /\ u \in req[r].victims
  /\ Emit(u, req[r].hash, -1)
  /\ req' = [req EXCEPT ![r].victims = @ \ {u}]
  /\ Goto(r, IF req[r].victims = {u} THEN "deleteUpload" ELSE "deletePins")

(* Mutant: the pin goes without an event.                                  *)
PruneDeletePinQuietly(r) ==
  \E u \in Users :
    /\ pc[r] = "deletePins"
    /\ u \in req[r].victims
    /\ req' = [req EXCEPT ![r].victims = @ \ {u}]
    /\ Goto(r, IF req[r].victims = {u} THEN "deleteUpload" ELSE "deletePins")
    /\ Unpin({<<u, req[r].hash>>})
    /\ NoFault /\ UNCHANGED <<db, uploads, charges, indexd>>

PruneDeletePin(r) ==
  \E u \in Users :
    /\ Victim(r, u)
    /\ Unpin({<<u, req[r].hash>>})
    /\ IF <<u, req[r].hash>> \in pins THEN UNCHANGED surplus ELSE Overdo(u, req[r].hash)
    /\ NoFault /\ UNCHANGED <<db, uploads, missed, indexd>>

PruneDeleteUpload(r) ==
  /\ pc[r] = "deleteUpload" /\ req[r].op = "prune"
  /\ uploads' = uploads \ {req[r].hash}
  /\ NextSlab(r)
  /\ NoFault /\ UNCHANGED <<db, pins, charges, indexd, excused>>

-----------------------------------------------------------------------------
(* A call fails.                                                           *)

(* UploadPinnedByUser: taken for "not pinned".                             *)
CheckFails(r) ==
  /\ pc[r] \in {"known", "check"}
  /\ Goto(r, IF pc[r] = "known" THEN "proxy" ELSE "upload")
  /\ Fault /\ UNCHANGED <<db, portal, indexd, req, begun, excused>>

(* RegisterSlab, RegisterObject: logged.                                   *)
RegisterFails(r) ==
  /\ \/ \E s \in Slabs : NextOfBatch(r, s)
     \/ /\ pc[r] = "register" /\ req[r].op = "pinObject"
        /\ Goto(r, "check") /\ UNCHANGED req
  /\ Fault /\ UNCHANGED <<db, portal, indexd, begun, excused>>

(* DeleteSlab, DeleteObject of an unpin: logged.                           *)
RowFails(r) ==
  /\ pc[r] = "row"
  /\ Goto(r, "readPin")
  /\ Fault /\ UNCHANGED <<db, portal, indexd, req, begun, excused>>

(* DeleteSlab of a prune: logged, on to the next slab.                     *)
PruneRowFails(r) ==
  /\ pc[r] = "loop"
  /\ \E s \in req[r].slabs :
       IF req[r].slabs = {s}
         THEN Finish(r)
         ELSE req' = [req EXCEPT ![r].slabs = @ \ {s}] /\ UNCHANGED pc
  /\ Fault /\ UNCHANGED <<db, portal, indexd, begun, excused>>

(* The pins the prune had in hand are nobody's business any more.          *)
Forsake(r) ==
  excused' = IF req[r].op = "prune" /\ pc[r] \in {"inUse", "getPins", "deletePins"}
               THEN excused \cup PinsOf(req[r].hash) ELSE excused

(* The count, GetAllPinsByHash or DeleteUpload of a prune: logged, on to   *)
(* the next slab.                                                          *)
PruneSkipsSlab(r) ==
  /\ \/ pc[r] \in {"inUse", "getPins"}
     \/ pc[r] = "deleteUpload" /\ req[r].op = "prune"
  /\ NextSlab(r)
  /\ Forsake(r)
  /\ Fault /\ UNCHANGED <<db, portal, indexd, begun>>

(* DeletePin of a prune: logged, and the event is emitted all the same.    *)
PruneDeletePinFails(r) ==
  \E u \in Users :
    /\ Victim(r, u)
    /\ Overdo(u, req[r].hash)
    /\ excused' = excused \cup (PinsOf(req[r].hash) \cap {<<u, req[r].hash>>})
    /\ Fault /\ UNCHANGED <<db, pins, uploads, missed, indexd, begun>>

(* Every other call returns its error; or the client is gone, its context  *)
(* with it; or the server stops.                                           *)
CutOff(r) ==
  /\ pc[r] # "idle"
  /\ Finish(r)
  /\ Forsake(r)
  /\ IF pc[r] = "deleteUpload" /\ req[r].op # "prune" THEN Miss(r) ELSE UNCHANGED missed
  /\ Fault /\ UNCHANGED <<db, pins, uploads, usage, surplus, indexd, begun>>

-----------------------------------------------------------------------------
BeginSome(r) ==
  \/ BeginPinSlab(r) \/ BeginPinObject(r)
  \/ BeginUnpinSlab(r) \/ BeginUnpinObject(r)
  \/ BeginPrune(r)

DashboardStep(r) == Disconnect(r) \/ PruneAccount(r)

PinStep(r) ==
  \/ CheckKnown(r) \/ Proxy(r)
  \/ RegisterSlab(r) \/ RegisterObject(r)
  \/ Check(r) \/ SaveUpload(r) \/ CreatePin(r)

UnpinStep(r) ==
  \/ DeleteSlab(r) \/ DeleteObject(r)
  \/ ReadPin(r) \/ DeletePin(r) \/ DeleteUpload(r)

PruneStep(r) ==
  \/ DeleteObjects(r) \/ FindOrphans(r)
  \/ PruneDeleteSlab(r) \/ CheckInUse(r)
  \/ GetPins(r) \/ PruneDeletePin(r) \/ PruneDeleteUpload(r)

Failure(r) ==
  \/ CheckFails(r) \/ RegisterFails(r) \/ RowFails(r)
  \/ PruneRowFails(r) \/ PruneSkipsSlab(r) \/ PruneDeletePinFails(r)
  \/ CutOff(r)

Next ==
  \E r \in Requests :
    \/ BeginSome(r) \/ DashboardStep(r)
    \/ PinStep(r) \/ UnpinStep(r) \/ PruneStep(r)
    \/ Failure(r)

Spec == Init /\ [][Next]_vars

-----------------------------------------------------------------------------
Quiet == \A r \in Requests : pc[r] = "idle"

(* A prune that will come by the pins of slab s, or by user u's.           *)
Pruning(r, s) == pc[r] \in {"inUse", "getPins"} /\ req[r].hash = s
Removing(r, u, s) ==
  pc[r] = "deletePins" /\ req[r].hash = s /\ u \in req[r].victims

(* Two prunes of accounts that share a slab never both leave its pins to   *)
(* the other: every slab pin has an account, still connected, whose live   *)
(* row leads a prune to it, or a prune at work on it (PruneSlabs deletes   *)
(* its own row before it looks for others).  Excused are the pins made     *)
(* when no such row was there, those left when an unpin deleted the last   *)
(* one or its app was disconnected, those a prune passed by because of a   *)
(* disconnected app's row alone, and those of a prune that failed or was   *)
(* cut off.                                                                *)
EveryPinHasKeeper ==
  \A u \in Users, s \in Slabs :
    <<u, s>> \in pins \ excused =>
      \/ InUse(s)
      \/ \E r \in Requests : Pruning(r, s) \/ Removing(r, u, s)

(* A prune that goes on to the pins does so past no account that was live  *)
(* on the slab when the prune deleted its own row, and still is.           *)
PruneSparesSharers ==
  \A r \in Requests :
    pc[r] \in {"getPins", "deletePins", "deleteUpload"} =>
      \A b \in req[r].sharers : ~Live(b, req[r].hash)

(* Nobody at work and no call failed: every user has been charged for      *)
(* exactly the slabs he has pinned ("Storage is tracked via the slab pin", *)
(* indexd.go).                                                             *)
UsageMatchesPins ==
  Quiet /\ faults = 0 =>
    \A u \in Users, s \in Slabs : usage[u][s] = IF <<u, s>> \in pins THEN 1 ELSE 0

(* Unpins that have deleted u's pin of s and not yet given its storage     *)
(* back.                                                                   *)
Unpinning(u, s) ==
  {r \in Requests : pc[r] = "deleteUpload" /\ req[r].op # "prune" /\ Mine(r) = <<u, s>>}

(* However requests overlap and fail, what a user is charged for a slab    *)
(* goes wrong at three steps only: an unpin that finds the upload gone or  *)
(* is cut off before its event, a prune that emits the event of a pin that *)
(* is gone already, and one that emits it when the pin could not be        *)
(* deleted.                                                                *)
ChargesAccounted ==
  \A u \in Users, s \in Slabs :
    usage[u][s] + surplus[u][s] =
      (IF <<u, s>> \in pins THEN 1 ELSE 0) + Cardinality(Unpinning(u, s)) + missed[u][s]

(* "deletes pins/uploads only when no other references exist" (PruneSlabs, *)
(* sia.go): a prune deletes a pin only when no other account is live on    *)
(* the slab.                                                               *)
PruneSparesLiveRows ==
  [][\A r \in Requests : PruneDeletePin(r) => SharersOf(req[r].app, req[r].hash) = {}]_vars

(* "Slab still referenced by another app account - skip" (PruneSlabs,      *)
(* sia.go): a prune passes by the pins of a slab only for an account that  *)
(* is still connected.                                                     *)
PruneSkipsForTheConnected ==
  [][\A r \in Requests :
       CheckInUse(r) /\ StillInUse(req[r].app, req[r].hash) =>
         SharersOf(req[r].app, req[r].hash) \cap apps # {}]_vars

(* "indexd already pruned the slab data, so there's no real data left to   *)
(* protect" (PruneSlabs, sia.go): nobody at work and no call failed, a     *)
(* slab the user is charged for is held by some account at indexd.         *)
ChargedIsHeld ==
  Quiet /\ faults = 0 =>
    \A u \in Users, s \in Slabs : usage[u][s] > 0 => \E a \in apps : s \in held[a]

(* "Unpins all slabs not referenced by any pinned object" (api.go): a      *)
(* prune leaves the pins of a slab an object of the account is made of.    *)
PruneSparesReferenced ==
  [][\A r \in Requests : PruneDeletePin(r) =>
       req[r].hash \notin Referenced(req[r].app)]_vars

(* "registers an object with its slab relationships (idempotent)"          *)
(* (RegisterObject, sia.go): when it returns without an error the object   *)
(* has a live row.                                                         *)
RegisterObjectRegisters ==
  [][\A r \in Requests : RegisterObject(r) => objRow'[req[r].app][req[r].hash] = "live"]_vars
=============================================================================
