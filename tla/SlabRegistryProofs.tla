-------------------------- MODULE SlabRegistryProofs --------------------------
(***************************************************************************)
(* Proofs about SlabRegistry, for any number of users, accounts, slabs,    *)
(* objects and concurrent requests.                                        *)
(***************************************************************************)
EXTENDS SlabRegistry, FiniteSetTheorems, TLAPS

SlabOps == {"pinSlab", "unpinSlab"}
ObjectOps == {"pinObject", "unpinObject"}

(* What a request is about at each of its steps.                           *)
Shape(q, step) ==
  /\ q.op \in SlabOps => q.hash \in Slabs
  /\ q.op \in ObjectOps => q.hash \in Objects
  /\ step \in {"known", "proxy", "proxyOnly"} => q.op = "pinObject"
  /\ step \in {"register", "check", "upload", "pin"} => q.op \in {"pinSlab", "pinObject"}
  /\ step \in {"row", "readPin", "deletePin"} => q.op \in {"unpinSlab", "unpinObject"}
  /\ step \in {"objects", "orphans", "loop"} => q.op = "prune"
  /\ step \in {"inUse", "getPins", "deletePins"} => q.op = "prune" /\ q.hash \in Slabs
  /\ step = "deleteUpload" => q.hash \in Hashes
  /\ step = "deleteUpload" /\ q.op = "prune" => q.hash \in Slabs

RequestsOK == \A r \in Requests : Shape(req[r], pc[r])

TypeInv == TypeOK /\ RequestsOK

(* A request at rest, and one that has just begun, is a request.           *)
LEMMA BlankTyped ==
  /\ AnyApp \in AppAccounts
  /\ \A a \in AppAccounts : Blank(a) \in Request
  /\ Shape(Blank(AnyApp), "idle")
<1>1. AnyApp \in AppAccounts
  BY SlabRegistryAssumption DEF AnyApp
<1>2. QED
  BY <1>1 DEF Blank, Request, AllOps, Shape, SlabOps, ObjectOps

(* The control state after a step of request r, in the three forms the     *)
(* actions give it.                                                        *)
Control ==
  /\ pc' \in [Requests -> Steps]
  /\ req' \in [Requests -> Request]
  /\ RequestsOK'

LEMMA MoveReq ==
  ASSUME TypeInv, NEW r \in Requests, NEW q \in Request, NEW step \in Steps,
         Shape(q, step), Goto(r, step), req' = [req EXCEPT ![r] = q]
  PROVE  Control
<1>1. pc' \in [Requests -> Steps] /\ req' \in [Requests -> Request]
  BY DEF Goto, TypeInv, TypeOK
<1>2. ASSUME NEW x \in Requests PROVE Shape(req'[x], pc'[x])
  <2>1. CASE x = r
    BY <2>1 DEF Goto, TypeInv, TypeOK
  <2>2. CASE x # r
    <3>1. req'[x] = req[x] /\ pc'[x] = pc[x]
      BY <2>2 DEF Goto, TypeInv, TypeOK
    <3>2. Shape(req[x], pc[x])
      BY DEF TypeInv, RequestsOK
    <3>3. QED
      BY <3>1, <3>2
  <2>3. QED
    BY <2>1, <2>2
<1>3. RequestsOK'
  BY <1>2 DEF RequestsOK
<1>4. QED
  BY <1>1, <1>3 DEF Control

LEMMA MoveGoto ==
  ASSUME TypeInv, NEW r \in Requests, NEW step \in Steps,
         Shape(req[r], step), Goto(r, step), UNCHANGED req
  PROVE  Control
<1>1. req[r] \in Request /\ req' = [req EXCEPT ![r] = req[r]]
  BY DEF TypeInv, TypeOK
<1>2. QED
  BY <1>1, MoveReq

LEMMA MoveFinish ==
  ASSUME TypeInv, NEW r \in Requests, Finish(r)
  PROVE  Control
<1>1. "idle" \in Steps
  BY DEF Steps
<1>2. QED
  BY <1>1, BlankTyped, MoveReq DEF Finish

LEMMA MoveNextSlab ==
  ASSUME TypeInv, NEW r \in Requests, req[r].op = "prune", NextSlab(r)
  PROVE  Control
<1>1. CASE req[r].slabs = {}
  BY <1>1, MoveFinish DEF NextSlab
<1>2. CASE req[r].slabs # {}
  <2> DEFINE q == [req[r] EXCEPT !.hash = None, !.victims = {}, !.sharers = {}]
  <2>1. req[r] \in Request
    BY DEF TypeInv, TypeOK
  <2>2. q \in Request /\ q.op = "prune"
    BY <2>1 DEF Request
  <2>3. Shape(q, "loop") /\ "loop" \in Steps
    BY <2>2 DEF Shape, SlabOps, ObjectOps, Steps
  <2>4. req' = [req EXCEPT ![r] = q] /\ Goto(r, "loop")
    BY <1>2, <2>1 DEF NextSlab, TypeInv, TypeOK, Request
  <2>5. QED
    BY <2>2, <2>3, <2>4, MoveReq
<1>3. QED
  BY <1>1, <1>2

LEMMA BeginControl ==
  ASSUME TypeInv, NEW r \in Requests, NEW op \in AllOps, NEW q \in Request,
         NEW step \in Steps, Begin(r, op, q, step), Shape([q EXCEPT !.op = op], step)
  PROVE  /\ Control
         /\ begun' \in 0 .. MaxRequests /\ faults' \in 0 .. MaxFaults
         /\ UNCHANGED <<slabRow, objRow, refs, pins, uploads, usage, missed, surplus, excused>>
<1>1. [q EXCEPT !.op = op] \in Request
  BY DEF Request
<1>2. begun' \in 0 .. MaxRequests /\ faults' \in 0 .. MaxFaults
  BY SlabRegistryAssumption DEF Begin, TypeInv, TypeOK
<1>3. Control
  BY <1>1, MoveReq DEF Begin
<1>4. QED
  BY <1>2, <1>3 DEF Begin, db, portal, charges

LEMMA FaultTyped == TypeInv /\ Fault => faults' \in 0 .. MaxFaults
BY SlabRegistryAssumption DEF TypeInv, TypeOK, Fault

LEMMA BeginPinSlabTyped ==
  ASSUME TypeInv, NEW r \in Requests PROVE BeginPinSlab(r) => TypeInv'
<1> SUFFICES ASSUME BeginPinSlab(r) PROVE TypeInv'
  OBVIOUS
<1>1. PICK a \in AppAccounts, batch \in SUBSET Slabs, first \in Slabs :
        /\ Begin(r, "pinSlab", [Blank(a) EXCEPT !.hash = first, !.slabs = batch], "register")
        /\ held' = [held EXCEPT ![a] = @ \cup batch] /\ stored' = stored /\ apps' = apps
  BY DEF BeginPinSlab, indexd, TypeInv, TypeOK
<1> DEFINE q == [Blank(a) EXCEPT !.hash = first, !.slabs = batch]
<1>2. q \in Request /\ Shape([q EXCEPT !.op = "pinSlab"], "register")
  BY <1>1, BlankTyped DEF Blank, Request, AllOps, Hashes, Shape, SlabOps, ObjectOps
<1>3. "register" \in Steps /\ "pinSlab" \in AllOps
  BY DEF Steps, AllOps
<1>4. /\ Control /\ begun' \in 0 .. MaxRequests /\ faults' \in 0 .. MaxFaults
      /\ UNCHANGED <<slabRow, objRow, refs, pins, uploads, usage, missed, surplus, excused>>
  BY <1>1, <1>2, <1>3, BeginControl
<1>5. held' \in [AppAccounts -> SUBSET Slabs] /\ stored' \in [AppAccounts -> [Objects -> SUBSET Slabs]]
  BY <1>1 DEF TypeInv, TypeOK
<1>6. QED
  BY <1>1, <1>4, <1>5 DEF TypeInv, TypeOK, Control

LEMMA BeginPinObjectTyped ==
  ASSUME TypeInv, NEW r \in Requests PROVE BeginPinObject(r) => TypeInv'
<1> SUFFICES ASSUME BeginPinObject(r) PROVE TypeInv'
  OBVIOUS
<1>1. PICK a \in AppAccounts, o \in Objects, parts \in SUBSET Slabs :
        /\ Begin(r, "pinObject", [Blank(a) EXCEPT !.hash = o, !.slabs = parts], "known")
        /\ held' = held /\ stored' = stored /\ apps' = apps
  BY DEF BeginPinObject, indexd, TypeInv, TypeOK
<1> DEFINE q == [Blank(a) EXCEPT !.hash = o, !.slabs = parts]
<1>2. q \in Request /\ Shape([q EXCEPT !.op = "pinObject"], "known")
  BY <1>1, BlankTyped DEF Blank, Request, AllOps, Hashes, Shape, SlabOps, ObjectOps
<1>3. "known" \in Steps /\ "pinObject" \in AllOps
  BY DEF Steps, AllOps
<1>4. /\ Control /\ begun' \in 0 .. MaxRequests /\ faults' \in 0 .. MaxFaults
      /\ UNCHANGED <<slabRow, objRow, refs, pins, uploads, usage, missed, surplus, excused>>
  BY <1>1, <1>2, <1>3, BeginControl
<1>5. held' \in [AppAccounts -> SUBSET Slabs] /\ stored' \in [AppAccounts -> [Objects -> SUBSET Slabs]]
  BY <1>1 DEF TypeInv, TypeOK
<1>6. QED
  BY <1>1, <1>4, <1>5 DEF TypeInv, TypeOK, Control

LEMMA BeginUnpinSlabTyped ==
  ASSUME TypeInv, NEW r \in Requests PROVE BeginUnpinSlab(r) => TypeInv'
<1> SUFFICES ASSUME BeginUnpinSlab(r) PROVE TypeInv'
  OBVIOUS
<1>1. PICK a \in AppAccounts, s \in Slabs :
        /\ Begin(r, "unpinSlab", [Blank(a) EXCEPT !.hash = s], "row")
        /\ held' = [held EXCEPT ![a] = @ \ ({s} \ Referenced(a))] /\ stored' = stored /\ apps' = apps
  BY DEF BeginUnpinSlab, indexd, TypeInv, TypeOK
<1> DEFINE q == [Blank(a) EXCEPT !.hash = s]
<1>2. q \in Request /\ Shape([q EXCEPT !.op = "unpinSlab"], "row")
  BY <1>1, BlankTyped DEF Blank, Request, AllOps, Hashes, Shape, SlabOps, ObjectOps
<1>3. "row" \in Steps /\ "unpinSlab" \in AllOps
  BY DEF Steps, AllOps
<1>4. /\ Control /\ begun' \in 0 .. MaxRequests /\ faults' \in 0 .. MaxFaults
      /\ UNCHANGED <<slabRow, objRow, refs, pins, uploads, usage, missed, surplus, excused>>
  BY <1>1, <1>2, <1>3, BeginControl
<1>5. held' \in [AppAccounts -> SUBSET Slabs] /\ stored' \in [AppAccounts -> [Objects -> SUBSET Slabs]]
  BY <1>1 DEF TypeInv, TypeOK
<1>6. QED
  BY <1>1, <1>4, <1>5 DEF TypeInv, TypeOK, Control

LEMMA BeginUnpinObjectTyped ==
  ASSUME TypeInv, NEW r \in Requests PROVE BeginUnpinObject(r) => TypeInv'
<1> SUFFICES ASSUME BeginUnpinObject(r) PROVE TypeInv'
  OBVIOUS
<1>1. PICK a \in AppAccounts, o \in Objects :
        /\ Begin(r, "unpinObject", [Blank(a) EXCEPT !.hash = o], "row")
        /\ stored' = [stored EXCEPT ![a][o] = {}] /\ held' = held /\ apps' = apps
  BY DEF BeginUnpinObject, indexd, TypeInv, TypeOK
<1> DEFINE q == [Blank(a) EXCEPT !.hash = o]
<1>2. q \in Request /\ Shape([q EXCEPT !.op = "unpinObject"], "row")
  BY <1>1, BlankTyped DEF Blank, Request, AllOps, Hashes, Shape, SlabOps, ObjectOps
<1>3. "row" \in Steps /\ "unpinObject" \in AllOps
  BY DEF Steps, AllOps
<1>4. /\ Control /\ begun' \in 0 .. MaxRequests /\ faults' \in 0 .. MaxFaults
      /\ UNCHANGED <<slabRow, objRow, refs, pins, uploads, usage, missed, surplus, excused>>
  BY <1>1, <1>2, <1>3, BeginControl
<1>5. held' \in [AppAccounts -> SUBSET Slabs] /\ stored' \in [AppAccounts -> [Objects -> SUBSET Slabs]]
  BY <1>1 DEF TypeInv, TypeOK
<1>6. QED
  BY <1>1, <1>4, <1>5 DEF TypeInv, TypeOK, Control

LEMMA BeginPruneTyped ==
  ASSUME TypeInv, NEW r \in Requests PROVE BeginPrune(r) => TypeInv'
<1> SUFFICES ASSUME BeginPrune(r) PROVE TypeInv'
  OBVIOUS
<1>1. PICK a \in AppAccounts :
        /\ Begin(r, "prune", Blank(a), "objects")
        /\ held' = [held EXCEPT ![a] = @ \cap Referenced(a)] /\ stored' = stored /\ apps' = apps
  BY DEF BeginPrune, indexd, TypeInv, TypeOK
<1> DEFINE q == Blank(a)
<1>2. q \in Request /\ Shape([q EXCEPT !.op = "prune"], "objects")
  BY <1>1, BlankTyped DEF Blank, Request, AllOps, Hashes, Shape, SlabOps, ObjectOps
<1>3. "objects" \in Steps /\ "prune" \in AllOps
  BY DEF Steps, AllOps
<1>4. /\ Control /\ begun' \in 0 .. MaxRequests /\ faults' \in 0 .. MaxFaults
      /\ UNCHANGED <<slabRow, objRow, refs, pins, uploads, usage, missed, surplus, excused>>
  BY <1>1, <1>2, <1>3, BeginControl
<1>5. held' \in [AppAccounts -> SUBSET Slabs] /\ stored' \in [AppAccounts -> [Objects -> SUBSET Slabs]]
  BY <1>1 DEF TypeInv, TypeOK
<1>6. QED
  BY <1>1, <1>4, <1>5 DEF TypeInv, TypeOK, Control

LEMMA BeginTyped == ASSUME TypeInv, NEW r \in Requests, BeginSome(r) PROVE TypeInv'
BY BeginPinSlabTyped, BeginPinObjectTyped, BeginUnpinSlabTyped, BeginUnpinObjectTyped,
   BeginPruneTyped DEF BeginSome

LEMMA DashboardTyped == ASSUME TypeInv, NEW r \in Requests, DashboardStep(r) PROVE TypeInv'
<1>1. CASE Disconnect(r)
  <2>1. PICK a \in apps :
          /\ Dashboard(r, "disconnect")
          /\ apps' = apps \ {a}
          /\ held' = [held EXCEPT ![a] = {}]
          /\ stored' = [stored EXCEPT ![a] = [o \in Objects |-> {}]]
          /\ excused' = excused \cup {p \in pins : p[2] \in Slabs /\ LastUser(a, p[2])}
    BY <1>1 DEF Disconnect
  <2>2. held' \in [AppAccounts -> SUBSET Slabs] /\ stored' \in [AppAccounts -> [Objects -> SUBSET Slabs]]
    BY <2>1 DEF TypeInv, TypeOK
  <2>3. excused' \subseteq Users \X Slabs
    BY <2>1 DEF TypeInv, TypeOK
  <2>4. QED
    BY <2>1, <2>2, <2>3, SlabRegistryAssumption
    DEF Dashboard, TypeInv, TypeOK, RequestsOK, db, portal, charges
<1>2. CASE PruneAccount(r)
  <2>1. held' \in [AppAccounts -> SUBSET Slabs]
    BY <1>2 DEF PruneAccount, TypeInv, TypeOK
  <2>2. QED
    BY <1>2, <2>1, SlabRegistryAssumption
    DEF PruneAccount, Dashboard, TypeInv, TypeOK, RequestsOK, db, portal, charges
<1>3. QED
  BY <1>1, <1>2 DEF DashboardStep

(* The request of a step, and what it is about.                            *)
LEMMA AboutRequest ==
  ASSUME TypeInv, NEW r \in Requests
  PROVE  /\ req[r] \in Request /\ req[r].app \in AppAccounts
         /\ req[r].slabs \subseteq Slabs /\ req[r].victims \subseteq Users
         /\ Me(r) \in Users
         /\ Shape(req[r], pc[r])
BY SlabRegistryAssumption DEF TypeInv, TypeOK, RequestsOK, Request, Me

LEMMA BatchControl ==
  ASSUME TypeInv, NEW r \in Requests, NEW s \in Slabs, NextOfBatch(r, s)
  PROVE  Control
<1>0. req[r] \in Request /\ Shape(req[r], pc[r])
  BY AboutRequest
<1> DEFINE q == [req[r] EXCEPT !.slabs = @ \ {s}]
<1>1. q \in Request /\ q.op = req[r].op /\ q.hash = req[r].hash
  BY <1>0 DEF Request
<1>2. req' = [req EXCEPT ![r] = q]
  BY DEF NextOfBatch
<1>3. CASE Goto(r, "check")
  BY <1>0, <1>1, <1>2, <1>3, MoveReq DEF NextOfBatch, Shape, SlabOps, ObjectOps, Steps
<1>4. CASE Goto(r, "register")
  BY <1>0, <1>1, <1>2, <1>4, MoveReq DEF NextOfBatch, Shape, SlabOps, ObjectOps, Steps
<1>5. QED
  BY <1>3, <1>4 DEF NextOfBatch

LEMMA NestedUpdate ==
  ASSUME NEW A, NEW B, NEW C, NEW f \in [A -> [B -> C]], NEW a \in A, NEW b \in B, NEW c \in C
  PROVE  [f EXCEPT ![a][b] = c] \in [A -> [B -> C]]
OBVIOUS

LEMMA EmitTyped ==
  ASSUME TypeInv, NEW u \in Users, NEW s \in Slabs, NEW n \in Int, Emit(u, s, n)
  PROVE  usage' \in [Users -> [Slabs -> Int]]
<1>1. usage[u][s] + n \in Int
  BY DEF TypeInv, TypeOK
<1>2. usage' = [usage EXCEPT ![u][s] = usage[u][s] + n]
  BY DEF Emit
<1>3. QED
  BY <1>1, <1>2, NestedUpdate DEF TypeInv, TypeOK

LEMMA EmitMineTyped ==
  ASSUME TypeInv, NEW r \in Requests, NEW n \in Int, EmitMine(r, n)
  PROVE  usage' \in [Users -> [Slabs -> Int]]
BY AboutRequest, EmitTyped DEF EmitMine, TypeInv, TypeOK

LEMMA CountTyped ==
  ASSUME NEW f \in [Users -> [Slabs -> Nat]], NEW u \in Users, NEW s \in Slabs
  PROVE  [f EXCEPT ![u][s] = f[u][s] + 1] \in [Users -> [Slabs -> Nat]]
<1>1. f[u][s] + 1 \in Nat
  OBVIOUS
<1>2. QED
  BY <1>1, NestedUpdate

LEMMA MissTyped ==
  ASSUME TypeInv, NEW r \in Requests, Miss(r) \/ UNCHANGED missed
  PROVE  missed' \in [Users -> [Slabs -> Nat]]
<1>1. missed \in [Users -> [Slabs -> Nat]] /\ Me(r) \in Users
  BY AboutRequest DEF TypeInv, TypeOK
<1>2. CASE Miss(r) /\ req[r].hash \in Slabs
  <2>1. missed' = [missed EXCEPT ![Me(r)][req[r].hash] = missed[Me(r)][req[r].hash] + 1]
    BY <1>2 DEF Miss
  <2>2. QED
    BY <1>1, <1>2, <2>1, CountTyped
<1>3. CASE missed' = missed
  BY <1>1, <1>3
<1>4. QED
  BY <1>2, <1>3 DEF Miss

LEMMA OverdoTyped ==
  ASSUME TypeInv, NEW u \in Users, NEW s \in Slabs, Overdo(u, s) \/ UNCHANGED surplus
  PROVE  surplus' \in [Users -> [Slabs -> Nat]]
<1>1. surplus \in [Users -> [Slabs -> Nat]]
  BY DEF TypeInv, TypeOK
<1>2. CASE Overdo(u, s)
  <2>1. surplus' = [surplus EXCEPT ![u][s] = surplus[u][s] + 1]
    BY <1>2 DEF Overdo
  <2>2. QED
    BY <1>1, <2>1, CountTyped
<1>3. QED
  BY <1>1, <1>2

LEMMA PinTyped == ASSUME TypeInv, NEW r \in Requests, PinStep(r) PROVE TypeInv'
<1> USE DEF db, portal, charges, indexd, NoFault
<1>0. /\ req[r] \in Request /\ req[r].app \in AppAccounts /\ req[r].slabs \subseteq Slabs
      /\ Me(r) \in Users /\ Shape(req[r], pc[r])
  BY AboutRequest
<1>1. CASE CheckKnown(r)
  <2>1. Control
    <3>1. CASE Goto(r, "proxyOnly")
      BY <1>0, <1>1, <3>1, MoveGoto DEF CheckKnown, Shape, SlabOps, ObjectOps, Steps
    <3>2. CASE Goto(r, "proxy")
      BY <1>0, <1>1, <3>2, MoveGoto DEF CheckKnown, Shape, SlabOps, ObjectOps, Steps
    <3>3. QED
      BY <1>1, <3>1, <3>2 DEF CheckKnown
  <2>2. QED
    BY <1>1, <2>1 DEF CheckKnown, TypeInv, TypeOK, Control
<1>2. CASE Proxy(r)
  <2>1. Control
    <3>1. CASE Goto(r, "register") /\ UNCHANGED req
      BY <1>0, <1>2, <3>1, MoveGoto DEF Proxy, Shape, SlabOps, ObjectOps, Steps
    <3>2. CASE Finish(r)
      BY <3>2, MoveFinish
    <3>3. QED
      BY <1>2, <3>1, <3>2 DEF Proxy
  <2>2. stored' \in [AppAccounts -> [Objects -> SUBSET Slabs]]
    <3>1. req[r].hash \in Objects
      BY <1>0, <1>2 DEF Proxy, Shape, ObjectOps
    <3>2. CASE stored' = [stored EXCEPT ![req[r].app][req[r].hash] = req[r].slabs]
      BY <1>0, <3>1, <3>2, NestedUpdate DEF TypeInv, TypeOK
    <3>3. CASE stored' = stored
      BY <3>3 DEF TypeInv, TypeOK
    <3>4. QED
      BY <1>2, <3>2, <3>3 DEF Proxy
  <2>3. QED
    BY <1>2, <2>1, <2>2 DEF Proxy, TypeInv, TypeOK, Control
<1>4. CASE RegisterSlab(r)
  <2>1. PICK s \in Slabs : NextOfBatch(r, s) /\
          slabRow' = [slabRow EXCEPT ![req[r].app][s] = IF @ = "none" THEN "live" ELSE @]
    BY <1>4 DEF RegisterSlab
  <2>2. Control
    BY <2>1, BatchControl
  <2>3. slabRow' \in [AppAccounts -> [Slabs -> RowState]]
    BY <1>0, <2>1 DEF TypeInv, TypeOK, RowState
  <2>4. QED
    BY <1>4, <2>2, <2>3 DEF RegisterSlab, TypeInv, TypeOK, Control
<1>5. CASE RegisterObject(r)
  <2>0. req[r].hash \in Objects
    BY <1>0, <1>5 DEF RegisterObject, Shape, ObjectOps
  <2>1. Control
    BY <1>0, <1>5, MoveGoto DEF RegisterObject, Shape, SlabOps, ObjectOps, Steps
  <2>2. objRow' \in [AppAccounts -> [Objects -> RowState]]
    <3>1. CASE objRow' = [objRow EXCEPT ![req[r].app][req[r].hash] = "live"]
      BY <1>0, <2>0, <3>1, NestedUpdate DEF TypeInv, TypeOK, RowState
    <3>2. CASE objRow' = objRow
      BY <3>2 DEF TypeInv, TypeOK
    <3>3. QED
      BY <1>5, <3>1, <3>2 DEF RegisterObject
  <2>3. refs' \in [AppAccounts -> [Objects -> SUBSET Slabs]]
    <3> DEFINE joined == refs[req[r].app][req[r].hash] \cup {s \in req[r].slabs : Live(req[r].app, s)}
    <3>1. joined \in SUBSET Slabs
      BY <1>0, <2>0 DEF TypeInv, TypeOK
    <3>2. CASE refs' = [refs EXCEPT ![req[r].app][req[r].hash] = joined]
      <4> HIDE DEF joined
      <4>1. QED
        BY <1>0, <2>0, <3>1, <3>2, NestedUpdate DEF TypeInv, TypeOK
    <3>3. CASE refs' = refs
      BY <3>3 DEF TypeInv, TypeOK
    <3>4. QED
      BY <1>5, <3>2, <3>3 DEF RegisterObject
  <2>4. QED
    BY <1>5, <2>1, <2>2, <2>3 DEF RegisterObject, TypeInv, TypeOK, Control
<1>6. CASE Check(r)
  <2>1. Control
    <3>1. CASE Goto(r, "upload") /\ UNCHANGED req
      BY <1>0, <1>6, <3>1, MoveGoto DEF Check, Shape, SlabOps, ObjectOps, Steps
    <3>2. CASE Finish(r)
      BY <3>2, MoveFinish
    <3>3. QED
      BY <1>6, <3>1, <3>2 DEF Check
  <2>2. QED
    BY <1>6, <2>1 DEF Check, TypeInv, TypeOK, Control
<1>7. CASE SaveUpload(r)
  <2>1. Control
    BY <1>0, <1>7, MoveGoto DEF SaveUpload, Shape, SlabOps, ObjectOps, Steps
  <2>2. uploads' \subseteq Hashes
    BY <1>0, <1>7 DEF SaveUpload, Shape, SlabOps, ObjectOps, Hashes, TypeInv, TypeOK
  <2>3. QED
    BY <1>7, <2>1, <2>2 DEF SaveUpload, TypeInv, TypeOK, Control
<1>8. CASE CreatePin(r)
  <2>1. Control
    BY <1>8, MoveFinish DEF CreatePin
  <2>2. Mine(r) \in Users \X Hashes /\ (req[r].hash \in Slabs => Mine(r) \in Users \X Slabs)
    BY <1>0, <1>8 DEF CreatePin, Mine, Shape, SlabOps, ObjectOps, Hashes
  <2>3. pins' \subseteq Users \X Hashes /\ excused' \subseteq Users \X Slabs
    BY <1>8, <2>2 DEF CreatePin, TypeInv, TypeOK
  <2>4. usage' \in [Users -> [Slabs -> Int]]
    BY <1>8, EmitMineTyped DEF CreatePin, TypeInv, TypeOK
  <2>5. QED
    BY <1>8, <2>1, <2>3, <2>4 DEF CreatePin, TypeInv, TypeOK, Control
<1>9. QED
  BY <1>1, <1>2, <1>4, <1>5, <1>6, <1>7, <1>8 DEF PinStep

LEMMA PinsTyped ==
  ASSUME TypeInv, NEW s PROVE PinsOf(s) \subseteq pins /\ (s \in Slabs => PinsOf(s) \subseteq Users \X Slabs)
BY DEF TypeInv, TypeOK, PinsOf

LEMMA UnpinTyped == ASSUME TypeInv, NEW r \in Requests, UnpinStep(r) PROVE TypeInv'
<1> USE DEF db, portal, charges, indexd, NoFault
<1>0. /\ req[r] \in Request /\ req[r].app \in AppAccounts
      /\ Me(r) \in Users /\ Shape(req[r], pc[r])
  BY AboutRequest
<1>1. CASE DeleteSlab(r)
  <2>1. Control
    BY <1>0, <1>1, MoveGoto DEF DeleteSlab, Shape, SlabOps, ObjectOps, Steps
  <2>2. req[r].hash \in Slabs
    BY <1>0, <1>1 DEF DeleteSlab, Shape, SlabOps
  <2>3. slabRow' \in [AppAccounts -> [Slabs -> RowState]]
    <3> DEFINE a == req[r].app  s == req[r].hash
               row == IF slabRow[a][s] = "live" THEN "gone" ELSE slabRow[a][s]
    <3>1. slabRow \in [AppAccounts -> [Slabs -> RowState]]
      BY DEF TypeInv, TypeOK
    <3>2. row \in RowState /\ slabRow' = [slabRow EXCEPT ![a][s] = row]
      BY <1>0, <1>1, <2>2, <3>1 DEF DeleteSlab, DeleteSlabRow, RowState
    <3> HIDE DEF a, s, row
    <3>3. QED
      BY <1>0, <2>2, <3>1, <3>2, NestedUpdate DEF a, s
  <2>4. excused' \subseteq Users \X Slabs
    BY <1>1, <2>2, PinsTyped DEF DeleteSlab, TypeInv, TypeOK
  <2>5. QED
    BY <1>1, <2>1, <2>3, <2>4 DEF DeleteSlab, TypeInv, TypeOK, Control
<1>2. CASE DeleteObject(r)
  <2>1. Control
    BY <1>0, <1>2, MoveGoto DEF DeleteObject, Shape, SlabOps, ObjectOps, Steps
  <2>2. objRow' \in [AppAccounts -> [Objects -> RowState]]
    <3> DEFINE a == req[r].app  o == req[r].hash
               row == IF objRow[a][o] = "live" THEN "gone" ELSE objRow[a][o]
    <3>1. objRow \in [AppAccounts -> [Objects -> RowState]] /\ req[r].hash \in Objects
      BY <1>0, <1>2 DEF DeleteObject, Shape, ObjectOps, TypeInv, TypeOK
    <3>2. row \in RowState /\ objRow' = [objRow EXCEPT ![a][o] = row]
      BY <1>0, <1>2, <3>1 DEF DeleteObject, RowState
    <3> HIDE DEF a, o, row
    <3>3. QED
      BY <1>0, <3>1, <3>2, NestedUpdate DEF a, o
  <2>3. refs' \in [AppAccounts -> [Objects -> SUBSET Slabs]]
    BY <1>0, <1>2 DEF DeleteObject, TypeInv, TypeOK
  <2>4. QED
    BY <1>2, <2>1, <2>2, <2>3 DEF DeleteObject, TypeInv, TypeOK, Control
<1>3. CASE ReadPin(r)
  <2>1. Control
    <3>1. CASE Goto(r, "deletePin") /\ UNCHANGED req
      BY <1>0, <1>3, <3>1, MoveGoto DEF ReadPin, Shape, SlabOps, ObjectOps, Steps
    <3>2. CASE Finish(r)
      BY <3>2, MoveFinish
    <3>3. QED
      BY <1>3, <3>1, <3>2 DEF ReadPin
  <2>2. QED
    BY <1>3, <2>1 DEF ReadPin, TypeInv, TypeOK, Control
<1>4. CASE DeletePin(r)
  <2>1. Control
    <3>1. CASE Goto(r, "deleteUpload") /\ UNCHANGED req
      <4>1. Shape(req[r], "deleteUpload")
        BY <1>0, <1>4 DEF DeletePin, Shape, SlabOps, ObjectOps, Hashes
      <4>2. QED
        BY <3>1, <4>1, MoveGoto DEF Steps
    <3>2. CASE Finish(r)
      BY <3>2, MoveFinish
    <3>3. QED
      BY <1>4, <3>1, <3>2 DEF DeletePin
  <2>2. QED
    BY <1>4, <2>1 DEF DeletePin, Unpin, TypeInv, TypeOK, Control
<1>5. CASE DeleteUpload(r)
  <2>1. Control
    BY <1>5, MoveFinish DEF DeleteUpload
  <2>2. usage' \in [Users -> [Slabs -> Int]]
    BY <1>5, EmitMineTyped DEF DeleteUpload, TypeInv, TypeOK
  <2>3. missed' \in [Users -> [Slabs -> Nat]]
    BY <1>5, MissTyped DEF DeleteUpload
  <2>4. QED
    BY <1>5, <2>1, <2>2, <2>3 DEF DeleteUpload, TypeInv, TypeOK, Control
<1>6. QED
  BY <1>1, <1>2, <1>3, <1>4, <1>5 DEF UnpinStep

LEMMA VictimTyped ==
  ASSUME TypeInv, NEW r \in Requests, NEW u \in Users, Victim(r, u)
  PROVE  Control /\ usage' \in [Users -> [Slabs -> Int]] /\ req[r].hash \in Slabs
<1>0. req[r] \in Request /\ Shape(req[r], pc[r])
  BY AboutRequest
<1>1. req[r].hash \in Slabs /\ req[r].op = "prune"
  BY <1>0 DEF Victim, Shape
<1>2. usage' \in [Users -> [Slabs -> Int]]
  BY <1>1, EmitTyped DEF Victim
<1> DEFINE q == [req[r] EXCEPT !.victims = @ \ {u}]
<1>3. q \in Request /\ q.op = "prune" /\ q.hash = req[r].hash
  BY <1>0, <1>1 DEF Request
<1>4. req' = [req EXCEPT ![r] = q]
  BY DEF Victim
<1>5. Shape(q, "deleteUpload") /\ Shape(q, "deletePins")
  BY <1>1, <1>3 DEF Shape, SlabOps, ObjectOps, Hashes
<1>6. CASE Goto(r, "deleteUpload")
  BY <1>1, <1>2, <1>3, <1>4, <1>5, <1>6, MoveReq DEF Steps
<1>7. CASE Goto(r, "deletePins")
  BY <1>1, <1>2, <1>3, <1>4, <1>5, <1>7, MoveReq DEF Steps
<1>8. QED
  BY <1>6, <1>7 DEF Victim

LEMMA PruneTyped == ASSUME TypeInv, NEW r \in Requests, PruneStep(r) PROVE TypeInv'
<1> USE DEF db, portal, charges, indexd, NoFault
<1>0. /\ req[r] \in Request /\ req[r].app \in AppAccounts /\ req[r].slabs \subseteq Slabs
      /\ req[r].victims \subseteq Users /\ Shape(req[r], pc[r])
  BY AboutRequest
<1>1. CASE DeleteObjects(r)
  <2>1. Control
    BY <1>0, <1>1, MoveGoto DEF DeleteObjects, Shape, SlabOps, ObjectOps, Steps
  <2>2. objRow' \in [AppAccounts -> [Objects -> RowState]]
    BY <1>0, <1>1 DEF DeleteObjects, TypeInv, TypeOK, RowState
  <2>3. refs' \in [AppAccounts -> [Objects -> SUBSET Slabs]]
    BY <1>0, <1>1 DEF DeleteObjects, TypeInv, TypeOK
  <2>4. QED
    BY <1>1, <2>1, <2>2, <2>3 DEF DeleteObjects, TypeInv, TypeOK, Control
<1>2. CASE FindOrphans(r)
  <2>1. Control
    <3>1. CASE Finish(r)
      BY <3>1, MoveFinish
    <3>2. CASE Goto(r, "loop") /\ req' = [req EXCEPT ![r].slabs = FindOrphanedSlabs(req[r].app)]
      <4> DEFINE q == [req[r] EXCEPT !.slabs = FindOrphanedSlabs(req[r].app)]
      <4>1. FindOrphanedSlabs(req[r].app) \subseteq Slabs
        BY DEF FindOrphanedSlabs
      <4>2. q \in Request /\ q.op = "prune"
        BY <1>0, <1>2, <4>1 DEF Request, FindOrphans, Shape
      <4>3. Shape(q, "loop") /\ req' = [req EXCEPT ![r] = q]
        BY <3>2, <4>2 DEF Shape, SlabOps, ObjectOps
      <4>4. QED
        BY <3>2, <4>2, <4>3, MoveReq DEF Steps
    <3>3. QED
      BY <1>2, <3>1, <3>2 DEF FindOrphans
  <2>2. QED
    BY <1>2, <2>1 DEF FindOrphans, TypeInv, TypeOK, Control
<1>3. CASE PruneDeleteSlab(r)
  <2>1. PICK s \in req[r].slabs :
          /\ DeleteSlabRow(req[r].app, s)
          /\ req' = [req EXCEPT ![r].slabs = @ \ {s}, ![r].hash = s,
                                ![r].sharers = SharersOf(req[r].app, s)]
    BY <1>3 DEF PruneDeleteSlab
  <2> DEFINE q == [req[r] EXCEPT !.slabs = @ \ {s}, !.hash = s, !.sharers = SharersOf(req[r].app, s)]
  <2>2. q \in Request /\ q.op = "prune" /\ q.hash = s /\ s \in Slabs
    BY <1>0, <1>3 DEF Request, PruneDeleteSlab, Shape, SharersOf, Hashes
  <2>3. req' = [req EXCEPT ![r] = q]
    BY <2>1 DEF TypeInv, TypeOK
  <2>4. Shape(q, "inUse") /\ "inUse" \in Steps
    BY <2>2 DEF Shape, SlabOps, ObjectOps, Steps
  <2>5. Control
    BY <1>3, <2>2, <2>3, <2>4, MoveReq DEF PruneDeleteSlab
  <2>6. slabRow' \in [AppAccounts -> [Slabs -> RowState]]
    BY <1>0, <2>1, <2>2 DEF DeleteSlabRow, TypeInv, TypeOK, RowState
  <2>7. QED
    BY <1>3, <2>5, <2>6 DEF PruneDeleteSlab, TypeInv, TypeOK, Control
<1>4. CASE CheckInUse(r)
  <2>1. Control
    <3>1. CASE NextSlab(r)
      BY <1>0, <1>4, <3>1, MoveNextSlab DEF CheckInUse, Shape
    <3>2. CASE Goto(r, "getPins") /\ UNCHANGED req
      BY <1>0, <1>4, <3>2, MoveGoto DEF CheckInUse, Shape, SlabOps, ObjectOps, Steps
    <3>3. QED
      BY <1>4, <3>1, <3>2 DEF CheckInUse
  <2>2. excused' \subseteq Users \X Slabs
    <3>1. req[r].hash \in Slabs
      BY <1>0, <1>4 DEF CheckInUse, Shape
    <3>2. QED
      BY <1>4, <3>1, PinsTyped DEF CheckInUse, TypeInv, TypeOK
  <2>3. QED
    BY <1>4, <2>1, <2>2 DEF CheckInUse, TypeInv, TypeOK, Control
<1>5. CASE GetPins(r)
  <2> DEFINE owners == {p[1] : p \in PinsOf(req[r].hash)}
             q == [req[r] EXCEPT !.victims = owners]
  <2>1. owners \subseteq Users
    BY DEF PinsOf, TypeInv, TypeOK
  <2>2. q \in Request /\ q.op = "prune" /\ q.hash = req[r].hash /\ req[r].hash \in Slabs
    <3> HIDE DEF owners
    <3>1. QED
      BY <1>0, <1>5, <2>1 DEF Request, GetPins, Shape
  <2>3. req' = [req EXCEPT ![r] = q]
    BY <1>5 DEF GetPins
  <2>4. Shape(q, "deleteUpload") /\ Shape(q, "deletePins")
    <3> HIDE DEF q
    <3>1. QED
      BY <2>2 DEF Shape, SlabOps, ObjectOps, Hashes
  <2>5. Goto(r, "deleteUpload") \/ Goto(r, "deletePins")
    BY <1>5 DEF GetPins
  <2>6. Control
    <3> HIDE DEF q
    <3>1. QED
      BY <2>2, <2>3, <2>4, <2>5, MoveReq DEF Steps
  <2>7. QED
    BY <1>5, <2>6 DEF GetPins, TypeInv, TypeOK, Control
<1>6. CASE PruneDeletePin(r)
  <2>1. PICK u \in Users : /\ Victim(r, u) /\ Unpin({<<u, req[r].hash>>})
                           /\ Overdo(u, req[r].hash) \/ UNCHANGED surplus
    BY <1>6 DEF PruneDeletePin
  <2>2. Control /\ usage' \in [Users -> [Slabs -> Int]] /\ req[r].hash \in Slabs
    BY <2>1, VictimTyped
  <2>3. surplus' \in [Users -> [Slabs -> Nat]]
    BY <2>1, <2>2, OverdoTyped
  <2>4. QED
    BY <1>6, <2>1, <2>2, <2>3 DEF PruneDeletePin, Unpin, TypeInv, TypeOK, Control
<1>7. CASE PruneDeleteUpload(r)
  <2>1. Control
    BY <1>7, MoveNextSlab DEF PruneDeleteUpload
  <2>2. QED
    BY <1>7, <2>1 DEF PruneDeleteUpload, TypeInv, TypeOK, Control
<1>8. QED
  BY <1>1, <1>2, <1>3, <1>4, <1>5, <1>6, <1>7 DEF PruneStep

LEMMA FailureTyped == ASSUME TypeInv, NEW r \in Requests, Failure(r) PROVE TypeInv'
<1> USE DEF db, portal, charges, indexd
<1>0. /\ req[r] \in Request /\ req[r].slabs \subseteq Slabs /\ Shape(req[r], pc[r])
  BY AboutRequest
<1>1. CASE CheckFails(r)
  <2>1. Control
    <3>1. CASE Goto(r, "proxy") /\ pc[r] = "known"
      BY <1>0, <1>1, <3>1, MoveGoto DEF CheckFails, Shape, SlabOps, ObjectOps, Steps
    <3>2. CASE Goto(r, "upload") /\ pc[r] = "check"
      BY <1>0, <1>1, <3>2, MoveGoto DEF CheckFails, Shape, SlabOps, ObjectOps, Steps
    <3>3. QED
      BY <1>1, <3>1, <3>2 DEF CheckFails
  <2>2. QED
    BY <1>1, <2>1, FaultTyped DEF CheckFails, TypeInv, TypeOK, Control
<1>2. CASE RegisterFails(r)
  <2>1. Control
    <3>1. ASSUME NEW s \in Slabs, NextOfBatch(r, s) PROVE Control
      BY <3>1, BatchControl
    <3>2. CASE pc[r] = "register" /\ req[r].op = "pinObject" /\ Goto(r, "check") /\ UNCHANGED req
      BY <1>0, <3>2, MoveGoto DEF Shape, SlabOps, ObjectOps, Steps
    <3>3. QED
      BY <1>2, <3>1, <3>2 DEF RegisterFails
  <2>2. QED
    BY <1>2, <2>1, FaultTyped DEF RegisterFails, TypeInv, TypeOK, Control
<1>3. CASE RowFails(r)
  <2>1. Control
    BY <1>0, <1>3, MoveGoto DEF RowFails, Shape, SlabOps, ObjectOps, Steps
  <2>2. QED
    BY <1>3, <2>1, FaultTyped DEF RowFails, TypeInv, TypeOK, Control
<1>4. CASE PruneRowFails(r)
  <2>1. Control
    <3>1. CASE Finish(r)
      BY <3>1, MoveFinish
    <3>2. ASSUME NEW s \in req[r].slabs, req' = [req EXCEPT ![r].slabs = @ \ {s}], UNCHANGED pc
          PROVE  Control
      <4> DEFINE q == [req[r] EXCEPT !.slabs = @ \ {s}]
      <4>1. q \in Request /\ q.op = req[r].op /\ q.hash = req[r].hash
        BY <1>0 DEF Request
      <4>2. req' = [req EXCEPT ![r] = q] /\ Goto(r, pc[r]) /\ pc[r] \in Steps
        BY <3>2 DEF Goto, TypeInv, TypeOK
      <4>3. Shape(q, pc[r])
        BY <1>0, <4>1 DEF Shape
      <4>4. QED
        BY <4>1, <4>2, <4>3, MoveReq
    <3>3. QED
      BY <1>4, <3>1, <3>2 DEF PruneRowFails
  <2>2. QED
    BY <1>4, <2>1, FaultTyped DEF PruneRowFails, TypeInv, TypeOK, Control
<1>5. ASSUME Forsake(r) PROVE excused' \subseteq Users \X Slabs
  BY <1>0, <1>5, PinsTyped DEF Forsake, Shape, TypeInv, TypeOK
<1>6. CASE PruneSkipsSlab(r)
  <2>1. Control
    BY <1>0, <1>6, MoveNextSlab DEF PruneSkipsSlab, Shape
  <2>2. excused' \subseteq Users \X Slabs
    BY <1>5, <1>6 DEF PruneSkipsSlab
  <2>3. QED
    BY <1>6, <2>1, <2>2, FaultTyped DEF PruneSkipsSlab, TypeInv, TypeOK, Control
<1>7. CASE PruneDeletePinFails(r)
  <2>1. PICK u \in Users : Victim(r, u) /\ Overdo(u, req[r].hash) /\
          excused' = excused \cup (PinsOf(req[r].hash) \cap {<<u, req[r].hash>>})
    BY <1>7 DEF PruneDeletePinFails
  <2>2. Control /\ usage' \in [Users -> [Slabs -> Int]] /\ req[r].hash \in Slabs
    BY <2>1, VictimTyped
  <2>3. excused' \subseteq Users \X Slabs
    BY <2>1, <2>2 DEF TypeInv, TypeOK
  <2>4. surplus' \in [Users -> [Slabs -> Nat]]
    BY <2>1, <2>2, OverdoTyped
  <2>5. QED
    BY <1>7, <2>2, <2>3, <2>4, FaultTyped DEF PruneDeletePinFails, TypeInv, TypeOK, Control
<1>8. CASE CutOff(r)
  <2>1. Control /\ excused' \subseteq Users \X Slabs
    BY <1>5, <1>8, MoveFinish DEF CutOff
  <2>2. missed' \in [Users -> [Slabs -> Nat]]
    BY <1>8, MissTyped DEF CutOff
  <2>3. QED
    BY <1>8, <2>1, <2>2, FaultTyped DEF CutOff, TypeInv, TypeOK, Control
<1>9. QED
  BY <1>1, <1>2, <1>3, <1>4, <1>6, <1>7, <1>8 DEF Failure

LEMMA TypeInvInit == Init => TypeInv
BY SlabRegistryAssumption, BlankTyped DEF Init, TypeInv, TypeOK, RequestsOK, RowState, Steps

LEMMA TypeInvNext == TypeInv /\ [Next]_vars => TypeInv'
<1> SUFFICES ASSUME TypeInv, [Next]_vars PROVE TypeInv'
  OBVIOUS
<1>1. CASE UNCHANGED vars
  BY <1>1 DEF TypeInv, TypeOK, RequestsOK, vars, db, portal, charges, indexd
<1>2. CASE Next
  BY <1>2, BeginTyped, DashboardTyped, PinTyped, UnpinTyped, PruneTyped, FailureTyped DEF Next
<1>3. QED
  BY <1>1, <1>2

(* Type correctness of the rows, pins, events and requests.                *)
THEOREM TypeCorrect == Spec => []TypeOK
<1>1. TypeInv => TypeOK
  BY DEF TypeInv
<1>2. QED
  BY <1>1, TypeInvInit, TypeInvNext, PTL DEF Spec

-----------------------------------------------------------------------------
Step(r) ==
  \/ BeginSome(r) \/ DashboardStep(r)
  \/ PinStep(r) \/ UnpinStep(r) \/ PruneStep(r)
  \/ Failure(r)

Others(r) == \A q \in Requests \ {r} : pc'[q] = pc[q] /\ req'[q] = req[q]

(* A step of a request is nobody else's.                                   *)
LEMMA StepIsLocal == ASSUME TypeInv, NEW r \in Requests, Step(r) PROVE Others(r)
<1> USE DEF Others, Goto, Finish, TypeInv, TypeOK
<1>1. CASE BeginSome(r)
  BY <1>1 DEF BeginSome, BeginPinSlab, BeginPinObject, BeginUnpinSlab, BeginUnpinObject, BeginPrune, Begin
<1>2. CASE PinStep(r)
  BY <1>2 DEF PinStep, CheckKnown, Proxy, RegisterSlab, NextOfBatch, RegisterObject, Check, SaveUpload, CreatePin
<1>3. CASE UnpinStep(r)
  BY <1>3 DEF UnpinStep, DeleteSlab, DeleteObject, ReadPin, DeletePin, DeleteUpload
<1>4. CASE PruneStep(r)
  BY <1>4 DEF PruneStep, DeleteObjects, FindOrphans, PruneDeleteSlab, CheckInUse, NextSlab, GetPins,
              PruneDeletePin, Victim, PruneDeleteUpload
<1>5. CASE Failure(r)
  BY <1>5 DEF Failure, CheckFails, RegisterFails, NextOfBatch, RowFails, PruneRowFails, PruneSkipsSlab,
              NextSlab, PruneDeletePinFails, Victim, CutOff
<1>6. CASE DashboardStep(r)
  BY <1>6 DEF DashboardStep, Disconnect, PruneAccount, Dashboard
<1>7. QED
  BY <1>1, <1>2, <1>3, <1>4, <1>5, <1>6 DEF Step

(* A row once there stays there, and once gone stays gone.                 *)
RowsAge ==
  \A a \in AppAccounts, s \in Slabs :
    /\ slabRow[a][s] = "gone" => slabRow'[a][s] = "gone"
    /\ slabRow[a][s] # "none" => slabRow'[a][s] # "none"

LEMMA RowDeleted ==
  ASSUME TypeInv, NEW a \in AppAccounts, NEW s, DeleteSlabRow(a, s) PROVE RowsAge
BY DEF DeleteSlabRow, RowsAge, TypeInv, TypeOK

LEMMA StepAgesRows == ASSUME TypeInv, NEW r \in Requests, Step(r) PROVE RowsAge
<1> USE DEF db, RowsAge
<1>1. CASE RegisterSlab(r)
  BY <1>1, AboutRequest DEF RegisterSlab, TypeInv, TypeOK
<1>2. CASE DeleteSlab(r)
  BY <1>2, AboutRequest, RowDeleted DEF DeleteSlab
<1>3. CASE PruneDeleteSlab(r)
  BY <1>3, AboutRequest, RowDeleted DEF PruneDeleteSlab
<1>4. CASE UNCHANGED slabRow
  BY <1>4
<1>5. CASE BeginSome(r)
  BY <1>4, <1>5 DEF BeginSome, BeginPinSlab, BeginPinObject, BeginUnpinSlab, BeginUnpinObject, BeginPrune, Begin
<1>6. CASE PinStep(r)
  BY <1>1, <1>4, <1>6 DEF PinStep, CheckKnown, Proxy, RegisterObject, Check, SaveUpload, CreatePin
<1>7. CASE UnpinStep(r)
  BY <1>2, <1>4, <1>7 DEF UnpinStep, DeleteObject, ReadPin, DeletePin, DeleteUpload
<1>8. CASE PruneStep(r)
  BY <1>3, <1>4, <1>8 DEF PruneStep, DeleteObjects, FindOrphans, CheckInUse, GetPins, PruneDeletePin, PruneDeleteUpload
<1>9. CASE Failure(r)
  BY <1>4, <1>9 DEF Failure, CheckFails, RegisterFails, RowFails, PruneRowFails, PruneSkipsSlab,
                    PruneDeletePinFails, CutOff
<1>10. CASE DashboardStep(r)
  BY <1>4, <1>10 DEF DashboardStep, Disconnect, PruneAccount, Dashboard
<1>11. QED
  BY <1>5, <1>6, <1>7, <1>8, <1>9, <1>10 DEF Step

-----------------------------------------------------------------------------
(* The accounts a prune found sharing its slab stay in the table, and are  *)
(* gone once it has passed the check.                                      *)
Hands == {"inUse", "getPins", "deletePins", "deleteUpload"}

SharersAt(q, step) ==
  /\ q.op # "prune" \/ step \notin Hands => q.sharers = {}
  /\ \A b \in q.sharers :
       /\ b \in AppAccounts \ {q.app}
       /\ slabRow[b][q.hash] # "none"
       /\ step # "inUse" => slabRow[b][q.hash] = "gone"

SharersOK == \A r \in Requests : SharersAt(req[r], pc[r])

SharersInv == TypeInv /\ SharersOK

(* For the step of a request only its own record has to be looked at.      *)
LEMMA SharersFrame ==
  ASSUME SharersInv, NEW r \in Requests, Step(r), SharersAt(req[r], pc[r])'
  PROVE  SharersOK'
<1> SUFFICES ASSUME NEW x \in Requests PROVE SharersAt(req[x], pc[x])'
  BY DEF SharersOK
<1>1. CASE x = r
  BY <1>1
<1>2. CASE x # r
  <2>1. pc'[x] = pc[x] /\ req'[x] = req[x]
    BY <1>2, StepIsLocal DEF Others, SharersInv
  <2>2. SharersAt(req[x], pc[x]) /\ Shape(req[x], pc[x])
    BY DEF SharersInv, SharersOK, TypeInv, RequestsOK
  <2>3. req[x].sharers # {} => req[x].hash \in Slabs
    BY <2>2 DEF SharersAt, Shape, Hands
  <2>4. RowsAge
    BY StepAgesRows DEF SharersInv
  <2>5. QED
    BY <2>1, <2>2, <2>3, <2>4 DEF SharersAt, RowsAge
<1>3. QED
  BY <1>1, <1>2

(* Steps that leave the request with no sharers, or with those it had.     *)
LEMMA SharersEmpty ==
  ASSUME SharersInv, NEW r \in Requests, Step(r), req'[r].sharers = {} PROVE SharersOK'
BY SharersFrame DEF SharersAt

LEMMA SharersKept ==
  ASSUME SharersInv, NEW r \in Requests, Step(r), UNCHANGED slabRow,
         req'[r].op = req[r].op, req'[r].app = req[r].app, req'[r].hash = req[r].hash,
         req'[r].sharers = req[r].sharers,
         pc[r] # "inUse" \/ req[r].sharers = {},
         pc'[r] \in Hands \/ pc[r] \notin Hands \/ req[r].op # "prune"
  PROVE  SharersOK'
<1>1. SharersAt(req[r], pc[r])
  BY DEF SharersInv, SharersOK
<1>2. SharersAt(req[r], pc[r])'
  BY <1>1 DEF SharersAt
<1>3. QED
  BY <1>2, SharersFrame

LEMMA SharersPreserved ==
  ASSUME SharersInv, NEW r \in Requests, Step(r) PROVE SharersOK'
<1> USE DEF Goto
<1>0. /\ TypeInv /\ req[r] \in Request /\ pc \in [Requests -> Steps] /\ req \in [Requests -> Request]
      /\ SharersAt(req[r], pc[r]) /\ Shape(req[r], pc[r])
  BY DEF SharersInv, SharersOK, TypeInv, TypeOK, RequestsOK
<1>1. CASE Finish(r)
  BY <1>0, <1>1, SharersEmpty DEF Finish, Blank
<1>2. CASE NextSlab(r)
  BY <1>0, <1>1, <1>2, SharersEmpty DEF NextSlab, Request
<1>3. CASE BeginSome(r)
  <2>1. req'[r].sharers = {}
    <3> USE <1>0 DEF Begin, Blank
    <3>1. CASE BeginPinSlab(r) BY <3>1 DEF BeginPinSlab
    <3>2. CASE BeginPinObject(r) BY <3>2 DEF BeginPinObject
    <3>3. CASE BeginUnpinSlab(r) BY <3>3 DEF BeginUnpinSlab
    <3>4. CASE BeginUnpinObject(r) BY <3>4 DEF BeginUnpinObject
    <3>5. CASE BeginPrune(r) BY <3>5 DEF BeginPrune
    <3>6. QED
      BY <1>3, <3>1, <3>2, <3>3, <3>4, <3>5 DEF BeginSome
  <2>2. QED
    BY <2>1, SharersEmpty
<1>4. ASSUME pc[r] \notin Hands \/ req[r].op # "prune", req'[r].sharers = req[r].sharers
      PROVE  SharersOK'
  BY <1>0, <1>4, SharersEmpty DEF SharersAt
<1>5. CASE PinStep(r)
  BY <1>0, <1>1, <1>4, <1>5 DEF PinStep, CheckKnown, Proxy, RegisterSlab, NextOfBatch, RegisterObject,
     Check, SaveUpload, CreatePin, Hands, Request
<1>6. CASE UnpinStep(r)
  BY <1>0, <1>1, <1>4, <1>6 DEF UnpinStep, DeleteSlab, DeleteObject, ReadPin, DeletePin, DeleteUpload, Hands
<1>7. ASSUME NEW u \in Users, Victim(r, u), UNCHANGED slabRow PROVE SharersOK'
  BY <1>0, <1>7, SharersKept DEF Victim, Hands, Request
<1>8. CASE PruneStep(r)
  <2>1. CASE DeleteObjects(r)
    BY <1>0, <1>4, <2>1 DEF DeleteObjects, Hands
  <2>2. CASE FindOrphans(r)
    BY <1>0, <1>1, <1>4, <2>2 DEF FindOrphans, Hands, Request
  <2>3. CASE PruneDeleteSlab(r)
    <3>1. PICK s \in Slabs :
            /\ DeleteSlabRow(req[r].app, s)
            /\ req'[r].op = "prune" /\ req'[r].app = req[r].app /\ req'[r].hash = s
            /\ req'[r].sharers = SharersOf(req[r].app, s)
            /\ pc'[r] = "inUse"
      BY <1>0, <2>3 DEF PruneDeleteSlab, Request, Shape
    <3>2. \A b \in SharersOf(req[r].app, s) :
            b \in AppAccounts \ {req[r].app} /\ slabRow[b][s] = "live" /\ slabRow'[b][s] = "live"
      BY <1>0, <3>1 DEF SharersOf, Live, DeleteSlabRow, TypeInv, TypeOK
    <3>3. SharersAt(req[r], pc[r])'
      BY <3>1, <3>2 DEF SharersAt, Hands
    <3>4. QED
      BY <3>3, SharersFrame
  <2>4. CASE CheckInUse(r)
    <3>1. CASE StillInUse(req[r].app, req[r].hash)
      BY <1>2, <2>4, <3>1 DEF CheckInUse
    <3>2. CASE ~StillInUse(req[r].app, req[r].hash)
      <4>1. /\ pc[r] = "inUse" /\ pc'[r] = "getPins" /\ req' = req /\ slabRow' = slabRow
            /\ req[r].op = "prune" /\ req[r].hash \in Slabs
        BY <1>0, <2>4, <3>2 DEF CheckInUse, db, Shape
      <4>2. \A b \in AppAccounts \ {req[r].app} : slabRow[b][req[r].hash] # "live"
        BY <3>2 DEF StillInUse, SharersOf, Live
      <4>3. \A b \in req[r].sharers :
              b \in AppAccounts \ {req[r].app} /\ slabRow[b][req[r].hash] = "gone"
        BY <1>0, <4>1, <4>2 DEF SharersAt, TypeInv, TypeOK, RowState
      <4>4. SharersAt(req[r], pc[r])'
        BY <4>1, <4>3 DEF SharersAt, Hands
      <4>5. QED
        BY <4>4, SharersFrame
    <3>3. QED
      BY <3>1, <3>2
  <2>5. CASE GetPins(r)
    BY <1>0, <2>5, SharersKept DEF GetPins, Hands, Request, db
  <2>6. CASE PruneDeletePin(r)
    BY <1>7, <2>6 DEF PruneDeletePin, db
  <2>7. CASE PruneDeleteUpload(r)
    BY <1>2, <2>7 DEF PruneDeleteUpload
  <2>8. QED
    BY <1>8, <2>1, <2>2, <2>3, <2>4, <2>5, <2>6, <2>7 DEF PruneStep
<1>9. CASE Failure(r)
  <2>1. CASE CheckFails(r)
    BY <1>0, <1>4, <2>1 DEF CheckFails, Hands
  <2>2. CASE RegisterFails(r)
    BY <1>0, <1>4, <2>2 DEF RegisterFails, NextOfBatch, Hands, Request
  <2>3. CASE RowFails(r)
    BY <1>0, <1>4, <2>3 DEF RowFails, Hands
  <2>4. CASE PruneRowFails(r)
    BY <1>0, <1>1, <1>4, <2>4 DEF PruneRowFails, Hands, Request
  <2>5. CASE PruneSkipsSlab(r)
    BY <1>2, <2>5 DEF PruneSkipsSlab
  <2>6. CASE PruneDeletePinFails(r)
    BY <1>7, <2>6 DEF PruneDeletePinFails, db
  <2>7. CASE CutOff(r)
    BY <1>1, <2>7 DEF CutOff
  <2>8. QED
    BY <1>9, <2>1, <2>2, <2>3, <2>4, <2>5, <2>6, <2>7 DEF Failure
<1>10. CASE DashboardStep(r)
  <2>1. UNCHANGED <<slabRow, pc, req>>
    BY <1>10 DEF DashboardStep, Disconnect, PruneAccount, Dashboard, db
  <2>2. QED
    BY <1>0, <2>1, SharersFrame DEF SharersAt
<1>11. QED
  BY <1>3, <1>5, <1>6, <1>8, <1>9, <1>10 DEF Step

(* A prune that has passed the check leaves no account that shared the     *)
(* slab when it deleted its own row, and still does: for any number of     *)
(* accounts, slabs and concurrent requests, under any failure.             *)
THEOREM PrunesSpareSharers == Spec => []PruneSparesSharers
<1>1. Init => SharersInv
  BY TypeInvInit, BlankTyped DEF Init, SharersInv, SharersOK, SharersAt, Blank, Hands
<1>2. SharersInv /\ [Next]_vars => SharersInv'
  <2> SUFFICES ASSUME SharersInv, [Next]_vars PROVE SharersInv'
    OBVIOUS
  <2>1. TypeInv'
    BY TypeInvNext DEF SharersInv
  <2>2. CASE UNCHANGED vars
    BY <2>2 DEF SharersInv, SharersOK, SharersAt, TypeInv, TypeOK, RequestsOK, vars, db, portal, charges, indexd
  <2>3. CASE Next
    BY <2>1, <2>3, SharersPreserved DEF Next, Step, SharersInv
  <2>4. QED
    BY <2>1, <2>2, <2>3
<1>3. SharersInv => PruneSparesSharers
  BY DEF SharersInv, SharersOK, SharersAt, PruneSparesSharers, Live
<1>4. QED
  BY <1>1, <1>2, <1>3, PTL DEF Spec

-----------------------------------------------------------------------------
(* Every pin has its keeper.  Only two steps delete a live row and only    *)
(* one makes a pin; a step keeps the property when it leaves the pins that *)
(* nobody is excused for, and their keepers, in place.                     *)
KeeperInv == TypeInv /\ EveryPinHasKeeper

Kept(u, s) == <<u, s>> \in pins \ excused
Keeps(r, u, s) == Pruning(r, s) \/ Removing(r, u, s)

LEMMA KeeperFrame ==
  ASSUME KeeperInv, NEW r \in Requests, Step(r),
         \A u \in Users, s \in Slabs : Kept(u, s)' =>
           /\ Kept(u, s) \/ InUse(s)'
           /\ InUse(s) => InUse(s)' \/ Keeps(r, u, s)'
           /\ Keeps(r, u, s) => InUse(s)' \/ Keeps(r, u, s)'
  PROVE  EveryPinHasKeeper'
<1> SUFFICES ASSUME NEW u \in Users, NEW s \in Slabs, Kept(u, s)'
             PROVE  InUse(s)' \/ \E x \in Requests : Keeps(x, u, s)'
  BY DEF EveryPinHasKeeper, Kept, Keeps
<1>1. CASE InUse(s)
  BY <1>1
<1>2. CASE ~InUse(s) /\ ~InUse(s)'
  <2>1. PICK x \in Requests : Keeps(x, u, s)
    BY <1>2 DEF KeeperInv, EveryPinHasKeeper, Kept, Keeps
  <2>2. CASE x = r
    BY <1>2, <2>1, <2>2
  <2>3. CASE x # r
    <3>1. pc'[x] = pc[x] /\ req'[x] = req[x]
      BY <2>3, StepIsLocal DEF Others, KeeperInv
    <3>2. Keeps(x, u, s)'
      BY <2>1, <3>1 DEF Keeps, Pruning, Removing
    <3>3. QED
      BY <3>2
  <2>4. QED
    BY <2>2, <2>3
<1>3. QED
  BY <1>1, <1>2

(* A step of a request that is not a prune with a slab in hand, and leaves *)
(* the slabs' rows and the pins alone, or adds to the rows.                *)
LEMMA KeeperIdle ==
  ASSUME KeeperInv, NEW r \in Requests, Step(r),
         pc[r] \notin {"inUse", "getPins", "deletePins"},
         \A s \in Slabs : InUse(s) => InUse(s)',
         \A u \in Users, s \in Slabs : Kept(u, s)' => Kept(u, s)
  PROVE  EveryPinHasKeeper'
<1>1. \A u \in Users, s \in Slabs : ~Keeps(r, u, s)
  BY DEF Keeps, Pruning, Removing
<1>2. QED
  BY <1>1, KeeperFrame

LEMMA KeeperSame ==
  ASSUME KeeperInv, NEW r \in Requests, Step(r),
         pc[r] \notin {"inUse", "getPins", "deletePins"},
         UNCHANGED <<slabRow, apps>>, pins' \ excused' \subseteq pins \ excused
  PROVE  EveryPinHasKeeper'
<1>1. \A s \in Slabs : InUse(s) => InUse(s)'
  BY DEF InUse, Live
<1>2. \A u \in Users, s \in Slabs : Kept(u, s)' => Kept(u, s)
  BY DEF Kept
<1>3. QED
  BY <1>1, <1>2, KeeperIdle

(* The last live row is deleted.                                           *)
LEMMA LastRow ==
  ASSUME TypeInv, NEW a \in AppAccounts, NEW s \in Slabs, DeleteSlabRow(a, s), UNCHANGED apps
  PROVE  /\ \A x \in Slabs \ {s} : InUse(x) => InUse(x)'
         /\ InUse(s) => InUse(s)' \/ LastUser(a, s)
BY DEF DeleteSlabRow, InUse, LastUser, Live, TypeInv, TypeOK

LEMMA KeeperPin == ASSUME KeeperInv, NEW r \in Requests, PinStep(r) PROVE EveryPinHasKeeper'
<1> USE DEF db, portal, charges, indexd
<1>0. Step(r) /\ TypeInv
  BY DEF Step, KeeperInv
<1>1. CASE RegisterSlab(r)
  <2>1. PICK s \in Slabs :
          apps' = apps /\ slabRow' = [slabRow EXCEPT ![req[r].app][s] = IF @ = "none" THEN "live" ELSE @]
    BY <1>1 DEF RegisterSlab
  <2>2. \A x \in Slabs : InUse(x) => InUse(x)'
    BY <1>0, <2>1, AboutRequest DEF InUse, Live, TypeInv, TypeOK
  <2>3. QED
    BY <1>0, <1>1, <2>2, KeeperIdle DEF RegisterSlab, NextOfBatch, Kept
<1>2. CASE CreatePin(r)
  <2>1. /\ pc[r] = "pin" /\ UNCHANGED <<slabRow, apps>>
        /\ \/ pins' = pins /\ excused' = excused
           \/ /\ pins' = pins \cup {Mine(r)}
              /\ excused' = IF req[r].hash \in Slabs /\ ~InUse(req[r].hash)
                            THEN excused \cup {Mine(r)} ELSE excused
    BY <1>2 DEF CreatePin
  <2>2. \A u \in Users, s \in Slabs : ~Keeps(r, u, s) /\ InUse(s)' = InUse(s)
    BY <2>1 DEF Keeps, Pruning, Removing, InUse, Live
  <2>3. \A u \in Users, s \in Slabs : Kept(u, s)' => Kept(u, s) \/ InUse(s)
    BY <2>1 DEF Kept, Mine
  <2>4. QED
    BY <1>0, <2>2, <2>3, KeeperFrame
<1>3. QED
  BY <1>0, <1>1, <1>2, KeeperSame DEF PinStep, CheckKnown, Proxy, RegisterObject, Check, SaveUpload, NoFault

LEMMA KeeperUnpin == ASSUME KeeperInv, NEW r \in Requests, UnpinStep(r) PROVE EveryPinHasKeeper'
<1> USE DEF db, portal, charges, indexd
<1>0. Step(r) /\ TypeInv
  BY DEF Step, KeeperInv
<1>1. CASE DeleteSlab(r)
  <2> DEFINE a == req[r].app
             s == req[r].hash
  <2>1. a \in AppAccounts /\ s \in Slabs
    BY <1>0, <1>1, AboutRequest DEF DeleteSlab, Shape, SlabOps
  <2>2. /\ pc[r] = "row" /\ pins' = pins /\ DeleteSlabRow(a, s) /\ excused \subseteq excused'
        /\ LastUser(a, s) => PinsOf(s) \subseteq excused'
        /\ apps' = apps
    BY <1>1 DEF DeleteSlab
  <2>3. \A u \in Users, x \in Slabs : ~Keeps(r, u, x) /\ (Kept(u, x)' => Kept(u, x))
    BY <2>2 DEF Keeps, Pruning, Removing, Kept
  <2>4. ASSUME NEW u \in Users, NEW x \in Slabs, Kept(u, x)', InUse(x) PROVE InUse(x)'
    <3>1. CASE x = s /\ LastUser(a, s)
      BY <2>2, <2>4, <3>1 DEF Kept, PinsOf
    <3>2. QED
      BY <1>0, <2>1, <2>2, <2>4, <3>1, LastRow
  <2>5. QED
    BY <1>0, <2>3, <2>4, KeeperFrame
<1>2. CASE DeletePin(r)
  BY <1>0, <1>2, KeeperSame DEF DeletePin, Unpin
<1>3. QED
  BY <1>0, <1>1, <1>2, KeeperSame DEF UnpinStep, DeleteObject, ReadPin, DeleteUpload, NoFault

LEMMA KeeperVictim ==
  ASSUME KeeperInv, NEW r \in Requests, Step(r), NEW u \in Users, Victim(r, u), UNCHANGED <<slabRow, apps>>,
         pins' \ excused' \subseteq (pins \ excused) \ {<<u, req[r].hash>>}
  PROVE  EveryPinHasKeeper'
<1>0. /\ TypeInv /\ pc[r] = "deletePins" /\ req'[r].hash = req[r].hash
      /\ req'[r].victims = req[r].victims \ {u}
      /\ pc'[r] = IF req[r].victims = {u} THEN "deleteUpload" ELSE "deletePins"
  BY DEF Victim, Goto, KeeperInv, TypeInv, TypeOK, Request
<1>1. ASSUME NEW v \in Users, NEW s \in Slabs, Kept(v, s)', Keeps(r, v, s) PROVE Keeps(r, v, s)'
  <2>1. req[r].hash = s /\ v \in req[r].victims /\ v # u
    BY <1>0, <1>1 DEF Keeps, Pruning, Removing, Kept
  <2>2. QED
    BY <1>0, <2>1 DEF Keeps, Removing
<1>2. \A s \in Slabs : InUse(s)' = InUse(s)
  BY DEF InUse, Live
<1>3. QED
  BY <1>1, <1>2, KeeperFrame DEF Kept

LEMMA KeeperPrune == ASSUME KeeperInv, NEW r \in Requests, PruneStep(r) PROVE EveryPinHasKeeper'
<1> USE DEF db, portal, charges, indexd
<1>0. /\ Step(r) /\ TypeInv /\ req[r] \in Request /\ req[r].app \in AppAccounts
      /\ req[r].slabs \subseteq Slabs /\ pc \in [Requests -> Steps] /\ req \in [Requests -> Request]
  BY AboutRequest DEF Step, KeeperInv, TypeInv, TypeOK
<1>1. CASE PruneDeleteSlab(r)
  <2>1. PICK s \in Slabs : DeleteSlabRow(req[r].app, s) /\ req'[r].hash = s
    BY <1>0, <1>1 DEF PruneDeleteSlab, Request
  <2>2. /\ pc[r] = "loop" /\ pc'[r] = "inUse" /\ pins' = pins /\ excused' = excused
        /\ apps' = apps
    BY <1>0, <1>1 DEF PruneDeleteSlab, Goto
  <2>3. \A u \in Users : Keeps(r, u, s)'
    BY <2>1, <2>2 DEF Keeps, Pruning
  <2>4. \A x \in Slabs \ {s} : InUse(x) => InUse(x)'
    BY <1>0, <2>1, <2>2, LastRow
  <2>5. \A u \in Users, x \in Slabs : ~Keeps(r, u, x) /\ (Kept(u, x)' => Kept(u, x))
    BY <2>2 DEF Keeps, Pruning, Removing, Kept
  <2>6. QED
    BY <1>0, <2>3, <2>4, <2>5, KeeperFrame
<1>2. CASE CheckInUse(r)
  <2>1. /\ UNCHANGED <<slabRow, apps, pins>> /\ pc[r] = "inUse" /\ req[r].hash \in Slabs
        /\ excused \subseteq excused'
        /\ OnlyLeftovers(req[r].app, req[r].hash) => PinsOf(req[r].hash) \subseteq excused'
    BY <1>0, <1>2, AboutRequest DEF CheckInUse, Shape
  <2>2. \A u \in Users, s \in Slabs : (InUse(s)' = InUse(s)) /\ (Kept(u, s)' => Kept(u, s))
    BY <2>1 DEF InUse, Live, Kept
  <2>3. ASSUME NEW u \in Users, NEW s \in Slabs, Keeps(r, u, s), Kept(u, s)'
        PROVE  InUse(s) \/ Keeps(r, u, s)'
    <3>1. req[r].hash = s
      BY <2>1, <2>3 DEF Keeps, Pruning, Removing
    <3>2. CASE StillInUse(req[r].app, s)
      <4>1. ~OnlyLeftovers(req[r].app, s)
        BY <2>1, <2>3, <3>1 DEF Kept, PinsOf
      <4>2. QED
        BY <3>2, <4>1 DEF OnlyLeftovers, StillInUse, SharersOf, InUse
    <3>3. CASE ~StillInUse(req[r].app, req[r].hash)
      BY <1>0, <1>2, <3>1, <3>3 DEF CheckInUse, Goto, Keeps, Pruning
    <3>4. QED
      BY <3>1, <3>2, <3>3
  <2>4. QED
    BY <1>0, <2>2, <2>3, KeeperFrame
<1>3. CASE GetPins(r)
  <2>1. /\ UNCHANGED <<slabRow, apps, pins, excused>> /\ pc[r] = "getPins"
        /\ req'[r].hash = req[r].hash
        /\ req'[r].victims = {p[1] : p \in PinsOf(req[r].hash)}
        /\ req'[r].victims # {} => pc'[r] = "deletePins"
    BY <1>0, <1>3 DEF GetPins, Goto, Request
  <2>2. \A u \in Users, s \in Slabs : (InUse(s)' = InUse(s)) /\ (Kept(u, s)' = Kept(u, s))
    BY <2>1 DEF InUse, Live, Kept
  <2>3. ASSUME NEW u \in Users, NEW s \in Slabs, Kept(u, s), Keeps(r, u, s) PROVE Keeps(r, u, s)'
    <3>1. req[r].hash = s
      BY <2>1, <2>3 DEF Keeps, Pruning, Removing
    <3>2. <<u, s>> \in PinsOf(s)
      BY <2>3 DEF Kept, PinsOf
    <3>3. u \in req'[r].victims
      BY <2>1, <3>1, <3>2
    <3>4. QED
      BY <2>1, <3>1, <3>3 DEF Keeps, Removing
  <2>4. QED
    BY <1>0, <2>2, <2>3, KeeperFrame
<1>4. CASE PruneDeletePin(r)
  <2>1. PICK u \in Users : Victim(r, u) /\ Unpin({<<u, req[r].hash>>}) /\ UNCHANGED <<slabRow, apps>>
    BY <1>4 DEF PruneDeletePin
  <2>2. QED
    BY <1>0, <2>1, KeeperVictim DEF Unpin
<1>5. QED
  BY <1>0, <1>1, <1>2, <1>3, <1>4, KeeperSame DEF PruneStep, DeleteObjects, FindOrphans, PruneDeleteUpload

LEMMA KeeperFailure == ASSUME KeeperInv, NEW r \in Requests, Failure(r) PROVE EveryPinHasKeeper'
<1> USE DEF db, portal, charges, indexd
<1>0. Step(r) /\ TypeInv
  BY DEF Step, KeeperInv
<1>1. ASSUME Forsake(r), UNCHANGED <<slabRow, apps, pins>> PROVE EveryPinHasKeeper'
  <2>0. Shape(req[r], pc[r])
    BY <1>0, AboutRequest
  <2>1. excused \subseteq excused'
    BY <1>1 DEF Forsake
  <2>2. ASSUME NEW u \in Users, NEW s \in Slabs, Keeps(r, u, s) PROVE ~Kept(u, s)'
    <3>1. pc[r] \in {"inUse", "getPins", "deletePins"} /\ req[r].hash = s
      BY <2>2 DEF Keeps, Pruning, Removing
    <3>2. PinsOf(s) \subseteq excused'
      BY <1>1, <2>0, <3>1 DEF Forsake, Shape
    <3>3. QED
      BY <1>1, <3>2 DEF Kept, PinsOf
  <2>3. \A u \in Users, s \in Slabs : (InUse(s)' = InUse(s)) /\ (Kept(u, s)' => Kept(u, s))
    BY <1>1, <2>1 DEF InUse, Live, Kept
  <2>4. QED
    BY <1>0, <2>2, <2>3, KeeperFrame
<1>2. CASE PruneDeletePinFails(r)
  <2>1. PICK u \in Users : Victim(r, u) /\
          excused' = excused \cup (PinsOf(req[r].hash) \cap {<<u, req[r].hash>>})
    BY <1>2 DEF PruneDeletePinFails
  <2>2. UNCHANGED <<slabRow, apps, pins>>
    BY <1>2 DEF PruneDeletePinFails
  <2>3. pins' \ excused' \subseteq (pins \ excused) \ {<<u, req[r].hash>>}
    BY <2>1, <2>2 DEF PinsOf
  <2>4. QED
    BY <1>0, <2>1, <2>2, <2>3, KeeperVictim
<1>3. CASE CheckFails(r) \/ RegisterFails(r) \/ RowFails(r) \/ PruneRowFails(r)
  BY <1>0, <1>3, KeeperSame DEF CheckFails, RegisterFails, NextOfBatch, RowFails, PruneRowFails
<1>4. QED
  BY <1>1, <1>2, <1>3 DEF Failure, PruneSkipsSlab, CutOff

LEMMA KeeperBegin == ASSUME KeeperInv, NEW r \in Requests, BeginSome(r) PROVE EveryPinHasKeeper'
<1>1. Step(r)
  BY DEF Step
<1>2. pc[r] = "idle" /\ UNCHANGED <<slabRow, apps, pins, excused>>
  BY DEF BeginSome, BeginPinSlab, BeginPinObject, BeginUnpinSlab, BeginUnpinObject, BeginPrune,
         Begin, db, portal, charges, indexd
<1>3. QED
  BY <1>1, <1>2, KeeperSame

(* A disconnected account takes the pins only it led to out of account.    *)
LEMMA KeeperDashboard ==
  ASSUME KeeperInv, NEW r \in Requests, DashboardStep(r) PROVE EveryPinHasKeeper'
<1>0. Step(r) /\ pc[r] = "idle" /\ UNCHANGED <<slabRow, pins, pc, req>>
  BY DEF Step, DashboardStep, Disconnect, PruneAccount, Dashboard, db, portal, charges
<1>1. CASE Disconnect(r)
  <2>1. PICK a \in apps :
          /\ apps' = apps \ {a}
          /\ excused' = excused \cup {p \in pins : p[2] \in Slabs /\ LastUser(a, p[2])}
    BY <1>1 DEF Disconnect
  <2>2. \A u \in Users, s \in Slabs : ~Keeps(r, u, s) /\ (Kept(u, s)' => Kept(u, s))
    BY <1>0, <2>1 DEF Keeps, Pruning, Removing, Kept
  <2>3. ASSUME NEW u \in Users, NEW s \in Slabs, Kept(u, s)', InUse(s) PROVE InUse(s)'
    <3>1. ~LastUser(a, s)
      BY <1>0, <2>1, <2>3 DEF Kept
    <3>2. QED
      BY <1>0, <2>1, <2>3, <3>1 DEF InUse, LastUser, Live
  <2>4. QED
    BY <1>0, <2>2, <2>3, KeeperFrame
<1>2. CASE PruneAccount(r)
  BY <1>0, <1>2, KeeperSame DEF PruneAccount
<1>3. QED
  BY <1>1, <1>2 DEF DashboardStep

(* Prunes of accounts that share a slab never leave its pins to each       *)
(* other, however many run at once and whatever fails.                     *)
THEOREM PinsHaveKeepers == Spec => []EveryPinHasKeeper
<1>1. Init => KeeperInv
  BY TypeInvInit DEF KeeperInv, Init, EveryPinHasKeeper
<1>2. KeeperInv /\ [Next]_vars => KeeperInv'
  <2> SUFFICES ASSUME KeeperInv, [Next]_vars PROVE KeeperInv'
    OBVIOUS
  <2>1. TypeInv'
    BY TypeInvNext DEF KeeperInv
  <2>2. CASE UNCHANGED vars
    BY <2>1, <2>2 DEF KeeperInv, EveryPinHasKeeper, InUse, Live, Pruning, Removing, vars, db, portal, charges, indexd
  <2>3. CASE Next
    BY <2>1, <2>3, KeeperBegin, KeeperDashboard, KeeperPin, KeeperUnpin, KeeperPrune, KeeperFailure DEF Next, KeeperInv
  <2>4. QED
    BY <2>2, <2>3
<1>3. KeeperInv => EveryPinHasKeeper
  BY DEF KeeperInv
<1>4. QED
  BY <1>1, <1>2, <1>3, PTL DEF Spec

-----------------------------------------------------------------------------
(* The storage charged.  With one request at a time and no failure, a user *)
(* is charged for the slabs pinned, and for the one whose pin an unpin in  *)
(* progress has deleted and whose event it still owes.                     *)
OneRequest == \E r : Requests = {r}

One(b) == IF b THEN 1 ELSE 0

OwedBy(r, u, s) ==
  pc[r] = "deleteUpload" /\ req[r].op = "unpinSlab" /\ req[r].hash = s /\ Me(r) = u

Charged(r) ==
  \A u \in Users, s \in Slabs : usage[u][s] = One(<<u, s>> \in pins) + One(OwedBy(r, u, s))

(* What a request knows of the pins and uploads nobody else can touch.     *)
Holds(r) ==
  /\ pc[r] = "deletePin" => Mine(r) \in pins /\ req[r].hash \in uploads
  /\ pc[r] = "deletePins" => \A u \in req[r].victims : <<u, req[r].hash>> \in pins
  /\ pc[r] = "deleteUpload" => req[r].op \in {"unpinSlab", "unpinObject", "prune"}
  /\ pc[r] = "deleteUpload" /\ req[r].op = "unpinSlab" => req[r].hash \in uploads

UsageInv == TypeInv /\ faults = 0 /\ \A r \in Requests : Charged(r) /\ Holds(r)

HandsFull == {"deletePin", "deletePins", "deleteUpload"}

LEMMA UsageFrame ==
  ASSUME UsageInv, NEW r \in Requests, UNCHANGED <<pins, usage>>,
         pc[r] # "deleteUpload" \/ req[r].op = "prune",
         pc'[r] \notin HandsFull
  PROVE  Charged(r)' /\ Holds(r)'
BY DEF UsageInv, Charged, Holds, OwedBy, HandsFull, One

LEMMA UsagePin ==
  ASSUME UsageInv, NEW r \in Requests, PinStep(r) PROVE Charged(r)' /\ Holds(r)'
<1> USE DEF portal, charges, Goto, Finish, HandsFull
<1>0. /\ TypeInv /\ pc \in [Requests -> Steps] /\ Charged(r) /\ req[r] \in Request /\ Me(r) \in Users
      /\ Shape(req[r], pc[r])
  BY AboutRequest DEF UsageInv, TypeInv, TypeOK
<1>1. CASE CreatePin(r)
  <2>1. pc[r] = "pin" /\ pc'[r] = "idle"
    BY <1>0, <1>1 DEF CreatePin
  <2>2. CASE Mine(r) \in pins
    BY <1>1, <2>1, <2>2, UsageFrame DEF CreatePin
  <2>3. CASE Mine(r) \notin pins
    <3>1. pins' = pins \cup {Mine(r)} /\ EmitMine(r, 1)
      BY <1>1, <2>3 DEF CreatePin
    <3>2. ASSUME NEW u \in Users, NEW s \in Slabs
          PROVE  usage'[u][s] = One(<<u, s>> \in pins') + One(OwedBy(r, u, s)')
      <4>1. usage[u][s] = One(<<u, s>> \in pins) /\ usage[u][s] \in Int
        BY <1>0, <2>1 DEF Charged, OwedBy, One, TypeInv, TypeOK
      <4>2. OwedBy(r, u, s)' = FALSE
        BY <2>1 DEF OwedBy
      <4>3. CASE Mine(r) = <<u, s>>
        <5>1. req[r].hash = s /\ Me(r) = u
          BY <4>3 DEF Mine
        <5>2. usage'[u][s] = usage[u][s] + 1
          BY <1>0, <3>1, <5>1 DEF EmitMine, Emit, TypeInv, TypeOK
        <5>3. QED
          BY <2>3, <3>1, <4>1, <4>2, <4>3, <5>2 DEF One
      <4>4. CASE Mine(r) # <<u, s>>
        <5>1. usage'[u][s] = usage[u][s]
          BY <1>0, <3>1, <4>4 DEF EmitMine, Emit, Mine, TypeInv, TypeOK
        <5>2. (<<u, s>> \in pins') = (<<u, s>> \in pins)
          BY <3>1, <4>4
        <5>3. QED
          BY <4>1, <4>2, <5>1, <5>2 DEF One
      <4>5. QED
        BY <4>3, <4>4
    <3>3. QED
      BY <2>1, <3>2 DEF Charged, Holds, OwedBy
  <2>4. QED
    BY <2>2, <2>3
<1>2. QED
  BY <1>0, <1>1, UsageFrame
  DEF PinStep, CheckKnown, Proxy, RegisterSlab, NextOfBatch, RegisterObject, Check, SaveUpload

LEMMA UsageUnpin ==
  ASSUME UsageInv, NEW r \in Requests, UnpinStep(r) PROVE Charged(r)' /\ Holds(r)'
<1> USE DEF portal, charges, Goto, Finish, HandsFull
<1>0. /\ TypeInv /\ pc \in [Requests -> Steps] /\ Charged(r) /\ Holds(r)
      /\ req[r] \in Request /\ Me(r) \in Users /\ Shape(req[r], pc[r])
  BY AboutRequest DEF UsageInv, TypeInv, TypeOK
<1>1. CASE DeleteSlab(r) \/ DeleteObject(r)
  BY <1>0, <1>1, UsageFrame DEF DeleteSlab, DeleteObject
<1>2. CASE ReadPin(r)
  <2>1. CASE Mine(r) \in pins /\ req[r].hash \in uploads
    <3>1. /\ pc[r] = "readPin" /\ pc'[r] = "deletePin"
          /\ UNCHANGED <<req, pins, uploads, usage>>
      BY <1>0, <1>2, <2>1 DEF ReadPin
    <3>2. Holds(r)'
      BY <2>1, <3>1 DEF Holds, Mine, Me
    <3>3. QED
      BY <1>0, <3>1, <3>2 DEF Charged, OwedBy, One
  <2>2. CASE ~(Mine(r) \in pins /\ req[r].hash \in uploads)
    BY <1>0, <1>2, <2>2, UsageFrame DEF ReadPin
  <2>3. QED
    BY <2>1, <2>2
<1>3. CASE DeletePin(r)
  <2>1. /\ pc[r] = "deletePin" /\ Mine(r) \in pins /\ req[r].hash \in uploads
        /\ req[r].op \in {"unpinSlab", "unpinObject"}
    BY <1>0, <1>3 DEF DeletePin, Holds, Shape
  <2>2. /\ pc'[r] = "deleteUpload" /\ pins' = pins \ {Mine(r)}
        /\ UNCHANGED <<req, uploads, usage>>
    BY <1>0, <1>3, <2>1 DEF DeletePin, Unpin
  <2>3. Holds(r)'
    BY <2>1, <2>2 DEF Holds
  <2>4. ASSUME NEW u \in Users, NEW s \in Slabs
        PROVE  usage'[u][s] = One(<<u, s>> \in pins') + One(OwedBy(r, u, s)')
    <3>1. usage'[u][s] = One(<<u, s>> \in pins)
      BY <1>0, <2>1, <2>2 DEF Charged, OwedBy, One
    <3>2. CASE Mine(r) = <<u, s>>
      <4>1. req[r].hash = s /\ Me(r) = u
        BY <3>2 DEF Mine
      <4>2. req[r].op = "unpinSlab"
        BY <1>0, <2>1, <4>1, SlabRegistryAssumption DEF Shape, ObjectOps
      <4>3. OwedBy(r, u, s)'
        BY <2>2, <4>1, <4>2 DEF OwedBy, Me
      <4>4. QED
        BY <2>1, <2>2, <3>1, <3>2, <4>3 DEF One
    <3>3. CASE Mine(r) # <<u, s>>
      <4>1. ~OwedBy(r, u, s)'
        BY <2>2, <3>3 DEF OwedBy, Mine, Me
      <4>2. (<<u, s>> \in pins') = (<<u, s>> \in pins)
        BY <2>2, <3>3
      <4>3. QED
        BY <3>1, <4>1, <4>2 DEF One
    <3>4. QED
      BY <3>2, <3>3
  <2>5. QED
    BY <2>3, <2>4 DEF Charged
<1>4. CASE DeleteUpload(r)
  <2>1. /\ pc[r] = "deleteUpload" /\ req[r].op # "prune" /\ pc'[r] = "idle" /\ pins' = pins
        /\ IF req[r].hash \in uploads THEN EmitMine(r, -1) ELSE UNCHANGED usage
    BY <1>0, <1>4 DEF DeleteUpload
  <2>2. ASSUME NEW u \in Users, NEW s \in Slabs
        PROVE  usage'[u][s] = One(<<u, s>> \in pins)
    <3>1. usage[u][s] = One(<<u, s>> \in pins) + One(OwedBy(r, u, s)) /\ usage[u][s] \in Int
      BY <1>0 DEF Charged, TypeInv, TypeOK
    <3>2. CASE req[r].op = "unpinSlab"
      <4>1. req[r].hash \in Slabs /\ req[r].hash \in uploads
        BY <1>0, <2>1, <3>2 DEF Shape, SlabOps, Holds
      <4>2. usage' = [usage EXCEPT ![Me(r)][req[r].hash] = @ + (-1)]
        BY <2>1, <4>1 DEF EmitMine, Emit
      <4>3. CASE u = Me(r) /\ s = req[r].hash
        <5>1. OwedBy(r, u, s)
          BY <2>1, <3>2, <4>3 DEF OwedBy
        <5>2. usage'[u][s] = usage[u][s] - 1
          BY <1>0, <4>2, <4>3 DEF TypeInv, TypeOK
        <5>3. QED
          BY <3>1, <5>1, <5>2 DEF One
      <4>4. CASE ~(u = Me(r) /\ s = req[r].hash)
        <5>1. ~OwedBy(r, u, s)
          BY <4>4 DEF OwedBy
        <5>2. usage'[u][s] = usage[u][s]
          BY <1>0, <4>1, <4>2, <4>4 DEF TypeInv, TypeOK
        <5>3. QED
          BY <3>1, <5>1, <5>2 DEF One
      <4>5. QED
        BY <4>3, <4>4
    <3>3. CASE req[r].op # "unpinSlab"
      <4>1. req[r].op = "unpinObject" /\ req[r].hash \notin Slabs
        BY <1>0, <2>1, <3>3, SlabRegistryAssumption DEF Holds, Shape, ObjectOps
      <4>2. QED
        BY <2>1, <3>1, <4>1 DEF EmitMine, OwedBy, One
    <3>4. QED
      BY <3>2, <3>3
  <2>3. QED
    BY <2>1, <2>2 DEF Charged, Holds, OwedBy, One
<1>5. QED
  BY <1>1, <1>2, <1>3, <1>4 DEF UnpinStep

LEMMA UsagePrune ==
  ASSUME UsageInv, NEW r \in Requests, PruneStep(r) PROVE Charged(r)' /\ Holds(r)'
<1> USE DEF portal, charges, Goto, HandsFull
<1>0. /\ TypeInv /\ pc \in [Requests -> Steps] /\ req \in [Requests -> Request]
      /\ Charged(r) /\ Holds(r) /\ req[r] \in Request /\ Shape(req[r], pc[r])
  BY AboutRequest DEF UsageInv, TypeInv, TypeOK
<1>1. CASE DeleteObjects(r) \/ FindOrphans(r) \/ PruneDeleteSlab(r)
  BY <1>0, <1>1, UsageFrame DEF DeleteObjects, FindOrphans, PruneDeleteSlab, Finish
<1>2. CASE CheckInUse(r) \/ PruneDeleteUpload(r)
  BY <1>0, <1>2, UsageFrame DEF CheckInUse, PruneDeleteUpload, NextSlab, Finish
<1>3. CASE GetPins(r)
  <2> DEFINE owners == {p[1] : p \in PinsOf(req[r].hash)}
  <2>0. /\ pc[r] = "getPins" /\ UNCHANGED <<pins, usage>>
        /\ req' = [req EXCEPT ![r].victims = owners]
        /\ pc' = [pc EXCEPT ![r] = IF owners = {} THEN "deleteUpload" ELSE "deletePins"]
    BY <1>3 DEF GetPins
  <2>2. ASSUME NEW u \in owners PROVE <<u, req[r].hash>> \in pins
    <3>1. PICK p \in pins : p[2] = req[r].hash /\ u = p[1]
      BY DEF PinsOf
    <3>2. p = <<p[1], p[2]>>
      BY <1>0 DEF TypeInv, TypeOK
    <3>3. QED
      BY <3>1, <3>2
  <2> HIDE DEF owners
  <2>1. req[r].op = "prune" /\ pc'[r] \in {"deleteUpload", "deletePins"}
    BY <1>0, <2>0 DEF Shape
  <2>3. /\ req'[r].op = "prune" /\ req'[r].victims = owners /\ req'[r].hash = req[r].hash
    BY <1>0, <2>0, <2>1 DEF Request
  <2>4. Holds(r)'
    BY <2>0, <2>1, <2>2, <2>3 DEF Holds
  <2>5. QED
    BY <1>0, <2>0, <2>3, <2>4 DEF Charged, OwedBy, One
<1>4. CASE PruneDeletePin(r)
  <2>1. PICK u \in Users : Victim(r, u) /\ Unpin({<<u, req[r].hash>>})
    BY <1>4 DEF PruneDeletePin
  <2>2. /\ pc[r] = "deletePins" /\ u \in req[r].victims /\ <<u, req[r].hash>> \in pins
        /\ req[r].op = "prune" /\ req[r].hash \in Slabs
        /\ pins' = pins \ {<<u, req[r].hash>>}
    BY <1>0, <2>1 DEF Victim, Holds, Shape, Unpin
  <2>3. /\ req'[r].op = "prune" /\ req'[r].hash = req[r].hash
        /\ req'[r].victims = req[r].victims \ {u}
        /\ pc'[r] \in {"deleteUpload", "deletePins"}
    BY <1>0, <2>1, <2>2 DEF Victim, Request
  <2>4. Holds(r)'
    BY <1>0, <2>2, <2>3 DEF Holds
  <2>5. ASSUME NEW v \in Users, NEW s \in Slabs
        PROVE  usage'[v][s] = One(<<v, s>> \in pins')
    <3>1. usage[v][s] = One(<<v, s>> \in pins) /\ usage[v][s] \in Int
      BY <1>0, <2>2 DEF Charged, OwedBy, One, TypeInv, TypeOK
    <3>2. usage' = [usage EXCEPT ![u][req[r].hash] = @ + (-1)]
      BY <2>1 DEF Victim, Emit
    <3>3. CASE v = u /\ s = req[r].hash
      <4>1. usage'[v][s] = usage[v][s] - 1
        BY <1>0, <3>2, <3>3 DEF TypeInv, TypeOK
      <4>2. QED
        BY <2>2, <3>1, <3>3, <4>1 DEF One
    <3>4. CASE ~(v = u /\ s = req[r].hash)
      <4>1. usage'[v][s] = usage[v][s]
        BY <1>0, <2>2, <3>2, <3>4 DEF TypeInv, TypeOK
      <4>2. (<<v, s>> \in pins') = (<<v, s>> \in pins)
        BY <2>2, <3>4
      <4>3. QED
        BY <3>1, <4>1, <4>2
    <3>5. QED
      BY <3>3, <3>4
  <2>6. QED
    BY <2>3, <2>4, <2>5 DEF Charged, OwedBy, One
<1>5. QED
  BY <1>1, <1>2, <1>3, <1>4 DEF PruneStep

LEMMA UsageBegin ==
  ASSUME UsageInv, NEW r \in Requests, BeginSome(r) \/ DashboardStep(r)
  PROVE  Charged(r)' /\ Holds(r)'
<1>1. pc \in [Requests -> Steps]
  BY DEF UsageInv, TypeInv, TypeOK
<1>2. /\ pc[r] = "idle" /\ UNCHANGED <<pins, usage>>
      /\ pc'[r] \in {"register", "known", "row", "objects", "idle"}
  BY <1>1 DEF BeginSome, BeginPinSlab, BeginPinObject, BeginUnpinSlab, BeginUnpinObject, BeginPrune,
              Begin, Goto, DashboardStep, Disconnect, PruneAccount, Dashboard, portal, charges
<1>3. QED
  BY <1>2, UsageFrame DEF HandsFull

(* While requests come one at a time and no call fails, every user is      *)
(* charged for exactly the slabs pinned, however many users, accounts,     *)
(* batches, prunes and disconnections there are.                           *)
THEOREM ChargedForPins ==
  ASSUME OneRequest, MaxFaults = 0
  PROVE  Spec => []UsageMatchesPins
<1>1. Init => UsageInv
  BY TypeInvInit DEF UsageInv, Init, Charged, Holds, OwedBy, One
<1>2. UsageInv /\ [Next]_vars => UsageInv'
  <2> SUFFICES ASSUME UsageInv, [Next]_vars PROVE UsageInv'
    OBVIOUS
  <2>1. TypeInv'
    BY TypeInvNext DEF UsageInv
  <2>2. faults' = 0
    BY <2>1, SlabRegistryAssumption DEF TypeInv, TypeOK
  <2>3. CASE UNCHANGED vars
    BY <2>1, <2>2, <2>3
    DEF UsageInv, Charged, Holds, OwedBy, One, Mine, Me, vars, portal, charges, db, indexd
  <2>4. CASE Next
    <3>1. PICK r \in Requests :
            \/ BeginSome(r) \/ DashboardStep(r)
            \/ PinStep(r) \/ UnpinStep(r) \/ PruneStep(r)
            \/ Failure(r)
      BY <2>4 DEF Next
    <3>2. ~Failure(r)
      BY DEF Failure, CheckFails, RegisterFails, RowFails, PruneRowFails, PruneSkipsSlab,
             PruneDeletePinFails, CutOff, Fault, UsageInv
    <3>3. Charged(r)' /\ Holds(r)'
      BY <3>1, <3>2, UsageBegin, UsagePin, UsageUnpin, UsagePrune
    <3>4. QED
      BY <2>1, <2>2, <3>3 DEF OneRequest, UsageInv
  <2>5. QED
    BY <2>3, <2>4
<1>3. UsageInv => UsageMatchesPins
  <2> SUFFICES ASSUME UsageInv, Quiet, NEW u \in Users, NEW s \in Slabs
               PROVE  usage[u][s] = IF <<u, s>> \in pins THEN 1 ELSE 0
    BY DEF UsageMatchesPins
  <2>1. PICK r : Requests = {r}
    BY DEF OneRequest
  <2>2. Charged(r) /\ pc[r] = "idle"
    BY <2>1 DEF UsageInv, Quiet
  <2>3. QED
    BY <2>2 DEF Charged, OwedBy, One
<1>4. QED
  BY <1>1, <1>2, <1>3, PTL DEF Spec

-----------------------------------------------------------------------------
(* The storage charged, however requests overlap and fail: what is charged *)
(* is what is pinned, but for the unpins between pin and event, and for    *)
(* what missed and surplus count.                                          *)
FinitelyMany == IsFiniteSet(Requests)

ChargesInv == TypeInv /\ ChargesAccounted

AtEvent(r) == pc[r] = "deleteUpload" /\ req[r].op # "prune"

(* A step of r changes nobody else's part in Unpinning.                    *)
LEMMA UnpinningOthers ==
  ASSUME NEW r \in Requests, Others(r), NEW u, NEW s
  PROVE  /\ Unpinning(u, s)' \ {r} = Unpinning(u, s) \ {r}
         /\ r \in Unpinning(u, s) <=> AtEvent(r) /\ Mine(r) = <<u, s>>
         /\ r \in Unpinning(u, s)' <=> AtEvent(r)' /\ Mine(r)' = <<u, s>>
BY DEF Others, Unpinning, AtEvent, Mine, Me

LEMMA UnpinningCounts ==
  ASSUME FinitelyMany, NEW r \in Requests, Others(r), NEW u, NEW s
  PROVE  /\ Cardinality(Unpinning(u, s)) \in Nat /\ Cardinality(Unpinning(u, s)') \in Nat
         /\ Cardinality(Unpinning(u, s)') + One(AtEvent(r) /\ Mine(r) = <<u, s>>)
              = Cardinality(Unpinning(u, s)) + One(AtEvent(r)' /\ Mine(r)' = <<u, s>>)
<1> DEFINE U == Unpinning(u, s)  V == Unpinning(u, s)'  R == Unpinning(u, s) \ {r}
<1>1. U \subseteq Requests /\ V \subseteq Requests
  BY DEF Unpinning
<1>2. IsFiniteSet(U) /\ IsFiniteSet(V)
  BY <1>1, FS_Subset DEF FinitelyMany
<1>3. V \ {r} = R
  BY UnpinningOthers
<1>4. /\ r \in U <=> AtEvent(r) /\ Mine(r) = <<u, s>>
      /\ r \in V <=> AtEvent(r)' /\ Mine(r)' = <<u, s>>
  BY UnpinningOthers
<1> HIDE DEF U, V
<1>5. Cardinality(U) \in Nat /\ Cardinality(V) \in Nat
  BY <1>2, FS_CardinalityType
<1>6. Cardinality(U \ {r}) = IF r \in U THEN Cardinality(U) - 1 ELSE Cardinality(U)
  BY <1>2, FS_RemoveElement
<1>7. Cardinality(V \ {r}) = IF r \in V THEN Cardinality(V) - 1 ELSE Cardinality(V)
  BY <1>2, FS_RemoveElement
<1>8. V \ {r} = U \ {r}
  BY <1>3 DEF U
<1>9. Cardinality(V) + One(r \in U) = Cardinality(U) + One(r \in V)
  BY <1>5, <1>6, <1>7, <1>8 DEF One
<1>10. QED
  BY <1>4, <1>5, <1>9 DEF U, V, One

(* A request is of one kind from its beginning to its end.                 *)
LEMMA OpStays ==
  ASSUME TypeInv, NEW r \in Requests,
         PinStep(r) \/ UnpinStep(r) \/ PruneStep(r) \/ Failure(r)
  PROVE  pc[r] # "idle" /\ (pc'[r] = "idle" \/ req'[r].op = req[r].op)
<1> USE DEF Goto, Finish
<1> DEFINE Same == req'[r].op = req[r].op
<1>0. pc \in [Requests -> Steps] /\ req \in [Requests -> Request] /\ req[r] \in Request
  BY DEF TypeInv, TypeOK
<1>1. pc[r] # "idle"
  BY DEF PinStep, CheckKnown, Proxy, RegisterSlab, NextOfBatch, RegisterObject, Check, SaveUpload,
         CreatePin, UnpinStep, DeleteSlab, DeleteObject, ReadPin, DeletePin, DeleteUpload,
         PruneStep, DeleteObjects, FindOrphans, PruneDeleteSlab, CheckInUse, GetPins,
         PruneDeletePin, Victim, PruneDeleteUpload, Failure, CheckFails, RegisterFails, RowFails,
         PruneRowFails, PruneSkipsSlab, PruneDeletePinFails, CutOff
<1> SUFFICES pc'[r] = "idle" \/ Same
  BY <1>1
<1>2. ASSUME NEW q, q.op = req[r].op, req' = [req EXCEPT ![r] = q] PROVE Same
  BY <1>0, <1>2
<1>3. ASSUME Finish(r) PROVE pc'[r] = "idle"
  BY <1>0, <1>3
<1>4. ASSUME NextSlab(r) PROVE pc'[r] = "idle" \/ Same
  <2> DEFINE q == [req[r] EXCEPT !.hash = None, !.victims = {}, !.sharers = {}]
  <2>1. q.op = req[r].op
    BY <1>0 DEF Request
  <2>2. Finish(r) \/ req' = [req EXCEPT ![r] = q]
    BY <1>0, <1>4 DEF NextSlab
  <2> HIDE DEF q
  <2>3. QED
    BY <1>2, <1>3, <2>1, <2>2
<1>5. ASSUME NEW S, req' = [req EXCEPT ![r].slabs = S] PROVE Same
  BY <1>0, <1>5 DEF Request
<1>6. ASSUME NEW u, Victim(r, u) PROVE Same
  BY <1>0, <1>6 DEF Victim, Request
<1>7. CASE PinStep(r)
  <2>1. CASE RegisterSlab(r)
    BY <1>5, <2>1 DEF RegisterSlab, NextOfBatch
  <2>2. CASE ~RegisterSlab(r)
    BY <1>3, <1>7, <2>2 DEF PinStep, CheckKnown, Proxy, RegisterObject, Check, SaveUpload, CreatePin
  <2>3. QED
    BY <2>1, <2>2
<1>8. CASE UnpinStep(r)
  BY <1>3, <1>8 DEF UnpinStep, DeleteSlab, DeleteObject, ReadPin, DeletePin, DeleteUpload
<1>9. CASE PruneStep(r)
  <2>1. CASE DeleteObjects(r)
    BY <2>1 DEF DeleteObjects
  <2>2. CASE FindOrphans(r)
    BY <1>3, <1>5, <2>2 DEF FindOrphans
  <2>3. CASE PruneDeleteSlab(r)
    <3>1. PICK s : req' = [req EXCEPT ![r].slabs = @ \ {s}, ![r].hash = s,
                                      ![r].sharers = SharersOf(req[r].app, s)]
      BY <2>3 DEF PruneDeleteSlab
    <3>2. QED
      BY <1>0, <3>1 DEF Request
  <2>4. CASE CheckInUse(r) \/ PruneDeleteUpload(r)
    BY <1>4, <2>4 DEF CheckInUse, PruneDeleteUpload
  <2>5. CASE GetPins(r)
    <3>1. PICK V : req' = [req EXCEPT ![r].victims = V]
      BY <2>5 DEF GetPins
    <3>2. QED
      BY <1>0, <3>1 DEF Request
  <2>6. CASE PruneDeletePin(r)
    BY <1>6, <2>6 DEF PruneDeletePin
  <2>7. QED
    BY <1>9, <2>1, <2>2, <2>3, <2>4, <2>5, <2>6 DEF PruneStep
<1>10. CASE Failure(r)
  <2>1. CASE CheckFails(r) \/ RowFails(r) \/ CutOff(r)
    BY <1>3, <2>1 DEF CheckFails, RowFails, CutOff
  <2>2. CASE RegisterFails(r) \/ PruneRowFails(r)
    BY <1>3, <1>5, <2>2 DEF RegisterFails, NextOfBatch, PruneRowFails
  <2>3. CASE PruneSkipsSlab(r)
    BY <1>4, <2>3 DEF PruneSkipsSlab
  <2>4. CASE PruneDeletePinFails(r)
    BY <1>6, <2>4 DEF PruneDeletePinFails
  <2>5. QED
    BY <1>10, <2>1, <2>2, <2>3, <2>4 DEF Failure
<1>11. QED
  BY <1>7, <1>8, <1>9, <1>10

(* The charge of one user for one slab.                                    *)
Balanced(u, s) ==
  usage[u][s] + surplus[u][s] =
    One(<<u, s>> \in pins) + Cardinality(Unpinning(u, s)) + missed[u][s]

LEMMA ChargesBalanced ==
  /\ ChargesAccounted <=> \A u \in Users, s \in Slabs : Balanced(u, s)
  /\ ChargesAccounted' <=> \A u \in Users, s \in Slabs : Balanced(u, s)'
BY DEF ChargesAccounted, Balanced, One

LEMMA ChargesTyped ==
  ASSUME TypeInv, NEW u \in Users, NEW s \in Slabs
  PROVE  usage[u][s] \in Int /\ missed[u][s] \in Nat /\ surplus[u][s] \in Nat
BY DEF TypeInv, TypeOK

LEMMA ChargesFrame ==
  ASSUME FinitelyMany, ChargesInv, NEW r \in Requests, Others(r),
         UNCHANGED <<pins, usage, missed, surplus>>, ~AtEvent(r), ~AtEvent(r)'
  PROVE  ChargesAccounted'
<1>1. ASSUME NEW u \in Users, NEW s \in Slabs PROVE Balanced(u, s)'
  <2>1. Cardinality(Unpinning(u, s)') = Cardinality(Unpinning(u, s))
    BY UnpinningCounts DEF One
  <2>2. QED
    BY <2>1, ChargesBalanced DEF Balanced, ChargesInv
<1>2. QED
  BY <1>1, ChargesBalanced

(* A request leaves Unpinning with its event, or without.                  *)
LEMMA ChargesEvent ==
  ASSUME FinitelyMany, ChargesInv, NEW r \in Requests, Others(r),
         AtEvent(r), ~AtEvent(r)', UNCHANGED <<pins, surplus>>,
         \/ EmitMine(r, -1) /\ UNCHANGED missed
         \/ Miss(r) /\ UNCHANGED usage
  PROVE  ChargesAccounted'
<1>0. TypeInv /\ Me(r) \in Users
  BY AboutRequest DEF ChargesInv
<1>1. ASSUME NEW u \in Users, NEW s \in Slabs PROVE Balanced(u, s)'
  <2>1. Balanced(u, s)
    BY ChargesBalanced DEF ChargesInv
  <2>2. /\ Cardinality(Unpinning(u, s)') + One(Mine(r) = <<u, s>>) = Cardinality(Unpinning(u, s))
        /\ Cardinality(Unpinning(u, s)') \in Nat /\ Cardinality(Unpinning(u, s)) \in Nat
    BY UnpinningCounts DEF One
  <2>3. usage[u][s] \in Int /\ missed[u][s] \in Nat /\ surplus[u][s] \in Nat
    BY <1>0, ChargesTyped
  <2>4. CASE Mine(r) = <<u, s>>
    <3>1. req[r].hash = s /\ Me(r) = u
      BY <2>4 DEF Mine
    <3>2. \/ usage'[u][s] = usage[u][s] - 1 /\ missed' = missed
          \/ missed'[u][s] = missed[u][s] + 1 /\ usage' = usage
      BY <1>0, <3>1 DEF EmitMine, Emit, Miss, TypeInv, TypeOK
    <3>3. QED
      BY <2>1, <2>2, <2>3, <2>4, <3>2 DEF Balanced, One
  <2>5. CASE Mine(r) # <<u, s>>
    <3>1. usage'[u][s] = usage[u][s] /\ missed'[u][s] = missed[u][s]
      BY <1>0, <2>5 DEF EmitMine, Emit, Miss, Mine, TypeInv, TypeOK
    <3>2. QED
      BY <2>1, <2>2, <2>5, <3>1 DEF Balanced, One
  <2>6. QED
    BY <2>4, <2>5
<1>2. QED
  BY <1>1, ChargesBalanced

(* A prune gives u's storage back, with the pin or in surplus.             *)
LEMMA ChargesVictim ==
  ASSUME FinitelyMany, ChargesInv, NEW r \in Requests, Others(r), NEW u \in Users,
         Victim(r, u), UNCHANGED missed,
         \/ /\ <<u, req[r].hash>> \in pins /\ pins' = pins \ {<<u, req[r].hash>>}
            /\ UNCHANGED surplus
         \/ UNCHANGED pins /\ Overdo(u, req[r].hash)
  PROVE  ChargesAccounted'
<1>0. /\ TypeInv /\ req \in [Requests -> Request] /\ req[r] \in Request
      /\ Shape(req[r], pc[r])
  BY AboutRequest DEF ChargesInv, TypeInv, TypeOK
<1> DEFINE h == req[r].hash
<1>1. req[r].op = "prune" /\ h \in Slabs
  BY <1>0 DEF Victim, Shape
<1>2. ~AtEvent(r) /\ ~AtEvent(r)'
  BY <1>0, <1>1 DEF AtEvent, Victim, Request
<1>3. usage' = [usage EXCEPT ![u][h] = @ + (-1)]
  BY DEF Victim, Emit
<1>4. ASSUME NEW v \in Users, NEW s \in Slabs PROVE Balanced(v, s)'
  <2>1. Balanced(v, s)
    BY ChargesBalanced DEF ChargesInv
  <2>2. /\ Cardinality(Unpinning(v, s)') = Cardinality(Unpinning(v, s))
        /\ Cardinality(Unpinning(v, s)) \in Nat
    BY <1>2, UnpinningCounts DEF One
  <2>3. usage[v][s] \in Int /\ missed[v][s] \in Nat /\ surplus[v][s] \in Nat
    BY <1>0, ChargesTyped
  <2>4. CASE v = u /\ s = h
    <3>1. usage'[v][s] = usage[v][s] - 1
      BY <1>0, <1>1, <1>3, <2>4 DEF TypeInv, TypeOK
    <3>2. \/ <<v, s>> \in pins /\ <<v, s>> \notin pins' /\ surplus' = surplus
          \/ pins' = pins /\ surplus'[v][s] = surplus[v][s] + 1
      BY <1>0, <1>1, <2>4 DEF Overdo, TypeInv, TypeOK
    <3>3. QED
      BY <2>1, <2>2, <2>3, <3>1, <3>2 DEF Balanced, One
  <2>5. CASE ~(v = u /\ s = h)
    <3>1. usage'[v][s] = usage[v][s] /\ surplus'[v][s] = surplus[v][s]
      BY <1>0, <1>1, <1>3, <2>5 DEF Overdo, TypeInv, TypeOK
    <3>2. (<<v, s>> \in pins') = (<<v, s>> \in pins)
      BY <2>5
    <3>3. QED
      BY <2>1, <2>2, <3>1, <3>2 DEF Balanced
  <2>6. QED
    BY <2>4, <2>5
<1>5. QED
  BY <1>4, ChargesBalanced

LEMMA ChargesPin ==
  ASSUME FinitelyMany, ChargesInv, NEW r \in Requests, PinStep(r)
  PROVE  ChargesAccounted'
<1> USE DEF portal, charges, Goto, Finish
<1>0. /\ TypeInv /\ pc \in [Requests -> Steps] /\ req[r] \in Request /\ Me(r) \in Users
      /\ Shape(req[r], pc[r])
  BY AboutRequest DEF ChargesInv, TypeInv, TypeOK
<1>1. Others(r)
  BY <1>0, StepIsLocal DEF Step
<1>2. CASE CreatePin(r)
  <2>1. ~AtEvent(r) /\ ~AtEvent(r)'
    BY <1>0, <1>2 DEF CreatePin, AtEvent
  <2>2. CASE Mine(r) \in pins
    BY <1>1, <1>2, <2>1, <2>2, ChargesFrame DEF CreatePin
  <2>3. CASE Mine(r) \notin pins
    <3>1. pins' = pins \cup {Mine(r)} /\ EmitMine(r, 1) /\ UNCHANGED <<missed, surplus>>
      BY <1>2, <2>3 DEF CreatePin
    <3>2. ASSUME NEW u \in Users, NEW s \in Slabs PROVE Balanced(u, s)'
      <4>1. /\ Cardinality(Unpinning(u, s)') = Cardinality(Unpinning(u, s))
            /\ Cardinality(Unpinning(u, s)) \in Nat
        BY <1>1, <2>1, UnpinningCounts DEF One
      <4>2. Balanced(u, s)
        BY ChargesBalanced DEF ChargesInv
      <4>3. CASE Mine(r) = <<u, s>>
        <5>1. req[r].hash = s /\ Me(r) = u
          BY <4>3 DEF Mine
        <5>2. usage'[u][s] = usage[u][s] + 1
          BY <1>0, <3>1, <5>1 DEF EmitMine, Emit, TypeInv, TypeOK
        <5>3. <<u, s>> \notin pins /\ <<u, s>> \in pins'
          BY <2>3, <3>1, <4>3
        <5>4. QED
          BY <1>0, <3>1, <4>1, <4>2, <5>2, <5>3, ChargesTyped DEF Balanced, One
      <4>4. CASE Mine(r) # <<u, s>>
        <5>1. usage'[u][s] = usage[u][s]
          BY <1>0, <3>1, <4>4 DEF EmitMine, Emit, Mine, TypeInv, TypeOK
        <5>2. (<<u, s>> \in pins') = (<<u, s>> \in pins)
          BY <3>1, <4>4
        <5>3. QED
          BY <3>1, <4>1, <4>2, <5>1, <5>2 DEF Balanced
      <4>5. QED
        BY <4>3, <4>4
    <3>3. QED
      BY <3>2, ChargesBalanced
  <2>4. QED
    BY <2>2, <2>3
<1>3. CASE ~CreatePin(r)
  <2>1. UNCHANGED <<pins, usage, missed, surplus>>
    BY <1>3 DEF PinStep, CheckKnown, Proxy, RegisterSlab, RegisterObject, Check, SaveUpload
  <2>2. ~AtEvent(r) /\ ~AtEvent(r)'
    BY <1>0, <1>3
    DEF AtEvent, PinStep, CheckKnown, Proxy, RegisterSlab, NextOfBatch, RegisterObject, Check,
        SaveUpload
  <2>3. QED
    BY <1>1, <2>1, <2>2, ChargesFrame
<1>4. QED
  BY <1>2, <1>3

LEMMA ChargesUnpin ==
  ASSUME FinitelyMany, ChargesInv, NEW r \in Requests, UnpinStep(r)
  PROVE  ChargesAccounted'
<1> USE DEF portal, charges, Goto, Finish
<1>0. /\ TypeInv /\ pc \in [Requests -> Steps] /\ req \in [Requests -> Request]
      /\ Me(r) \in Users /\ Shape(req[r], pc[r])
  BY AboutRequest DEF ChargesInv, TypeInv, TypeOK
<1>1. Others(r)
  BY <1>0, StepIsLocal DEF Step
<1>2. CASE DeleteSlab(r) \/ DeleteObject(r) \/ ReadPin(r)
  <2>1. UNCHANGED <<pins, usage, missed, surplus>>
    BY <1>2 DEF DeleteSlab, DeleteObject, ReadPin
  <2>2. ~AtEvent(r) /\ ~AtEvent(r)'
    BY <1>0, <1>2 DEF AtEvent, DeleteSlab, DeleteObject, ReadPin
  <2>3. QED
    BY <1>1, <2>1, <2>2, ChargesFrame
<1>3. CASE DeletePin(r)
  <2>1. /\ pc[r] = "deletePin" /\ req[r].op # "prune" /\ ~AtEvent(r)
        /\ pins' = pins \ {Mine(r)} /\ UNCHANGED <<usage, missed, surplus>>
    BY <1>0, <1>3 DEF DeletePin, Unpin, Shape, AtEvent
  <2>2. CASE Mine(r) \notin pins
    <3>1. pins' = pins /\ ~AtEvent(r)'
      BY <1>0, <1>3, <2>1, <2>2 DEF DeletePin, AtEvent
    <3>2. QED
      BY <1>1, <2>1, <3>1, ChargesFrame
  <2>3. CASE Mine(r) \in pins
    <3>1. AtEvent(r)' /\ Mine(r)' = Mine(r)
      BY <1>0, <1>3, <2>1, <2>3 DEF DeletePin, AtEvent, Mine, Me
    <3>2. ASSUME NEW u \in Users, NEW s \in Slabs PROVE Balanced(u, s)'
      <4>1. Balanced(u, s)
        BY ChargesBalanced DEF ChargesInv
      <4>2. /\ Cardinality(Unpinning(u, s)') = Cardinality(Unpinning(u, s)) + One(Mine(r) = <<u, s>>)
            /\ Cardinality(Unpinning(u, s)) \in Nat
        BY <1>1, <2>1, <3>1, UnpinningCounts DEF One
      <4>3. CASE Mine(r) = <<u, s>>
        <5>1. <<u, s>> \in pins /\ <<u, s>> \notin pins'
          BY <2>1, <2>3, <4>3
        <5>2. QED
          BY <1>0, <2>1, <4>1, <4>2, <4>3, <5>1, ChargesTyped DEF Balanced, One
      <4>4. CASE Mine(r) # <<u, s>>
        <5>1. (<<u, s>> \in pins') = (<<u, s>> \in pins)
          BY <2>1, <4>4
        <5>2. QED
          BY <2>1, <4>1, <4>2, <4>4, <5>1 DEF Balanced, One
      <4>5. QED
        BY <4>3, <4>4
    <3>3. QED
      BY <3>2, ChargesBalanced
  <2>4. QED
    BY <2>2, <2>3
<1>4. CASE DeleteUpload(r)
  <2>1. /\ AtEvent(r) /\ ~AtEvent(r)' /\ UNCHANGED <<pins, surplus>>
        /\ \/ EmitMine(r, -1) /\ UNCHANGED missed
           \/ Miss(r) /\ UNCHANGED usage
    BY <1>0, <1>4 DEF DeleteUpload, AtEvent
  <2>2. QED
    BY <1>1, <2>1, ChargesEvent
<1>5. QED
  BY <1>2, <1>3, <1>4 DEF UnpinStep

LEMMA ChargesPrune ==
  ASSUME FinitelyMany, ChargesInv, NEW r \in Requests, PruneStep(r)
  PROVE  ChargesAccounted'
<1> USE DEF portal, charges, Goto, Finish
<1>0. /\ TypeInv /\ pc \in [Requests -> Steps] /\ req \in [Requests -> Request]
      /\ req[r] \in Request /\ Shape(req[r], pc[r])
  BY AboutRequest DEF ChargesInv, TypeInv, TypeOK
<1>1. Others(r)
  BY <1>0, StepIsLocal DEF Step
<1>2. CASE PruneDeletePin(r)
  <2>1. PICK u \in Users :
          /\ Victim(r, u) /\ Unpin({<<u, req[r].hash>>})
          /\ IF <<u, req[r].hash>> \in pins THEN UNCHANGED surplus ELSE Overdo(u, req[r].hash)
    BY <1>2 DEF PruneDeletePin
  <2>2. pins' = pins \ {<<u, req[r].hash>>} /\ UNCHANGED missed
    BY <1>2, <2>1 DEF PruneDeletePin, Unpin
  <2>3. <<u, req[r].hash>> \notin pins => pins' = pins
    BY <2>2
  <2>4. QED
    BY <1>1, <2>1, <2>2, <2>3, ChargesVictim
<1>3. CASE ~PruneDeletePin(r)
  <2>1. UNCHANGED <<pins, usage, missed, surplus>>
    BY <1>3 DEF PruneStep, DeleteObjects, FindOrphans, PruneDeleteSlab, CheckInUse, GetPins,
                PruneDeleteUpload
  <2>2. ~AtEvent(r) /\ ~AtEvent(r)'
    <3>1. req[r].op = "prune"
      BY <1>0, <1>3 DEF PruneStep, DeleteObjects, FindOrphans, PruneDeleteSlab, CheckInUse, GetPins,
                        PruneDeleteUpload, Shape
    <3>2. QED
      BY <1>0, <3>1, OpStays DEF AtEvent
  <2>3. QED
    BY <1>1, <2>1, <2>2, ChargesFrame
<1>4. QED
  BY <1>2, <1>3

LEMMA ChargesFailure ==
  ASSUME FinitelyMany, ChargesInv, NEW r \in Requests, Failure(r)
  PROVE  ChargesAccounted'
<1> USE DEF portal, charges, Goto, Finish
<1>0. /\ TypeInv /\ pc \in [Requests -> Steps] /\ req \in [Requests -> Request]
      /\ req[r] \in Request /\ Shape(req[r], pc[r])
  BY AboutRequest DEF ChargesInv, TypeInv, TypeOK
<1>1. Others(r)
  BY <1>0, StepIsLocal DEF Step
<1>2. CASE PruneDeletePinFails(r)
  <2>1. PICK u \in Users : Victim(r, u) /\ Overdo(u, req[r].hash)
    BY <1>2 DEF PruneDeletePinFails
  <2>2. UNCHANGED <<pins, missed>>
    BY <1>2 DEF PruneDeletePinFails
  <2>3. QED
    BY <1>1, <2>1, <2>2, ChargesVictim
<1>3. CASE CutOff(r)
  <2>1. ~AtEvent(r)' /\ UNCHANGED <<pins, usage, surplus>>
    BY <1>0, <1>3 DEF CutOff, AtEvent
  <2>2. IF AtEvent(r) THEN Miss(r) ELSE UNCHANGED missed
    BY <1>3 DEF CutOff, AtEvent
  <2>3. QED
    BY <1>1, <2>1, <2>2, ChargesEvent, ChargesFrame
<1>4. CASE CheckFails(r) \/ RegisterFails(r) \/ RowFails(r) \/ PruneRowFails(r)
  <2>1. UNCHANGED <<pins, usage, missed, surplus>>
    BY <1>4 DEF CheckFails, RegisterFails, RowFails, PruneRowFails
  <2>2. ~AtEvent(r) /\ ~AtEvent(r)'
    BY <1>0, <1>4 DEF CheckFails, RegisterFails, NextOfBatch, RowFails, PruneRowFails, AtEvent
  <2>3. QED
    BY <1>1, <2>1, <2>2, ChargesFrame
<1>5. CASE PruneSkipsSlab(r)
  <2>1. UNCHANGED <<pins, usage, missed, surplus>>
    BY <1>5 DEF PruneSkipsSlab
  <2>2. ~AtEvent(r) /\ ~AtEvent(r)'
    BY <1>0, <1>5 DEF PruneSkipsSlab, NextSlab, AtEvent
  <2>3. QED
    BY <1>1, <2>1, <2>2, ChargesFrame
<1>6. QED
  BY <1>2, <1>3, <1>4, <1>5 DEF Failure

LEMMA ChargesBegin ==
  ASSUME FinitelyMany, ChargesInv, NEW r \in Requests, BeginSome(r) \/ DashboardStep(r)
  PROVE  ChargesAccounted'
<1>0. TypeInv /\ pc \in [Requests -> Steps]
  BY DEF ChargesInv, TypeInv, TypeOK
<1>1. Others(r)
  BY <1>0, StepIsLocal DEF Step
<1>2. /\ UNCHANGED <<pins, usage, missed, surplus>>
      /\ pc[r] # "deleteUpload" /\ pc'[r] # "deleteUpload"
  BY <1>0 DEF BeginSome, BeginPinSlab, BeginPinObject, BeginUnpinSlab, BeginUnpinObject, BeginPrune,
              Begin, Goto, DashboardStep, Disconnect, PruneAccount, Dashboard, portal, charges
<1>3. QED
  BY <1>1, <1>2, ChargesFrame DEF AtEvent

(* The three steps the comment of ChargesAccounted names are the only ones *)
(* at which a charge goes wrong, for any sets of users, accounts, slabs    *)
(* and objects, any number of overlapping requests and any failures.       *)
THEOREM ChargesAreAccounted ==
  ASSUME FinitelyMany
  PROVE  Spec => []ChargesAccounted
<1>1. Init => ChargesInv
  <2> SUFFICES ASSUME Init PROVE ChargesAccounted
    BY TypeInvInit DEF ChargesInv
  <2>1. ASSUME NEW u \in Users, NEW s \in Slabs PROVE Balanced(u, s)
    <3>1. Unpinning(u, s) = {}
      BY DEF Unpinning, Init
    <3>2. QED
      BY <3>1, FS_EmptySet DEF Balanced, Init, One
  <2>2. QED
    BY <2>1, ChargesBalanced
<1>2. ChargesInv /\ [Next]_vars => ChargesInv'
  <2> SUFFICES ASSUME ChargesInv, [Next]_vars PROVE ChargesAccounted'
    BY TypeInvNext DEF ChargesInv
  <2>1. CASE UNCHANGED vars
    BY <2>1 DEF ChargesInv, ChargesAccounted, Unpinning, Mine, Me, vars, portal, charges
  <2>2. CASE Next
    BY <2>2, ChargesBegin, ChargesPin, ChargesUnpin, ChargesPrune, ChargesFailure DEF Next
  <2>3. QED
    BY <2>1, <2>2
<1>3. QED
  BY <1>1, <1>2, PTL DEF Spec, ChargesInv

-----------------------------------------------------------------------------
(* What that means for the requests a user makes.                          *)
KindsOK ==
  \A r \in Requests :
    /\ pc[r] # "idle" => req[r].op \in Ops
    /\ pc[r] = "deleteUpload" => req[r].op \in {"unpinSlab", "unpinObject", "prune"}

LEMMA KindsKept ==
  ASSUME TypeInv, KindsOK, NEW r \in Requests, Step(r) PROVE KindsOK'
<1>0. /\ pc \in [Requests -> Steps] /\ req \in [Requests -> Request] /\ req[r] \in Request
      /\ Shape(req[r], pc[r])
  BY AboutRequest DEF TypeInv, TypeOK
<1>1. Others(r)
  BY StepIsLocal
<1> SUFFICES /\ pc'[r] # "idle" => req'[r].op \in Ops
             /\ pc'[r] = "deleteUpload" => req'[r].op \in {"unpinSlab", "unpinObject", "prune"}
  BY <1>1 DEF KindsOK, Others
<1>2. CASE DashboardStep(r)
  BY <1>2 DEF DashboardStep, Disconnect, PruneAccount, Dashboard, KindsOK
<1>3. CASE BeginSome(r)
  <2>1. ASSUME NEW op, NEW q \in Request, NEW step, Begin(r, op, q, step)
        PROVE  req'[r].op \in Ops /\ pc'[r] = step
    BY <1>0, <2>1 DEF Begin, Goto, Request
  <2>2. \A a \in apps : Blank(a) \in Request
    BY BlankTyped DEF TypeInv, TypeOK
  <2>3. CASE BeginPinSlab(r)
    <3>1. PICK a \in apps, batch \in SUBSET Slabs, first \in Slabs :
            Begin(r, "pinSlab", [Blank(a) EXCEPT !.hash = first, !.slabs = batch], "register")
      BY <2>3 DEF BeginPinSlab
    <3>2. [Blank(a) EXCEPT !.hash = first, !.slabs = batch] \in Request
      BY <2>2, <3>1 DEF Request, Hashes
    <3>3. QED
      BY <2>1, <3>1, <3>2
  <2>4. CASE BeginPinObject(r)
    <3>1. PICK a \in apps, o \in Objects, parts \in SUBSET Slabs \ {{}} :
            Begin(r, "pinObject", [Blank(a) EXCEPT !.hash = o, !.slabs = parts], "known")
      BY <2>4 DEF BeginPinObject
    <3>2. [Blank(a) EXCEPT !.hash = o, !.slabs = parts] \in Request
      BY <2>2, <3>1 DEF Request, Hashes
    <3>3. QED
      BY <2>1, <3>1, <3>2
  <2>5. CASE BeginUnpinSlab(r) \/ BeginUnpinObject(r)
    <3>1. PICK op \in Ops, a \in apps, h \in Hashes :
            Begin(r, op, [Blank(a) EXCEPT !.hash = h], "row")
      BY <2>5 DEF BeginUnpinSlab, BeginUnpinObject, Begin, Hashes
    <3>2. [Blank(a) EXCEPT !.hash = h] \in Request
      BY <2>2, <3>1 DEF Request
    <3>3. QED
      BY <2>1, <3>1, <3>2
  <2>6. CASE BeginPrune(r)
    <3>1. PICK a \in apps : Begin(r, "prune", Blank(a), "objects")
      BY <2>6 DEF BeginPrune
    <3>2. QED
      BY <2>1, <2>2, <3>1
  <2>7. QED
    BY <1>3, <2>3, <2>4, <2>5, <2>6 DEF BeginSome
<1>4. CASE PinStep(r) \/ UnpinStep(r) \/ PruneStep(r) \/ Failure(r)
  <2>1. pc[r] # "idle" /\ (pc'[r] = "idle" \/ req'[r].op = req[r].op)
    BY <1>4, OpStays
  <2>2. /\ req[r].op \in Ops
        /\ pc[r] = "deleteUpload" => req[r].op \in {"unpinSlab", "unpinObject", "prune"}
    BY <2>1 DEF KindsOK
  <2>3. pc'[r] = "deleteUpload" => req[r].op \in {"unpinSlab", "unpinObject", "prune"}
    <3>1. CASE PinStep(r)
      BY <1>0, <3>1
      DEF PinStep, CheckKnown, Proxy, RegisterSlab, NextOfBatch, RegisterObject, Check, SaveUpload,
          CreatePin, Goto, Finish
    <3>2. CASE UnpinStep(r)
      BY <1>0, <2>2, <3>2
      DEF UnpinStep, DeleteSlab, DeleteObject, ReadPin, DeletePin, DeleteUpload, Shape, Goto, Finish
    <3>3. CASE PruneStep(r)
      BY <1>0, <3>3
      DEF PruneStep, DeleteObjects, FindOrphans, PruneDeleteSlab, CheckInUse, GetPins,
          PruneDeletePin, Victim, PruneDeleteUpload, Shape
    <3>4. CASE Failure(r)
      BY <1>0, <2>2, <3>4
      DEF Failure, CheckFails, RegisterFails, NextOfBatch, RowFails, PruneRowFails, PruneSkipsSlab,
          NextSlab, PruneDeletePinFails, Victim, CutOff, Shape, Goto, Finish
    <3>5. QED
      BY <1>4, <3>1, <3>2, <3>3, <3>4
  <2>4. QED
    BY <2>1, <2>2, <2>3
<1>5. QED
  BY <1>2, <1>3, <1>4 DEF Step

LEMMA KindsInvariant == Spec => [](TypeInv /\ KindsOK)
<1>1. Init => TypeInv /\ KindsOK
  BY TypeInvInit DEF KindsOK, Init
<1>2. TypeInv /\ KindsOK /\ [Next]_vars => (TypeInv /\ KindsOK)'
  <2> SUFFICES ASSUME TypeInv, KindsOK, [Next]_vars PROVE KindsOK'
    BY TypeInvNext
  <2>1. CASE UNCHANGED vars
    BY <2>1 DEF KindsOK, vars
  <2>2. CASE Next
    BY <2>2, KindsKept DEF Next, Step
  <2>3. QED
    BY <2>1, <2>2
<1>3. QED
  BY <1>1, <1>2, PTL DEF Spec

(* Only a prune gives storage back twice, or for a pin that stays          *)
(* (PruneSlabs emits the event whatever DeletePin returned): where nobody  *)
(* prunes, no user is charged for less than what is pinned, whatever       *)
(* overlaps and fails.                                                     *)
THEOREM OnlyPrunesUndercharge ==
  ASSUME FinitelyMany, "prune" \notin Ops
  PROVE  Spec => [](\A u \in Users, s \in Slabs : usage[u][s] >= One(<<u, s>> \in pins))
<1> DEFINE NoSurplus == \A u \in Users, s \in Slabs : surplus[u][s] = 0
           NoLess == \A u \in Users, s \in Slabs : usage[u][s] >= One(<<u, s>> \in pins)
<1>1. Init => NoSurplus
  BY DEF Init
<1>2. TypeInv /\ KindsOK /\ NoSurplus /\ [Next]_vars => NoSurplus'
  <2> SUFFICES ASSUME TypeInv, KindsOK, NoSurplus, [Next]_vars PROVE NoSurplus'
    OBVIOUS
  <2>1. CASE UNCHANGED vars
    BY <2>1 DEF vars, portal, charges
  <2>2. ASSUME NEW r \in Requests, Step(r) PROVE surplus' = surplus
    <3>1. pc[r] # "deletePins"
      BY DEF KindsOK, TypeInv, RequestsOK, Shape
    <3>2. QED
      BY <2>2, <3>1
      DEF Step, BeginSome, BeginPinSlab, BeginPinObject, BeginUnpinSlab, BeginUnpinObject,
          BeginPrune, Begin, DashboardStep, Disconnect, PruneAccount, Dashboard,
          PinStep, CheckKnown, Proxy, RegisterSlab, RegisterObject, Check, SaveUpload, CreatePin,
          UnpinStep, DeleteSlab, DeleteObject, ReadPin, DeletePin, DeleteUpload,
          PruneStep, DeleteObjects, FindOrphans, PruneDeleteSlab, CheckInUse, GetPins,
          PruneDeletePin, Victim, PruneDeleteUpload, Failure, CheckFails, RegisterFails, RowFails,
          PruneRowFails, PruneSkipsSlab, PruneDeletePinFails, CutOff, portal, charges
  <2>3. QED
    BY <2>1, <2>2 DEF Next, Step
<1>3. TypeInv /\ ChargesAccounted /\ NoSurplus => NoLess
  <2> SUFFICES ASSUME TypeInv, ChargesAccounted, NoSurplus, NEW u \in Users, NEW s \in Slabs
               PROVE  usage[u][s] >= One(<<u, s>> \in pins)
    OBVIOUS
  <2>1. IsFiniteSet(Unpinning(u, s))
    BY FS_Subset DEF FinitelyMany, Unpinning
  <2>2. Cardinality(Unpinning(u, s)) \in Nat
    BY <2>1, FS_CardinalityType
  <2>3. Balanced(u, s)
    BY ChargesBalanced
  <2>4. QED
    BY <2>2, <2>3, ChargesTyped DEF Balanced, One
<1>4. Spec => []ChargesAccounted
  BY ChargesAreAccounted
<1> HIDE DEF NoSurplus, NoLess
<1>5. Spec => []NoLess
  BY <1>1, <1>2, <1>3, <1>4, KindsInvariant, PTL DEF Spec
<1>6. QED
  BY <1>5 DEF NoLess

(* Only an unpin leaves storage charged that is pinned no more             *)
(* (deletePinAndUpload returns between the pin and the event): where       *)
(* nobody unpins a slab, no user is charged for more than what is pinned.  *)
THEOREM OnlyUnpinsOvercharge ==
  ASSUME FinitelyMany, "unpinSlab" \notin Ops
  PROVE  Spec => [](\A u \in Users, s \in Slabs : usage[u][s] <= One(<<u, s>> \in pins))
<1> DEFINE NoneMissed == \A u \in Users, s \in Slabs : missed[u][s] = 0
           NoMore == \A u \in Users, s \in Slabs : usage[u][s] <= One(<<u, s>> \in pins)
<1>1. Init => NoneMissed
  BY DEF Init
<1>2. ASSUME TypeInv, KindsOK, NEW r \in Requests, AtEvent(r) PROVE req[r].hash \notin Slabs
  BY <1>2, AboutRequest, SlabRegistryAssumption DEF KindsOK, AtEvent, Shape, ObjectOps
<1>3. TypeInv /\ KindsOK /\ NoneMissed /\ [Next]_vars => NoneMissed'
  <2> SUFFICES ASSUME TypeInv, KindsOK, NoneMissed, [Next]_vars PROVE NoneMissed'
    OBVIOUS
  <2>1. CASE UNCHANGED vars
    BY <2>1 DEF vars, portal, charges
  <2>2. ASSUME NEW r \in Requests, Step(r) PROVE missed' = missed
    <3>1. AtEvent(r) /\ Miss(r) => missed' = missed
      BY <1>2 DEF Miss
    <3>2. QED
      BY <2>2, <3>1
      DEF Step, BeginSome, BeginPinSlab, BeginPinObject, BeginUnpinSlab, BeginUnpinObject,
          BeginPrune, Begin, DashboardStep, Disconnect, PruneAccount, Dashboard,
          PinStep, CheckKnown, Proxy, RegisterSlab, RegisterObject, Check, SaveUpload, CreatePin,
          UnpinStep, DeleteSlab, DeleteObject, ReadPin, DeletePin, DeleteUpload, AtEvent,
          PruneStep, DeleteObjects, FindOrphans, PruneDeleteSlab, CheckInUse, GetPins,
          PruneDeletePin, PruneDeleteUpload, Failure, CheckFails, RegisterFails, RowFails,
          PruneRowFails, PruneSkipsSlab, PruneDeletePinFails, CutOff, portal, charges
  <2>3. QED
    BY <2>1, <2>2 DEF Next, Step
<1>4. TypeInv /\ KindsOK /\ ChargesAccounted /\ NoneMissed => NoMore
  <2> SUFFICES ASSUME TypeInv, KindsOK, ChargesAccounted, NoneMissed,
                      NEW u \in Users, NEW s \in Slabs
               PROVE  usage[u][s] <= One(<<u, s>> \in pins)
    OBVIOUS
  <2>1. Unpinning(u, s) = {}
    BY <1>2 DEF Unpinning, AtEvent, Mine
  <2>2. Cardinality(Unpinning(u, s)) = 0
    BY <2>1, FS_EmptySet
  <2>3. Balanced(u, s)
    BY ChargesBalanced
  <2>4. QED
    BY <2>2, <2>3, ChargesTyped DEF Balanced, One
<1>5. Spec => []ChargesAccounted
  BY ChargesAreAccounted
<1> HIDE DEF NoneMissed, NoMore
<1>6. Spec => []NoMore
  BY <1>1, <1>3, <1>4, <1>5, KindsInvariant, PTL DEF Spec
<1>7. QED
  BY <1>6 DEF NoMore
=============================================================================
