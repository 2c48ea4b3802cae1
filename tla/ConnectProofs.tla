------------------------------ MODULE ConnectProofs ------------------------------
(***************************************************************************)
(* Proofs about Connect, for any number of users, connect requests and app *)
(* keys, any sharing of keys between requests, and any number of faults.   *)
(***************************************************************************)
EXTENDS Connect, TLAPS

(* What the portal remembers of a request is what indexd decided about it. *)
RequestOK(r) ==
  /\ status[r] \in {"none", "pending"} => answering[r] = "idle" /\ authRow[r] # "live"
  /\ answering[r] = "store" \/ authRow[r] = "live" =>
       status[r] \in {"approved", "registered"} /\ authUser[r] = approver[r]
  /\ status[r] \in {"approved", "registered"} => approver[r] \in Users
  /\ linking[r] # "idle" => status[r] = "registered"
  /\ linking[r] = "record" => linkUser[r] = approver[r]

RequestsOK == \A r \in Requests : RequestOK(r)

(* A live app row goes back to a registered request its user approved.     *)
Grounded(k) ==
  appRow[k] = "live" =>
    \E r \in Requests : KeyOf[r] = k /\ status[r] = "registered" /\ approver[r] = appUser[k]

RowsGrounded == \A k \in AppKeys : Grounded(k)

(* A removal works on a key whose row it has found.                        *)
RemovalsKnown ==
  \A d \in Removals : removing[d] # "idle" =>
    target[d] \in AppKeys /\ appRow[target[d]] # "none"

Inv == TypeOK /\ RequestsOK /\ RowsGrounded /\ RemovalsKnown

(* indexd never takes back a registration.                                 *)
Settled ==
  \A r \in Requests : status[r] = "registered" =>
    status'[r] = "registered" /\ approver'[r] = approver[r]

LEMMA FaultTyped == TypeOK /\ Fault => faults' \in 0 .. MaxFaults
BY ConnectAssumption DEF TypeOK, Fault

LEMMA SoftDeleteTyped == \A row \in RowStates : SoftDelete(row) \in RowStates \ {"live"}
BY DEF SoftDelete, RowStates

(* Rows that are left alone, or deleted, stay grounded.                    *)
LEMMA RowsStay ==
  ASSUME Inv, Settled, UNCHANGED appUser,
         \A k \in AppKeys : appRow'[k] = "live" => appRow[k] = "live"
  PROVE  RowsGrounded'
<1> SUFFICES ASSUME NEW k \in AppKeys, appRow'[k] = "live"
             PROVE  \E r \in Requests :
                      KeyOf[r] = k /\ status'[r] = "registered" /\ approver'[r] = appUser'[k]
  BY DEF RowsGrounded, Grounded
<1>1. PICK r \in Requests : KeyOf[r] = k /\ status[r] = "registered" /\ approver[r] = appUser[k]
  BY DEF Inv, RowsGrounded, Grounded
<1>2. QED
  BY <1>1 DEF Settled

(* A row is never undone, so removals still know theirs.                   *)
LEMMA RemovalsStay ==
  ASSUME Inv, UNCHANGED <<removing, target>>,
         \A k \in AppKeys : appRow[k] # "none" => appRow'[k] # "none"
  PROVE  RemovalsKnown'
BY DEF Inv, RemovalsKnown

(* A step about request r leaves the others as they are.                   *)
OnlyRequest(r) ==
  \A x \in Requests \ {r} :
    /\ status'[x] = status[x] /\ approver'[x] = approver[x]
    /\ authRow'[x] = authRow[x] /\ authUser'[x] = authUser[x]
    /\ answering'[x] = answering[x] /\ linking'[x] = linking[x] /\ linkUser'[x] = linkUser[x]

LEMMA OthersStay ==
  ASSUME Inv, NEW r \in Requests, OnlyRequest(r), RequestOK(r)' PROVE RequestsOK'
<1> SUFFICES ASSUME NEW x \in Requests PROVE RequestOK(x)'
  BY DEF RequestsOK
<1>1. CASE x = r
  BY <1>1
<1>2. CASE x # r
  BY <1>2 DEF Inv, RequestsOK, RequestOK, OnlyRequest
<1>3. QED
  BY <1>1, <1>2


LEMMA OpenRequestStep ==
  ASSUME Inv, NEW r \in Requests, OpenRequest(r) PROVE Inv'
<1>1. TypeOK /\ RequestOK(r) /\ KeyOf[r] \in AppKeys
  BY ConnectAssumption DEF Inv, RequestsOK, OpenRequest
<1>2. TypeOK'
  BY <1>1, SoftDeleteTyped DEF TypeOK, RowStates, OpenRequest, indexd, authDb, appDb, runs, removals
<1>3. OnlyRequest(r)
  BY <1>1 DEF OnlyRequest, TypeOK, OpenRequest, indexd, authDb, appDb, runs, removals
<1>4. RequestOK(r)'
  BY <1>1, SoftDeleteTyped DEF RequestOK, TypeOK, OpenRequest, indexd, authDb, appDb, runs, removals
<1>5. RequestsOK'
  BY <1>3, <1>4, OthersStay
<1>6. Settled /\ UNCHANGED <<appDb, removals>>
  BY <1>1 DEF Settled, TypeOK, OpenRequest, indexd, authDb, appDb, runs, removals
<1>7. RowsGrounded' /\ RemovalsKnown'
  BY <1>6, RowsStay, RemovalsStay DEF appDb, removals
<1>8. QED
  BY <1>2, <1>5, <1>7 DEF Inv

LEMMA AnswerOneStep ==
  ASSUME Inv, NEW r \in Requests, NEW u \in Users, NEW yes \in BOOLEAN, Answer(r, u, yes) PROVE Inv'
<1>1. TypeOK /\ RequestOK(r) /\ KeyOf[r] \in AppKeys
  BY ConnectAssumption DEF Inv, RequestsOK, Answer
<1>2. TypeOK'
  BY <1>1, SoftDeleteTyped DEF TypeOK, RowStates, Answer, indexd, authDb, appDb, runs, removals, Answered
<1>3. OnlyRequest(r)
  BY <1>1 DEF OnlyRequest, TypeOK, Answer, indexd, authDb, appDb, runs, removals, Answered
<1>4. RequestOK(r)'
  BY <1>1, SoftDeleteTyped DEF RequestOK, TypeOK, Answer, indexd, authDb, appDb, runs, removals, Answered
<1>5. RequestsOK'
  BY <1>3, <1>4, OthersStay
<1>6. Settled /\ UNCHANGED <<appDb, removals>>
  BY <1>1 DEF Settled, TypeOK, Answer, indexd, authDb, appDb, runs, removals, Answered
<1>7. RowsGrounded' /\ RemovalsKnown'
  BY <1>6, RowsStay, RemovalsStay DEF appDb, removals
<1>8. QED
  BY <1>2, <1>5, <1>7 DEF Inv

LEMMA AnswerLostStep ==
  ASSUME Inv, NEW r \in Requests, NEW u \in Users, NEW yes \in BOOLEAN, AnswerLost(r, u, yes) PROVE Inv'
<1>1. TypeOK /\ RequestOK(r) /\ KeyOf[r] \in AppKeys /\ faults' \in 0 .. MaxFaults
  BY ConnectAssumption, FaultTyped DEF Inv, RequestsOK, AnswerLost
<1>2. TypeOK'
  BY <1>1, SoftDeleteTyped DEF TypeOK, RowStates, AnswerLost, indexd, authDb, appDb, runs, removals, Answered
<1>3. OnlyRequest(r)
  BY <1>1 DEF OnlyRequest, TypeOK, AnswerLost, indexd, authDb, appDb, runs, removals, Answered
<1>4. RequestOK(r)'
  BY <1>1, SoftDeleteTyped DEF RequestOK, TypeOK, AnswerLost, indexd, authDb, appDb, runs, removals, Answered
<1>5. RequestsOK'
  BY <1>3, <1>4, OthersStay
<1>6. Settled /\ UNCHANGED <<appDb, removals>>
  BY <1>1 DEF Settled, TypeOK, AnswerLost, indexd, authDb, appDb, runs, removals, Answered
<1>7. RowsGrounded' /\ RemovalsKnown'
  BY <1>6, RowsStay, RemovalsStay DEF appDb, removals
<1>8. QED
  BY <1>2, <1>5, <1>7 DEF Inv

LEMMA StoreAuthRequestStep ==
  ASSUME Inv, NEW r \in Requests, StoreAuthRequest(r) PROVE Inv'
<1>1. TypeOK /\ RequestOK(r) /\ KeyOf[r] \in AppKeys
  BY ConnectAssumption DEF Inv, RequestsOK, StoreAuthRequest
<1>2. TypeOK'
  BY <1>1, SoftDeleteTyped DEF TypeOK, RowStates, StoreAuthRequest, indexd, authDb, appDb, runs, removals
<1>3. OnlyRequest(r)
  BY <1>1 DEF OnlyRequest, TypeOK, StoreAuthRequest, indexd, authDb, appDb, runs, removals
<1>4. RequestOK(r)'
  BY <1>1, SoftDeleteTyped DEF RequestOK, TypeOK, StoreAuthRequest, indexd, authDb, appDb, runs, removals
<1>5. RequestsOK'
  BY <1>3, <1>4, OthersStay
<1>6. Settled /\ UNCHANGED <<appDb, removals>>
  BY <1>1 DEF Settled, TypeOK, StoreAuthRequest, indexd, authDb, appDb, runs, removals
<1>7. RowsGrounded' /\ RemovalsKnown'
  BY <1>6, RowsStay, RemovalsStay DEF appDb, removals
<1>8. QED
  BY <1>2, <1>5, <1>7 DEF Inv

LEMMA DeleteRejectedStep ==
  ASSUME Inv, NEW r \in Requests, DeleteRejected(r) PROVE Inv'
<1>1. TypeOK /\ RequestOK(r) /\ KeyOf[r] \in AppKeys
  BY ConnectAssumption DEF Inv, RequestsOK, DeleteRejected
<1>2. TypeOK'
  BY <1>1, SoftDeleteTyped DEF TypeOK, RowStates, DeleteRejected, indexd, authDb, appDb, runs, removals
<1>3. OnlyRequest(r)
  BY <1>1 DEF OnlyRequest, TypeOK, DeleteRejected, indexd, authDb, appDb, runs, removals
<1>4. RequestOK(r)'
  BY <1>1, SoftDeleteTyped DEF RequestOK, TypeOK, DeleteRejected, indexd, authDb, appDb, runs, removals
<1>5. RequestsOK'
  BY <1>3, <1>4, OthersStay
<1>6. Settled /\ UNCHANGED <<appDb, removals>>
  BY <1>1 DEF Settled, TypeOK, DeleteRejected, indexd, authDb, appDb, runs, removals
<1>7. RowsGrounded' /\ RemovalsKnown'
  BY <1>6, RowsStay, RemovalsStay DEF appDb, removals
<1>8. QED
  BY <1>2, <1>5, <1>7 DEF Inv

LEMMA AnswerRowFailsStep ==
  ASSUME Inv, NEW r \in Requests, AnswerRowFails(r) PROVE Inv'
<1>1. TypeOK /\ RequestOK(r) /\ KeyOf[r] \in AppKeys /\ faults' \in 0 .. MaxFaults
  BY ConnectAssumption, FaultTyped DEF Inv, RequestsOK, AnswerRowFails
<1>2. TypeOK'
  BY <1>1, SoftDeleteTyped DEF TypeOK, RowStates, AnswerRowFails, indexd, authDb, appDb, runs, removals
<1>3. OnlyRequest(r)
  BY <1>1 DEF OnlyRequest, TypeOK, AnswerRowFails, indexd, authDb, appDb, runs, removals
<1>4. RequestOK(r)'
  BY <1>1, SoftDeleteTyped DEF RequestOK, TypeOK, AnswerRowFails, indexd, authDb, appDb, runs, removals
<1>5. RequestsOK'
  BY <1>3, <1>4, OthersStay
<1>6. Settled /\ UNCHANGED <<appDb, removals>>
  BY <1>1 DEF Settled, TypeOK, AnswerRowFails, indexd, authDb, appDb, runs, removals
<1>7. RowsGrounded' /\ RemovalsKnown'
  BY <1>6, RowsStay, RemovalsStay DEF appDb, removals
<1>8. QED
  BY <1>2, <1>5, <1>7 DEF Inv

LEMMA RegisterStep ==
  ASSUME Inv, NEW r \in Requests, Register(r) PROVE Inv'
<1>1. TypeOK /\ RequestOK(r) /\ KeyOf[r] \in AppKeys
  BY ConnectAssumption DEF Inv, RequestsOK, Register
<1>2. TypeOK'
  BY <1>1, SoftDeleteTyped DEF TypeOK, RowStates, Register, indexd, authDb, appDb, runs, removals, Registered
<1>3. OnlyRequest(r)
  BY <1>1 DEF OnlyRequest, TypeOK, Register, indexd, authDb, appDb, runs, removals, Registered
<1>4. RequestOK(r)'
  BY <1>1, SoftDeleteTyped DEF RequestOK, TypeOK, Register, indexd, authDb, appDb, runs, removals, Registered
<1>5. RequestsOK'
  BY <1>3, <1>4, OthersStay
<1>6. Settled /\ UNCHANGED <<appDb, removals>>
  BY <1>1 DEF Settled, TypeOK, Register, indexd, authDb, appDb, runs, removals, Registered
<1>7. RowsGrounded' /\ RemovalsKnown'
  BY <1>6, RowsStay, RemovalsStay DEF appDb, removals
<1>8. QED
  BY <1>2, <1>5, <1>7 DEF Inv

LEMMA RegisterLostStep ==
  ASSUME Inv, NEW r \in Requests, RegisterLost(r) PROVE Inv'
<1>1. TypeOK /\ RequestOK(r) /\ KeyOf[r] \in AppKeys /\ faults' \in 0 .. MaxFaults
  BY ConnectAssumption, FaultTyped DEF Inv, RequestsOK, RegisterLost
<1>2. TypeOK'
  BY <1>1, SoftDeleteTyped DEF TypeOK, RowStates, RegisterLost, indexd, authDb, appDb, runs, removals, Registered
<1>3. OnlyRequest(r)
  BY <1>1 DEF OnlyRequest, TypeOK, RegisterLost, indexd, authDb, appDb, runs, removals, Registered
<1>4. RequestOK(r)'
  BY <1>1, SoftDeleteTyped DEF RequestOK, TypeOK, RegisterLost, indexd, authDb, appDb, runs, removals, Registered
<1>5. RequestsOK'
  BY <1>3, <1>4, OthersStay
<1>6. Settled /\ UNCHANGED <<appDb, removals>>
  BY <1>1 DEF Settled, TypeOK, RegisterLost, indexd, authDb, appDb, runs, removals, Registered
<1>7. RowsGrounded' /\ RemovalsKnown'
  BY <1>6, RowsStay, RemovalsStay DEF appDb, removals
<1>8. QED
  BY <1>2, <1>5, <1>7 DEF Inv

LEMMA LookupAuthRequestStep ==
  ASSUME Inv, NEW r \in Requests, LookupAuthRequest(r) PROVE Inv'
<1>1. TypeOK /\ RequestOK(r) /\ KeyOf[r] \in AppKeys
  BY ConnectAssumption DEF Inv, RequestsOK, LookupAuthRequest
<1>2. TypeOK'
  BY <1>1, SoftDeleteTyped DEF TypeOK, RowStates, LookupAuthRequest, indexd, authDb, appDb, runs, removals
<1>3. OnlyRequest(r)
  BY <1>1 DEF OnlyRequest, TypeOK, LookupAuthRequest, indexd, authDb, appDb, runs, removals
<1>4. RequestOK(r)'
  BY <1>1, SoftDeleteTyped DEF RequestOK, TypeOK, LookupAuthRequest, indexd, authDb, appDb, runs, removals
<1>5. RequestsOK'
  BY <1>3, <1>4, OthersStay
<1>6. Settled /\ UNCHANGED <<appDb, removals>>
  BY <1>1 DEF Settled, TypeOK, LookupAuthRequest, indexd, authDb, appDb, runs, removals
<1>7. RowsGrounded' /\ RemovalsKnown'
  BY <1>6, RowsStay, RemovalsStay DEF appDb, removals
<1>8. QED
  BY <1>2, <1>5, <1>7 DEF Inv

LEMMA LinkFailsStep ==
  ASSUME Inv, NEW r \in Requests, LinkFails(r) PROVE Inv'
<1>1. TypeOK /\ RequestOK(r) /\ KeyOf[r] \in AppKeys /\ faults' \in 0 .. MaxFaults
  BY ConnectAssumption, FaultTyped DEF Inv, RequestsOK, LinkFails
<1>2. TypeOK'
  BY <1>1, SoftDeleteTyped DEF TypeOK, RowStates, LinkFails, indexd, authDb, appDb, runs, removals
<1>3. OnlyRequest(r)
  BY <1>1 DEF OnlyRequest, TypeOK, LinkFails, indexd, authDb, appDb, runs, removals
<1>4. RequestOK(r)'
  BY <1>1, SoftDeleteTyped DEF RequestOK, TypeOK, LinkFails, indexd, authDb, appDb, runs, removals
<1>5. RequestsOK'
  BY <1>3, <1>4, OthersStay
<1>6. Settled /\ UNCHANGED <<appDb, removals>>
  BY <1>1 DEF Settled, TypeOK, LinkFails, indexd, authDb, appDb, runs, removals
<1>7. RowsGrounded' /\ RemovalsKnown'
  BY <1>6, RowsStay, RemovalsStay DEF appDb, removals
<1>8. QED
  BY <1>2, <1>5, <1>7 DEF Inv

LEMMA DeleteAuthRequestStep ==
  ASSUME Inv, NEW r \in Requests, DeleteAuthRequest(r) PROVE Inv'
<1>1. TypeOK /\ RequestOK(r) /\ KeyOf[r] \in AppKeys
  BY ConnectAssumption DEF Inv, RequestsOK, DeleteAuthRequest
<1>2. TypeOK'
  BY <1>1, SoftDeleteTyped DEF TypeOK, RowStates, DeleteAuthRequest, indexd, authDb, appDb, runs, removals
<1>3. OnlyRequest(r)
  BY <1>1 DEF OnlyRequest, TypeOK, DeleteAuthRequest, indexd, authDb, appDb, runs, removals
<1>4. RequestOK(r)'
  BY <1>1, SoftDeleteTyped DEF RequestOK, TypeOK, DeleteAuthRequest, indexd, authDb, appDb, runs, removals
<1>5. RequestsOK'
  BY <1>3, <1>4, OthersStay
<1>6. Settled /\ UNCHANGED <<appDb, removals>>
  BY <1>1 DEF Settled, TypeOK, DeleteAuthRequest, indexd, authDb, appDb, runs, removals
<1>7. RowsGrounded' /\ RemovalsKnown'
  BY <1>6, RowsStay, RemovalsStay DEF appDb, removals
<1>8. QED
  BY <1>2, <1>5, <1>7 DEF Inv

LEMMA DeleteAuthFailsStep ==
  ASSUME Inv, NEW r \in Requests, DeleteAuthFails(r) PROVE Inv'
<1>1. TypeOK /\ RequestOK(r) /\ KeyOf[r] \in AppKeys /\ faults' \in 0 .. MaxFaults
  BY ConnectAssumption, FaultTyped DEF Inv, RequestsOK, DeleteAuthFails
<1>2. TypeOK'
  BY <1>1, SoftDeleteTyped DEF TypeOK, RowStates, DeleteAuthFails, indexd, authDb, appDb, runs, removals
<1>3. OnlyRequest(r)
  BY <1>1 DEF OnlyRequest, TypeOK, DeleteAuthFails, indexd, authDb, appDb, runs, removals
<1>4. RequestOK(r)'
  BY <1>1, SoftDeleteTyped DEF RequestOK, TypeOK, DeleteAuthFails, indexd, authDb, appDb, runs, removals
<1>5. RequestsOK'
  BY <1>3, <1>4, OthersStay
<1>6. Settled /\ UNCHANGED <<appDb, removals>>
  BY <1>1 DEF Settled, TypeOK, DeleteAuthFails, indexd, authDb, appDb, runs, removals
<1>7. RowsGrounded' /\ RemovalsKnown'
  BY <1>6, RowsStay, RemovalsStay DEF appDb, removals
<1>8. QED
  BY <1>2, <1>5, <1>7 DEF Inv

LEMMA ExpireStep ==
  ASSUME Inv, NEW r \in Requests, Expire(r) PROVE Inv'
<1>1. TypeOK /\ RequestOK(r) /\ KeyOf[r] \in AppKeys
  BY ConnectAssumption DEF Inv, RequestsOK, Expire
<1>2. TypeOK'
  BY <1>1, SoftDeleteTyped DEF TypeOK, RowStates, Expire, indexd, authDb, appDb, runs, removals
<1>3. OnlyRequest(r)
  BY <1>1 DEF OnlyRequest, TypeOK, Expire, indexd, authDb, appDb, runs, removals
<1>4. RequestOK(r)'
  BY <1>1, SoftDeleteTyped DEF RequestOK, TypeOK, Expire, indexd, authDb, appDb, runs, removals
<1>5. RequestsOK'
  BY <1>3, <1>4, OthersStay
<1>6. Settled /\ UNCHANGED <<appDb, removals>>
  BY <1>1 DEF Settled, TypeOK, Expire, indexd, authDb, appDb, runs, removals
<1>7. RowsGrounded' /\ RemovalsKnown'
  BY <1>6, RowsStay, RemovalsStay DEF appDb, removals
<1>8. QED
  BY <1>2, <1>5, <1>7 DEF Inv

LEMMA RegisterAppAccountStep ==
  ASSUME Inv, NEW r \in Requests, RegisterAppAccount(r) PROVE Inv'
<1> DEFINE k == KeyOf[r]
<1>1. TypeOK /\ RequestOK(r) /\ k \in AppKeys
  BY ConnectAssumption DEF Inv, RequestsOK
<1>2. status[r] = "registered" /\ linkUser[r] = approver[r]
  BY <1>1 DEF RegisterAppAccount, RequestOK
<1>3. TypeOK'
  BY <1>1 DEF TypeOK, RowStates, RegisterAppAccount, indexd, authDb, appDb, removals
<1>4. OnlyRequest(r) /\ RequestOK(r)'
  BY <1>1, <1>2 DEF OnlyRequest, RequestOK, TypeOK, RegisterAppAccount, indexd, authDb
<1>5. RequestsOK'
  BY <1>4, OthersStay
<1>6. Settled
  BY DEF Settled, RegisterAppAccount, indexd
<1>r. RemovalsKnown'
  <2>1. \A x \in AppKeys : appRow[x] # "none" => appRow'[x] # "none"
    BY <1>1 DEF RegisterAppAccount, TypeOK, appDb
  <2>2. QED
    BY <2>1, RemovalsStay DEF RegisterAppAccount, removals
<1>7. CASE appRow[k] # "none"
  <2>1. UNCHANGED appDb
    BY <1>7 DEF RegisterAppAccount
  <2>2. QED
    BY <1>3, <1>5, <1>6, <1>r, <2>1, RowsStay DEF Inv, appDb
<1>8. CASE appRow[k] = "none"
  <2>1. /\ appRow' = [appRow EXCEPT ![k] = "live"]
        /\ appUser' = [appUser EXCEPT ![k] = linkUser[r]]
        /\ status' = status /\ approver' = approver
    BY <1>8 DEF RegisterAppAccount, indexd
  <2>2. ASSUME NEW x \in AppKeys PROVE Grounded(x)'
    <3>1. CASE x = k
      BY <1>1, <1>2, <2>1, <3>1 DEF Grounded, TypeOK
    <3>2. CASE x # k
      <4>1. appRow'[x] = appRow[x] /\ appUser'[x] = appUser[x]
        BY <1>1, <2>1, <3>2 DEF TypeOK
      <4>2. Grounded(x)
        BY DEF Inv, RowsGrounded
      <4>3. QED
        BY <2>1, <4>1, <4>2 DEF Grounded
    <3>3. QED
      BY <3>1, <3>2
  <2>3. RowsGrounded'
    BY <2>2 DEF RowsGrounded
  <2>4. QED
    BY <1>3, <1>5, <1>r, <2>3 DEF Inv
<1>9. QED
  BY <1>7, <1>8

LEMMA CleanupExpiredStep == Inv /\ CleanupExpired => Inv'
<1> SUFFICES ASSUME Inv, CleanupExpired PROVE Inv'
  OBVIOUS
<1>1. /\ authRow' = [r \in Requests |-> IF r \in expired THEN SoftDelete(authRow[r]) ELSE authRow[r]]
      /\ UNCHANGED <<status, approver, account, authUser, expired, appRow, appUser,
                     answering, linking, linkUser, removals, faults>>
  BY DEF CleanupExpired, indexd, appDb, runs
<1>2. \A r \in Requests : authRow'[r] \in RowStates /\ (authRow'[r] = "live" => authRow[r] = "live")
  BY <1>1, SoftDeleteTyped DEF Inv, TypeOK
<1>3. TypeOK'
  BY <1>1, <1>2 DEF Inv, TypeOK, removals
<1>4. RequestsOK'
  <2> SUFFICES ASSUME NEW r \in Requests PROVE RequestOK(r)'
    BY DEF RequestsOK
  <2>1. QED
    BY <1>1, <1>2 DEF Inv, RequestsOK, RequestOK
<1>5. RowsGrounded' /\ RemovalsKnown'
  BY <1>1 DEF Inv, RowsGrounded, Grounded, RemovalsKnown, removals
<1>6. QED
  BY <1>3, <1>4, <1>5 DEF Inv

LEMMA RemoveMoves ==
  ASSUME Inv, NEW d \in Removals, RemoveStep(d)
  PROVE  Inv'
<1> USE DEF RemoveStep, FindApp, UnregisterApp, AlreadyUnregistered, ForgetApp, RemoveFails
<1>1. /\ UNCHANGED <<status, approver, authRow, authUser, expired, appUser,
                     answering, linking, linkUser>>
      /\ \A k \in AppKeys : appRow'[k] = "live" => appRow[k] = "live"
  BY SoftDeleteTyped DEF Inv, TypeOK, indexd, authDb, appDb
<1>2. /\ account' \in [AppKeys -> Users \cup {None}]
      /\ appRow' \in [AppKeys -> RowStates]
  BY SoftDeleteTyped DEF Inv, TypeOK, indexd, appDb
<1>3. /\ removing' \in [Removals -> {"idle", "unregister", "forget"}]
      /\ target' \in [Removals -> AppKeys \cup {None}]
      /\ halfway' \subseteq AppKeys
  BY DEF Inv, TypeOK, RemovalsKnown
<1>4. faults' \in 0 .. MaxFaults
  BY FaultTyped DEF Inv, TypeOK
<1>5. TypeOK'
  BY <1>1, <1>2, <1>3, <1>4 DEF Inv, TypeOK
<1>6. RequestsOK' /\ Settled
  BY <1>1 DEF Inv, RequestsOK, RequestOK, Settled
<1>7. RowsGrounded'
  BY <1>1, <1>6, RowsStay
<1>8. RemovalsKnown'
  <2>1. \A k \in AppKeys : appRow[k] # "none" => appRow'[k] # "none"
    BY DEF Inv, TypeOK, RowStates, SoftDelete, appDb
  <2>2. \A x \in Removals : removing'[x] # "idle" =>
          target'[x] \in AppKeys /\ appRow[target'[x]] # "none"
    BY DEF Inv, TypeOK, RemovalsKnown
  <2>3. QED
    BY <2>1, <2>2 DEF RemovalsKnown
<1>9. QED
  BY <1>5, <1>6, <1>7, <1>8 DEF Inv

LEMMA Initially == Init => Inv
<1> SUFFICES ASSUME Init PROVE Inv
  OBVIOUS
<1>1. TypeOK
  BY ConnectAssumption DEF Init, TypeOK, RowStates
<1>2. RequestsOK
  BY DEF Init, RequestsOK, RequestOK
<1>3. RowsGrounded /\ RemovalsKnown
  BY DEF Init, RowsGrounded, Grounded, RemovalsKnown
<1>4. QED
  BY <1>1, <1>2, <1>3 DEF Inv

LEMMA Inductive == Inv /\ [Next]_vars => Inv'
<1> SUFFICES ASSUME Inv, [Next]_vars PROVE Inv'
  OBVIOUS
<1>1. ASSUME NEW r \in Requests, OpenRequest(r) \/ Expire(r) PROVE Inv'
  BY <1>1, OpenRequestStep, ExpireStep
<1>2. ASSUME NEW r \in Requests, AnswerStep(r) PROVE Inv'
  BY <1>2, AnswerOneStep, AnswerLostStep, StoreAuthRequestStep, DeleteRejectedStep,
     AnswerRowFailsStep DEF AnswerStep
<1>3. ASSUME NEW r \in Requests, LinkStep(r) PROVE Inv'
  BY <1>3, RegisterStep, RegisterLostStep, LookupAuthRequestStep, RegisterAppAccountStep,
     DeleteAuthRequestStep, LinkFailsStep, DeleteAuthFailsStep DEF LinkStep
<1>4. CASE CleanupExpired
  BY <1>4, CleanupExpiredStep
<1>5. ASSUME NEW d \in Removals, RemoveStep(d) PROVE Inv'
  BY <1>5, RemoveMoves
<1>6. CASE UNCHANGED vars
  <2>1. TypeOK'
    BY <1>6 DEF vars, indexd, authDb, appDb, runs, removals, Inv, TypeOK
  <2>2. RequestsOK' /\ RowsGrounded' /\ RemovalsKnown'
    BY <1>6 DEF vars, indexd, authDb, appDb, runs, removals, Inv, RequestsOK, RequestOK,
                RowsGrounded, Grounded, RemovalsKnown
  <2>3. QED
    BY <2>1, <2>2 DEF Inv
<1>7. QED
  BY <1>1, <1>2, <1>3, <1>4, <1>5, <1>6 DEF Next

LEMMA Invariant == Spec => []Inv
<1>1. QED
  BY Initially, Inductive, PTL DEF Spec

(* Every variable of the connect model keeps its type.                     *)
THEOREM TypeCorrect == Spec => []TypeOK
<1>1. Inv => TypeOK
  BY DEF Inv
<1>2. QED
  BY <1>1, Invariant, PTL

(* No race between approving, storing, registering, expiring, cleaning up  *)
(* and disconnecting, and no failed call, lets an app act for a user who   *)
(* did not approve a request its key was registered for.                   *)
THEOREM AppsActForApprovers == Spec => []ActsForApprover
<1>1. Inv => ActsForApprover
  <2> SUFFICES ASSUME Inv, NEW k \in AppKeys, ActsAs(k) # None
               PROVE  \E r \in Requests :
                        KeyOf[r] = k /\ status[r] = "registered" /\ approver[r] = ActsAs(k)
    BY DEF ActsForApprover
  <2>1. appRow[k] = "live" /\ ActsAs(k) = appUser[k]
    BY DEF ActsAs
  <2>2. QED
    BY <2>1 DEF Inv, RowsGrounded, Grounded
<1>2. QED
  BY <1>1, Invariant, PTL

-----------------------------------------------------------------------------
(* The key of a registration that is about to be recorded, where no row    *)
(* has ever been, is under its approver's account at indexd.               *)
OpenLinks == {"lookup", "record"}

LinkBacked(r) ==
  linking[r] \in OpenLinks /\ appRow[KeyOf[r]] = "none" => account[KeyOf[r]] = approver[r]

Between(k) == k \in halfway \/ \E d \in Removals : target[d] = k /\ removing[d] = "forget"

RowBacked(k) == appRow[k] = "live" => account[k] = appUser[k] \/ Between(k)

Backed == (\A r \in Requests : LinkBacked(r)) /\ (\A k \in AppKeys : RowBacked(k))

(* Nothing but a registration, a record and a removal touches these.       *)
LEMMA BackedStays ==
  ASSUME Backed, UNCHANGED <<account, appRow, appUser, removing, target, halfway>>,
         \A r \in Requests : linking'[r] \in OpenLinks =>
           linking[r] \in OpenLinks /\ approver'[r] = approver[r]
  PROVE  Backed'
BY DEF Backed, LinkBacked, RowBacked, Between

LEMMA AnswerKeepsBacked ==
  ASSUME Inv, Backed, NEW r \in Requests, OpenRequest(r) \/ AnswerStep(r) \/ Expire(r)
  PROVE  Backed'
<1>1. /\ UNCHANGED <<account, appRow, appUser, removing, target, halfway, linking>>
      /\ \A x \in Requests : linking[x] \in OpenLinks => approver'[x] = approver[x]
  BY DEF OpenLinks, Inv, TypeOK, RequestsOK, RequestOK, OpenRequest, Expire, AnswerStep, Answer,
         AnswerLost, Answered, StoreAuthRequest, DeleteRejected, AnswerRowFails,
         indexd, authDb, appDb, runs, removals
<1>2. QED
  BY <1>1, BackedStays

(* A key is registered only where no account is.                           *)
LEMMA RegisterKeepsBacked ==
  ASSUME Inv, Backed, NEW r \in Requests, Register(r) \/ RegisterLost(r)
  PROVE  Backed'
<1> DEFINE k == KeyOf[r]
<1>1. /\ k \in AppKeys /\ account[k] = None /\ account' = [account EXCEPT ![k] = approver[r]]
      /\ approver[r] \in Users /\ None \notin Users
      /\ UNCHANGED <<approver, appRow, appUser, removing, target, halfway>>
      /\ \A x \in Requests \ {r} : linking'[x] = linking[x]
  BY ConnectAssumption DEF Inv, TypeOK, RequestsOK, RequestOK, Register, RegisterLost, Registered,
     authDb, appDb, runs, removals
<1>2. ASSUME NEW x \in Requests PROVE LinkBacked(x)'
  <2>1. CASE x = r
    BY <1>1, <2>1 DEF LinkBacked, Inv, TypeOK
  <2>2. CASE x # r /\ KeyOf[x] = k
    <3>1. linking[x] \in OpenLinks => approver[x] # None
      BY <1>1 DEF OpenLinks, Inv, RequestsOK, RequestOK
    <3>2. QED
      BY <1>1, <2>2, <3>1 DEF LinkBacked, Backed
  <2>3. CASE x # r /\ KeyOf[x] # k
    BY <1>1, <2>3, ConnectAssumption DEF LinkBacked, Backed, Inv, TypeOK
  <2>4. QED
    BY <2>1, <2>2, <2>3
<1>3. ASSUME NEW x \in AppKeys PROVE RowBacked(x)'
  <2>1. CASE x = k
    <3>1. appRow[k] = "live" => appUser[k] # None
      BY <1>1 DEF Inv, RowsGrounded, Grounded, RequestsOK, RequestOK
    <3>2. QED
      BY <1>1, <2>1, <3>1 DEF RowBacked, Backed, Between
  <2>2. CASE x # k
    BY <1>1, <2>2 DEF RowBacked, Backed, Between, Inv, TypeOK
  <2>3. QED
    BY <2>1, <2>2
<1>4. QED
  BY <1>2, <1>3 DEF Backed

LEMMA RecordKeepsBacked ==
  ASSUME Inv, Backed, NEW r \in Requests, RegisterAppAccount(r)
  PROVE  Backed'
<1> DEFINE k == KeyOf[r]
<1>1. /\ k \in AppKeys /\ linking[r] = "record" /\ linkUser[r] = approver[r]
      /\ UNCHANGED <<approver, account, removing, target, halfway>>
      /\ linking' = [linking EXCEPT ![r] = "cleanup"]
  BY ConnectAssumption DEF RegisterAppAccount, Inv, RequestsOK, RequestOK, indexd, removals
<1>2. CASE appRow[k] # "none"
  <2>1. UNCHANGED appDb
    BY <1>2 DEF RegisterAppAccount
  <2>2. QED
    BY <1>1, <2>1, BackedStays DEF appDb, OpenLinks, Inv, TypeOK
<1>3. CASE appRow[k] = "none"
  <2>1. /\ appRow' = [appRow EXCEPT ![k] = "live"]
        /\ appUser' = [appUser EXCEPT ![k] = approver[r]]
        /\ account[k] = approver[r]
    BY <1>1, <1>3 DEF RegisterAppAccount, Backed, LinkBacked, OpenLinks
  <2>2. ASSUME NEW x \in Requests PROVE LinkBacked(x)'
    <3>1. linking'[x] \in OpenLinks => linking[x] \in OpenLinks
      BY <1>1 DEF OpenLinks, Inv, TypeOK
    <3>2. KeyOf[x] \in AppKeys /\ (appRow'[KeyOf[x]] = "none" => appRow[KeyOf[x]] = "none")
      BY <2>1, ConnectAssumption DEF Inv, TypeOK
    <3>3. QED
      BY <1>1, <3>1, <3>2 DEF LinkBacked, Backed
  <2>3. ASSUME NEW x \in AppKeys PROVE RowBacked(x)'
    BY <1>1, <2>1 DEF RowBacked, Backed, Between, Inv, TypeOK
  <2>4. QED
    BY <2>2, <2>3 DEF Backed
<1>4. QED
  BY <1>2, <1>3

LEMMA LinkKeepsBacked ==
  ASSUME Inv, Backed, NEW r \in Requests,
         LookupAuthRequest(r) \/ LinkFails(r) \/ DeleteAuthRequest(r) \/ DeleteAuthFails(r)
  PROVE  Backed'
<1>1. /\ UNCHANGED <<approver, account, appRow, appUser, removing, target, halfway>>
      /\ \A x \in Requests : linking'[x] \in OpenLinks => linking[x] \in OpenLinks
  BY DEF OpenLinks, Inv, TypeOK, LookupAuthRequest, LinkFails, DeleteAuthRequest, DeleteAuthFails,
         indexd, appDb, removals
<1>2. QED
  BY <1>1, BackedStays

(* A removal leaves the row of a key whose account it has deleted only by  *)
(* failing.                                                                *)
LEMMA RemoveKeepsBacked ==
  ASSUME Inv, Backed, NEW d \in Removals, RemoveStep(d)
  PROVE  Backed'
<1> USE DEF Inv, TypeOK
<1>1. UNCHANGED <<approver, linking, appUser>>
  BY DEF RemoveStep, FindApp, UnregisterApp, AlreadyUnregistered, ForgetApp, RemoveFails,
         indexd, appDb
<1>2. CASE \E k \in AppKeys, u \in Users : FindApp(d, k, u)
  <2>1. /\ UNCHANGED <<account, appRow, halfway>> /\ removing[d] = "idle" /\ removing'[d] # "forget"
        /\ \A x \in Removals \ {d} : removing'[x] = removing[x] /\ target'[x] = target[x]
    BY <1>2 DEF FindApp, indexd, appDb
  <2>2. \A k \in AppKeys : Between(k) => Between(k)'
    BY <2>1 DEF Between
  <2>3. QED
    BY <1>1, <2>1, <2>2 DEF Backed, LinkBacked, RowBacked
<1>3. CASE UnregisterApp(d)
  <2> DEFINE k == target[d]
  <2>1. /\ k \in AppKeys /\ appRow[k] # "none"
        /\ account' = [account EXCEPT ![k] = None]
        /\ UNCHANGED <<appRow, target, halfway>>
        /\ removing' = [removing EXCEPT ![d] = "forget"]
    BY <1>3 DEF UnregisterApp, RemovalsKnown, appDb
  <2>2. \A x \in AppKeys : Between(x) => Between(x)'
    BY <2>1 DEF Between
  <2>3. Between(k)'
    BY <2>1 DEF Between
  <2>4. ASSUME NEW x \in Requests PROVE LinkBacked(x)'
    BY <1>1, <2>1, ConnectAssumption DEF Backed, LinkBacked
  <2>5. ASSUME NEW x \in AppKeys PROVE RowBacked(x)'
    BY <1>1, <2>1, <2>2, <2>3 DEF Backed, RowBacked
  <2>6. QED
    BY <2>4, <2>5 DEF Backed
<1>4. CASE AlreadyUnregistered(d)
  <2>1. /\ UNCHANGED <<account, appRow, target, halfway>> /\ removing[d] = "unregister"
        /\ removing' = [removing EXCEPT ![d] = "idle"]
    BY <1>4 DEF AlreadyUnregistered, indexd, appDb
  <2>2. \A k \in AppKeys : Between(k) => Between(k)'
    BY <2>1 DEF Between
  <2>3. QED
    BY <1>1, <2>1, <2>2 DEF Backed, LinkBacked, RowBacked
<1>5. CASE ForgetApp(d)
  <2> DEFINE k == target[d]
  <2>1. /\ UNCHANGED <<account, target, halfway>>
        /\ removing' = [removing EXCEPT ![d] = "idle"]
        /\ k \in AppKeys
        /\ appRow' = [appRow EXCEPT ![k] = SoftDelete(@)]
    BY <1>5 DEF ForgetApp, RemovalsKnown, indexd
  <2>2. appRow'[k] # "live" /\ (appRow'[k] = "none" => appRow[k] = "none")
    BY <2>1 DEF SoftDelete
  <2>3. \A x \in AppKeys \ {k} : appRow'[x] = appRow[x] /\ (Between(x) => Between(x)')
    BY <2>1 DEF Between
  <2>4. ASSUME NEW x \in Requests PROVE LinkBacked(x)'
    BY <1>1, <2>1, <2>2, <2>3, ConnectAssumption DEF Backed, LinkBacked
  <2>5. ASSUME NEW x \in AppKeys PROVE RowBacked(x)'
    BY <1>1, <2>1, <2>2, <2>3 DEF Backed, RowBacked
  <2>6. QED
    BY <2>4, <2>5 DEF Backed
<1>6. CASE RemoveFails(d)
  <2>1. /\ UNCHANGED <<account, appRow, target>>
        /\ removing' = [removing EXCEPT ![d] = "idle"]
        /\ halfway' = IF removing[d] = "forget" THEN halfway \cup {target[d]} ELSE halfway
    BY <1>6 DEF RemoveFails, indexd, appDb
  <2>2. \A k \in AppKeys : Between(k) => Between(k)'
    BY <2>1 DEF Between
  <2>3. QED
    BY <1>1, <2>1, <2>2 DEF Backed, LinkBacked, RowBacked
<1>7. QED
  BY <1>2, <1>3, <1>4, <1>5, <1>6 DEF RemoveStep

LEMMA BackedInductive == Inv /\ Backed /\ [Next]_vars => Backed'
<1> SUFFICES ASSUME Inv, Backed, [Next]_vars PROVE Backed'
  OBVIOUS
<1>1. CASE CleanupExpired \/ UNCHANGED vars
  BY <1>1, BackedStays DEF CleanupExpired, vars, indexd, appDb, runs, removals
<1>2. QED
  BY <1>1, AnswerKeepsBacked, RegisterKeepsBacked, RecordKeepsBacked, LinkKeepsBacked,
     RemoveKeepsBacked DEF Next, LinkStep

(* The portal and indexd agree on whose app a key is, except between the   *)
(* halves of a removal.                                                    *)
THEOREM ServedAsIndexdHasIt == Spec => []ServedAsRegistered
<1>1. Init => Backed
  BY DEF Init, Backed, LinkBacked, RowBacked, OpenLinks
<1>2. Backed => ServedAsRegistered
  BY DEF Backed, RowBacked, Between, ServedAsRegistered, ActsAs
<1>3. QED
  BY <1>1, <1>2, BackedInductive, Initially, Inductive, PTL DEF Spec

-----------------------------------------------------------------------------
LEMMA ActsTyped == ASSUME Inv, NEW k \in AppKeys PROVE ActsAs(k) \in Users \cup {None}
BY DEF Inv, TypeOK, ActsAs

(* The steps that are none of the delegation.                              *)
LEMMA QuietSteps ==
  ASSUME Inv,
         \/ \E r \in Requests : OpenRequest(r) \/ AnswerStep(r) \/ Expire(r)
         \/ \E r \in Requests : DeleteAuthRequest(r) \/ DeleteAuthFails(r)
         \/ CleanupExpired
         \/ \E d \in Removals : RemoveStep(d) /\ ~ForgetApp(d)
         \/ UNCHANGED vars
  PROVE  UNCHANGED Granted!vars
<1>1. UNCHANGED appDb
  BY DEF OpenRequest, AnswerStep, Answer, AnswerLost, StoreAuthRequest, DeleteRejected,
         AnswerRowFails, Expire, DeleteAuthRequest, DeleteAuthFails, CleanupExpired, RemoveStep,
         FindApp, UnregisterApp, AlreadyUnregistered, RemoveFails, vars
<1>2. ASSUME NEW r \in Requests
      PROVE  /\ status'[r] = "registered" <=> status[r] = "registered"
             /\ status[r] = "registered" => approver'[r] = approver[r]
             /\ linking'[r] \in {"lookup", "record"} <=> linking[r] \in {"lookup", "record"}
  BY DEF Inv, TypeOK, OpenRequest, AnswerStep, Answer, Answered, AnswerLost, StoreAuthRequest,
         DeleteRejected, AnswerRowFails, Expire, DeleteAuthRequest, DeleteAuthFails,
         CleanupExpired, RemoveStep, FindApp, UnregisterApp, AlreadyUnregistered, RemoveFails,
         vars, runs, indexd
<1>3. QED
  BY <1>1, <1>2 DEF Granted!vars, ActsAs, appDb

LEMMA RegisterGrants ==
  ASSUME Inv, NEW r \in Requests, Register(r) \/ RegisterLost(r)
  PROVE  Granted!Grant(r)
<1>1. /\ status[r] = "approved" /\ approver[r] \in Users /\ linking[r] = "idle"
      /\ status' = [status EXCEPT ![r] = "registered"]
      /\ UNCHANGED <<approver, appDb>>
      /\ linking' = linking \/ linking' = [linking EXCEPT ![r] = "lookup"]
  BY DEF Inv, TypeOK, RequestsOK, RequestOK, Register, RegisterLost, Registered, runs
<1>2. \A x \in Requests \ {r} : status'[x] = status[x] /\ linking'[x] = linking[x]
  BY <1>1 DEF Inv, TypeOK
<1>3. status'[r] = "registered"
  BY <1>1 DEF Inv, TypeOK
<1> DEFINE granter == [x \in Requests |-> IF status[x] = "registered" THEN approver[x] ELSE None]
           open == {x \in Requests : linking[x] \in {"lookup", "record"}}
<1>4. granter' = [granter EXCEPT ![r] = approver[r]] /\ granter[r] = None
  BY <1>1, <1>2, <1>3
<1>5. open' \in {open, open \cup {r}}
  <2>1. CASE linking' = linking
    BY <2>1
  <2>2. CASE linking' = [linking EXCEPT ![r] = "lookup"]
    <3>1. linking'[r] = "lookup"
      BY <2>2 DEF Inv, TypeOK
    <3>2. open' = open \cup {r}
      BY <1>2, <3>1
    <3>3. QED
      BY <3>2
  <2>3. QED
    BY <1>1, <2>1, <2>2
<1>6. UNCHANGED [k \in AppKeys |-> ActsAs(k)]
  BY <1>1 DEF ActsAs, appDb
<1>7. QED
  BY <1>1, <1>4, <1>5, <1>6 DEF Granted!Grant

LEMMA LinkUses ==
  ASSUME Inv, NEW r \in Requests, LookupAuthRequest(r) \/ LinkFails(r) \/ RegisterAppAccount(r)
  PROVE  Granted!Link(r) \/ Granted!Lapse(r) \/ UNCHANGED Granted!vars
<1> DEFINE k == KeyOf[r]
           granter == [x \in Requests |-> IF status[x] = "registered" THEN approver[x] ELSE None]
           open == {x \in Requests : linking[x] \in {"lookup", "record"}}
           acts == [x \in AppKeys |-> ActsAs(x)]
<1>1. /\ k \in AppKeys /\ linking[r] \in {"lookup", "record"}
      /\ status[r] = "registered" /\ UNCHANGED granter
      /\ \A x \in Requests \ {r} : linking'[x] = linking[x]
      /\ linking'[r] \in {"record", "cleanup"}
  BY ConnectAssumption DEF Inv, TypeOK, RequestsOK, RequestOK, LookupAuthRequest, LinkFails,
     RegisterAppAccount, indexd
<1>2. linking'[r] = "record" => open' = open
  BY <1>1
<1>3. linking'[r] = "cleanup" => r \in open /\ open' = open \ {r}
  BY <1>1
<1>4. CASE UNCHANGED appDb
  <2>1. UNCHANGED acts
    BY <1>4 DEF ActsAs, appDb
  <2>2. QED
    BY <1>1, <1>2, <1>3, <2>1 DEF Granted!Lapse, Granted!vars
<1>5. CASE RegisterAppAccount(r) /\ appRow[k] = "none"
  <2>1. /\ appRow' = [appRow EXCEPT ![k] = "live"]
        /\ appUser' = [appUser EXCEPT ![k] = approver[r]]
        /\ linking'[r] = "cleanup"
    BY <1>5 DEF RegisterAppAccount, Inv, TypeOK, RequestsOK, RequestOK
  <2>2. acts' = [acts EXCEPT ![k] = granter[r]] /\ acts[k] = None
    BY <1>1, <1>5, <2>1 DEF ActsAs, Inv, TypeOK
  <2>3. QED
    BY <1>1, <1>3, <2>1, <2>2 DEF Granted!Link
<1>6. QED
  BY <1>4, <1>5 DEF LookupAuthRequest, LinkFails, RegisterAppAccount

LEMMA ForgetUnlinks ==
  ASSUME Inv, NEW d \in Removals, ForgetApp(d)
  PROVE  target[d] \in AppKeys /\ Granted!Unlink(target[d])
<1> DEFINE k == target[d]
<1>1. /\ k \in AppKeys /\ appRow' = [appRow EXCEPT ![k] = SoftDelete(@)]
      /\ UNCHANGED <<status, approver, linking, appUser>>
  BY DEF ForgetApp, Inv, RemovalsKnown, indexd
<1>2. appRow'[k] # "live" /\ \A x \in AppKeys \ {k} : appRow'[x] = appRow[x]
  BY <1>1 DEF SoftDelete, Inv, TypeOK
<1>3. [x \in AppKeys |-> ActsAs(x)]' = [[x \in AppKeys |-> ActsAs(x)] EXCEPT ![k] = None]
  BY <1>1, <1>2 DEF ActsAs
<1>4. QED
  BY <1>1, <1>3 DEF Granted!Unlink

LEMMA StepDelegates == Inv /\ [Next]_vars => [Granted!Next]_(Granted!vars)
<1> SUFFICES ASSUME Inv, [Next]_vars PROVE [Granted!Next]_(Granted!vars)
  OBVIOUS
<1>1. ASSUME NEW r \in Requests, LinkStep(r) PROVE [Granted!Next]_(Granted!vars)
  BY <1>1, RegisterGrants, LinkUses, QuietSteps DEF LinkStep, Granted!Next
<1>2. ASSUME NEW d \in Removals, RemoveStep(d) PROVE [Granted!Next]_(Granted!vars)
  BY <1>2, ForgetUnlinks, QuietSteps DEF Granted!Next
<1>3. QED
  BY <1>1, <1>2, QuietSteps DEF Next

(* Registering, recording and removing implement the delegation.           *)
THEOREM ConnectImplementsDelegation == Spec => ImplementsDelegation
<1>1. Init => Granted!Init
  BY DEF Init, Granted!Init, ActsAs
<1>2. QED
  BY <1>1, StepDelegates, Initially, Inductive, PTL DEF Spec, ImplementsDelegation, Granted!Spec
=============================================================================
