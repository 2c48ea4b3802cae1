--------------------------------- MODULE Connect ---------------------------------
(***************************************************************************)
(* How an app comes to act for a portal user, and stops:                   *)
(*   HandlePOSTAuthConnectInit      the app opens a connect request        *)
(*   HandlePOSTAuthConnect          the user approves or rejects it; on    *)
(*                                  indexd's 204 a sia_auth_requests row   *)
(*                                  remembers who approved                 *)
(*   HandlePOSTAuthConnectRegister  the app registers its key; on indexd's *)
(*                                  204 a sia_app_accounts row links the   *)
(*                                  key to the user of the auth row        *)
(*   SiaSignedURLMiddleware         the key acts for the row's user        *)
(*   deleteAppHandler               the user disconnects the app           *)
(* and the cron job that cleans up auth rows ten minutes old.              *)
(*                                                                         *)
(* Rows are deleted softly: a row that is "gone" still occupies its unique *)
(* index.  Users here have their sia_accounts row (SiaAccount).            *)
(***************************************************************************)
EXTENDS Naturals

CONSTANTS
  Users,
  Requests,   \* connect requests; each is opened once
  AppKeys,    \* public keys of apps
  KeyOf,      \* the key the app of a request will register
  None,
  Removals,   \* bound: disconnections at a time
  MaxFaults   \* bound: failed or lost calls

ASSUME ConnectAssumption ==
  /\ KeyOf \in [Requests -> AppKeys]
  /\ None \notin Users /\ None \notin AppKeys
  /\ MaxFaults \in Nat

VARIABLES
  status,     \* indexd: what became of a connect request
  approver,   \* indexd: whose connect key answered it
  account,    \* indexd: whose connect key an app account is under
  authRow,    \* sia_auth_requests: the request's row
  authUser,   \* sia_auth_requests: user_id
  expired,    \* auth rows made more than ten minutes ago
  appRow,     \* sia_app_accounts: the key's row
  appUser,    \* sia_app_accounts: owner of sia_account_id
  answering,  \* HandlePOSTAuthConnect, per request
  linking,    \* HandlePOSTAuthConnectRegister, per request
  linkUser,   \* ... the user its auth row named
  removing,   \* DeleteAppAccount, per run
  target,     \* ... the key it removes
  halfway,    \* history: keys whose removal failed after indexd's part
  faults

indexd == <<status, approver, account>>
authDb == <<authRow, authUser, expired>>
appDb == <<appRow, appUser>>
removals == <<removing, target, halfway>>
runs == <<answering, linking, linkUser, removals>>
vars == <<indexd, authDb, appDb, runs, faults>>

RowStates == {"none", "live", "gone"}

TypeOK ==
  /\ status \in [Requests -> {"none", "pending", "approved", "rejected", "registered"}]
  /\ approver \in [Requests -> Users \cup {None}]
  /\ account \in [AppKeys -> Users \cup {None}]
  /\ authRow \in [Requests -> RowStates]
  /\ authUser \in [Requests -> Users \cup {None}]
  /\ expired \subseteq Requests
  /\ appRow \in [AppKeys -> RowStates]
  /\ appUser \in [AppKeys -> Users \cup {None}]
  /\ answering \in [Requests -> {"idle", "store", "remove"}]
  /\ linking \in [Requests -> {"idle", "lookup", "record", "cleanup"}]
  /\ linkUser \in [Requests -> Users \cup {None}]
  /\ removing \in [Removals -> {"idle", "unregister", "forget"}]
  /\ target \in [Removals -> AppKeys \cup {None}]
  /\ halfway \subseteq AppKeys
  /\ faults \in 0 .. MaxFaults

Init ==
  /\ status = [r \in Requests |-> "none"]
  /\ approver = [r \in Requests |-> None]
  /\ account = [k \in AppKeys |-> None]
  /\ authRow = [r \in Requests |-> "none"]
  /\ authUser = [r \in Requests |-> None]
  /\ expired = {}
  /\ appRow = [k \in AppKeys |-> "none"]
  /\ appUser = [k \in AppKeys |-> None]
  /\ answering = [r \in Requests |-> "idle"]
  /\ linking = [r \in Requests |-> "idle"]
  /\ linkUser = [r \in Requests |-> None]
  /\ removing = [d \in Removals |-> "idle"]
  /\ target = [d \in Removals |-> None]
  /\ halfway = {}
  /\ faults = 0

Fault ==
  /\ faults < MaxFaults
  /\ faults' = faults + 1

(* DELETE WHERE deleted_at IS NULL: a live row is gone.                    *)
SoftDelete(row) == IF row = "live" THEN "gone" ELSE row

-----------------------------------------------------------------------------
OpenRequest(r) ==
  /\ status[r] = "none"
  /\ status' = [status EXCEPT ![r] = "pending"]
  /\ UNCHANGED <<approver, account, authDb, appDb, runs, faults>>

(* indexd takes one answer to a request, under the user's connect key.     *)
Answered(r, u, yes) ==
  /\ status[r] = "pending"
  /\ status' = [status EXCEPT ![r] = IF yes THEN "approved" ELSE "rejected"]
  /\ approver' = [approver EXCEPT ![r] = IF yes THEN u ELSE None]

(* Mutant: indexd's status code is not looked at.                          *)
AnswerUnchecked(r, u, yes) ==
  /\ status[r] # "none" /\ authRow[r] = "none" /\ answering[r] = "idle"
  /\ IF status[r] = "pending" THEN Answered(r, u, yes) ELSE UNCHANGED <<status, approver>>
  /\ authUser' = [authUser EXCEPT ![r] = u]
  /\ answering' = [answering EXCEPT ![r] = IF yes THEN "store" ELSE "remove"]
  /\ UNCHANGED <<account, authRow, expired, appDb, linking, linkUser, removals, faults>>

(* The user's answer; authUser is the userID of the handler's session.     *)
Answer(r, u, yes) ==
  /\ Answered(r, u, yes)
  /\ authUser' = [authUser EXCEPT ![r] = u]
  /\ answering' = [answering EXCEPT ![r] = IF yes THEN "store" ELSE "remove"]
  /\ UNCHANGED <<account, authRow, expired, appDb, linking, linkUser, removals, faults>>

(* indexd took the answer, but its reply never came: the handler ends.     *)
AnswerLost(r, u, yes) ==
  /\ Answered(r, u, yes)
  /\ Fault
  /\ UNCHANGED <<account, authDb, appDb, runs>>

(* StoreAuthRequest; request_id is unique, gone rows included.             *)
StoreAuthRequest(r) ==
  /\ answering[r] = "store"
  /\ authRow' = [authRow EXCEPT ![r] = IF @ = "none" THEN "live" ELSE @]
  /\ answering' = [answering EXCEPT ![r] = "idle"]
  /\ UNCHANGED <<indexd, authUser, expired, appDb, linking, linkUser, removals, faults>>

DeleteRejected(r) ==
  /\ answering[r] = "remove"
  /\ authRow' = [authRow EXCEPT ![r] = SoftDelete(@)]
  /\ answering' = [answering EXCEPT ![r] = "idle"]
  /\ UNCHANGED <<indexd, authUser, expired, appDb, linking, linkUser, removals, faults>>

(* Either database call fails: it is logged, the client still gets a 204.  *)
AnswerRowFails(r) ==
  /\ answering[r] # "idle"
  /\ Fault
  /\ answering' = [answering EXCEPT ![r] = "idle"]
  /\ UNCHANGED <<indexd, authDb, appDb, linking, linkUser, removals>>

-----------------------------------------------------------------------------
(* indexd registers the key of an approved request, under the connect key  *)
(* that approved it.  The app learns of the approval from indexd.          *)
Registered(r) ==
  /\ status[r] = "approved"
  /\ account[KeyOf[r]] = None
  /\ status' = [status EXCEPT ![r] = "registered"]
  /\ account' = [account EXCEPT ![KeyOf[r]] = approver[r]]
  /\ UNCHANGED approver

Register(r) ==
  /\ Registered(r)
  /\ linking' = [linking EXCEPT ![r] = "lookup"]
  /\ UNCHANGED <<authDb, appDb, answering, linkUser, removals, faults>>

RegisterLost(r) ==
  /\ Registered(r)
  /\ Fault
  /\ UNCHANGED <<authDb, appDb, runs>>

(* GetAuthRequest: a live row that has not expired.                        *)
LookupAuthRequest(r) ==
  /\ linking[r] = "lookup"
  /\ IF authRow[r] = "live" /\ r \notin expired
       THEN /\ linkUser' = [linkUser EXCEPT ![r] = authUser[r]]
            /\ linking' = [linking EXCEPT ![r] = "record"]
       ELSE /\ UNCHANGED linkUser
            /\ linking' = [linking EXCEPT ![r] = "cleanup"]
  /\ UNCHANGED <<indexd, authDb, appDb, answering, removals, faults>>

(* Mutant: on a conflict the row is given to the new user.                 *)
RegisterUpsert(r) ==
  /\ linking[r] = "record"
  /\ appRow' = [appRow EXCEPT ![KeyOf[r]] = IF @ = "none" THEN "live" ELSE @]
  /\ appUser' = [appUser EXCEPT ![KeyOf[r]] = linkUser[r]]
  /\ linking' = [linking EXCEPT ![r] = "cleanup"]
  /\ UNCHANGED <<indexd, authDb, answering, linkUser, removals, faults>>

(* Mutant: the ID of the request is passed for the ID of the account.      *)
RegisterForRequest(r) ==
  /\ linking[r] = "record"
  /\ IF appRow[KeyOf[r]] = "none"
       THEN /\ appRow' = [appRow EXCEPT ![KeyOf[r]] = "live"]
            /\ appUser' = [appUser EXCEPT ![KeyOf[r]] = r]
       ELSE UNCHANGED appDb
  /\ linking' = [linking EXCEPT ![r] = "cleanup"]
  /\ UNCHANGED <<indexd, authDb, answering, linkUser, removals, faults>>

(* RegisterAppAccount: Create, ON CONFLICT (account_key) DO NOTHING.  On a *)
(* conflict the row is looked up instead; the outcome is only logged.      *)
RegisterAppAccount(r) ==
  /\ linking[r] = "record"
  /\ IF appRow[KeyOf[r]] = "none"
       THEN /\ appRow' = [appRow EXCEPT ![KeyOf[r]] = "live"]
            /\ appUser' = [appUser EXCEPT ![KeyOf[r]] = linkUser[r]]
       ELSE UNCHANGED appDb
  /\ linking' = [linking EXCEPT ![r] = "cleanup"]
  /\ UNCHANGED <<indexd, authDb, answering, linkUser, removals, faults>>

(* Reading the auth row or the account, or creating the app row, fails.    *)
LinkFails(r) ==
  /\ linking[r] \in {"lookup", "record"}
  /\ Fault
  /\ linking' = [linking EXCEPT ![r] = "cleanup"]
  /\ UNCHANGED <<indexd, authDb, appDb, answering, linkUser, removals>>

DeleteAuthRequest(r) ==
  /\ linking[r] = "cleanup"
  /\ authRow' = [authRow EXCEPT ![r] = SoftDelete(@)]
  /\ linking' = [linking EXCEPT ![r] = "idle"]
  /\ UNCHANGED <<indexd, authUser, expired, appDb, answering, linkUser, removals, faults>>

DeleteAuthFails(r) ==
  /\ linking[r] = "cleanup"
  /\ Fault
  /\ linking' = [linking EXCEPT ![r] = "idle"]
  /\ UNCHANGED <<indexd, authDb, appDb, answering, linkUser, removals>>

-----------------------------------------------------------------------------
(* Ten minutes after the row was made (AuthRequestTTL).                    *)
Expire(r) ==
  /\ authRow[r] = "live"
  /\ r \notin expired
  /\ expired' = expired \cup {r}
  /\ UNCHANGED <<indexd, authRow, authUser, appDb, runs, faults>>

(* Mutant: the cleanup looks only for the rows of registered requests.     *)
CleanupRegistered ==
  /\ \E r \in expired : authRow[r] = "live"
  /\ authRow' = [r \in Requests |->
       IF r \in expired /\ status[r] = "registered" THEN SoftDelete(authRow[r])
                                                    ELSE authRow[r]]
  /\ UNCHANGED <<indexd, authUser, expired, appDb, runs, faults>>

(* CleanupExpiredAuthRequests, the cron job.                               *)
CleanupExpired ==
  /\ \E r \in expired : authRow[r] = "live"
  /\ authRow' = [r \in Requests |->
       IF r \in expired THEN SoftDelete(authRow[r]) ELSE authRow[r]]
  /\ UNCHANGED <<indexd, authUser, expired, appDb, runs, faults>>

-----------------------------------------------------------------------------
(* DeleteAppAccount: the key's row, if it is the user's.                   *)
FindApp(d, k, u) ==
  /\ removing[d] = "idle"
  /\ appRow[k] = "live" /\ appUser[k] = u
  /\ removing' = [removing EXCEPT ![d] = "unregister"]
  /\ target' = [target EXCEPT ![d] = k]
  /\ UNCHANGED <<indexd, authDb, appDb, answering, linking, linkUser, halfway, faults>>

(* Mutant: the row is left to the next cleanup.                            *)
UnregisterOnly(d) ==
  /\ removing[d] = "unregister"
  /\ account' = [account EXCEPT ![target[d]] = None]
  /\ removing' = [removing EXCEPT ![d] = "idle"]
  /\ UNCHANGED <<status, approver, authDb, appDb, answering, linking, linkUser, target,
                 halfway, faults>>

(* adminClient.DeleteAccount.                                              *)
UnregisterApp(d) ==
  /\ removing[d] = "unregister"
  /\ account' = [account EXCEPT ![target[d]] = None]
  /\ removing' = [removing EXCEPT ![d] = "forget"]
  /\ UNCHANGED <<status, approver, authDb, appDb, answering, linking, linkUser, target,
                 halfway, faults>>

(* indexd may also answer that there is no such account, once another run  *)
(* has deleted it.                                                         *)
AlreadyUnregistered(d) ==
  /\ removing[d] = "unregister" /\ account[target[d]] = None
  /\ removing' = [removing EXCEPT ![d] = "idle"]
  /\ UNCHANGED <<indexd, authDb, appDb, answering, linking, linkUser, target, halfway, faults>>

ForgetApp(d) ==
  /\ removing[d] = "forget"
  /\ appRow' = [appRow EXCEPT ![target[d]] = SoftDelete(@)]
  /\ removing' = [removing EXCEPT ![d] = "idle"]
  /\ UNCHANGED <<indexd, authDb, appUser, answering, linking, linkUser, target, halfway, faults>>

RemoveFails(d) ==
  /\ removing[d] # "idle"
  /\ Fault
  /\ halfway' = IF removing[d] = "forget" THEN halfway \cup {target[d]} ELSE halfway
  /\ removing' = [removing EXCEPT ![d] = "idle"]
  /\ UNCHANGED <<indexd, authDb, appDb, answering, linking, linkUser, target>>

-----------------------------------------------------------------------------
AnswerStep(r) ==
  \/ \E u \in Users, yes \in BOOLEAN : Answer(r, u, yes) \/ AnswerLost(r, u, yes)
  \/ StoreAuthRequest(r) \/ DeleteRejected(r) \/ AnswerRowFails(r)

LinkStep(r) ==
  \/ Register(r) \/ RegisterLost(r)
  \/ LookupAuthRequest(r) \/ RegisterAppAccount(r) \/ DeleteAuthRequest(r)
  \/ LinkFails(r) \/ DeleteAuthFails(r)

RemoveStep(d) ==
  \/ \E k \in AppKeys, u \in Users : FindApp(d, k, u)
  \/ UnregisterApp(d) \/ AlreadyUnregistered(d) \/ ForgetApp(d) \/ RemoveFails(d)

Next ==
  \/ \E r \in Requests :
       OpenRequest(r) \/ AnswerStep(r) \/ LinkStep(r) \/ Expire(r)
  \/ CleanupExpired
  \/ \E d \in Removals : RemoveStep(d)

Spec == Init /\ [][Next]_vars

(* Time passes, and the cron job runs every five minutes.                  *)
FairSpec ==
  /\ Spec
  /\ \A r \in Requests : WF_vars(Expire(r))
  /\ WF_vars(CleanupExpired)

-----------------------------------------------------------------------------
(* The user a request signed with key k is served as, once its signature   *)
(* and its validUntil have been verified (SiaSignedURLMiddleware).         *)
ActsAs(k) == IF appRow[k] = "live" THEN appUser[k] ELSE None

Granted == INSTANCE Delegation WITH
  granter <- [r \in Requests |-> IF status[r] = "registered" THEN approver[r] ELSE None],
  open <- {r \in Requests : linking[r] \in {"lookup", "record"}},
  acts <- [k \in AppKeys |-> ActsAs(k)]

(* An app acts for a user only if that user approved a connect request     *)
(* which that app's key was registered for: the record links "the app to   *)
(* the user who approved the connection" (connect_register.go), whatever   *)
(* races, expires, fails, is rejected or is disconnected on the way.       *)
ActsForApprover ==
  \A k \in AppKeys : ActsAs(k) # None =>
    \E r \in Requests :
      KeyOf[r] = k /\ status[r] = "registered" /\ approver[r] = ActsAs(k)

(* The same over time: a registration links its key at most once, a key is *)
(* not taken from one user by another's registration, and only removals    *)
(* take it away.                                                           *)
ImplementsDelegation == Granted!Spec

(* The portal serves a key as the user whose account it is under at        *)
(* indexd, unless a removal is, or failed, between its two halves: no      *)
(* second removal, lost reply or other user's registration of the same key *)
(* gets the two databases apart.                                           *)
ServedAsRegistered ==
  \A k \in AppKeys : ActsAs(k) # None =>
    \/ account[k] = ActsAs(k)
    \/ k \in halfway
    \/ \E d \in Removals : target[d] = k /\ removing[d] = "forget"

(* No auth row outlives its ten minutes for good, even one that was stored *)
(* after the registration that should have used it up.                     *)
AuthRowsExpire == \A r \in Requests : (authRow[r] = "live") ~> (authRow[r] = "gone")

(* "On success from indexd, create the app account record"                 *)
(* (connect_register.go), "linking the app to the user who approved the    *)
(* connection": without a failed call or an expired row, a registration    *)
(* ends with the app acting for its approver.                              *)
RegisteredAppActs ==
  [][\A r \in Requests : DeleteAuthRequest(r) /\ faults = 0 /\ r \notin expired =>
       ActsAs(KeyOf[r]) = approver[r]]_vars

(* The same of RegisterAppAccount alone: when it has been called for a     *)
(* user, the key acts for that user.                                       *)
RegisterAppAccountLinks ==
  [][\A r \in Requests : RegisterAppAccount(r) =>
       ActsAs(KeyOf[r])' = linkUser[r]]_vars
=============================================================================
