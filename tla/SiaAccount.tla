------------------------------- MODULE SiaAccount -------------------------------
(***************************************************************************)
(* One user's sia_accounts row, the quota indexd keeps for the same user,  *)
(* and the three pieces of code that write them:                           *)
(*   - enforceFundingTarget and UpdateFundTargetBytes, started by the cron *)
(*     job, by every pin and unpin and by a change of plan (Enforcers);    *)
(*   - the connect page and ProvisionAccount (Provisioners: browser tabs); *)
(*   - the part of SyncFunding that saves the row (Syncs).                 *)
(* Each reads the whole row, works on its copy and saves the whole copy;   *)
(* only UpdateFundTargetBytes takes the per-user mutex.                    *)
(*                                                                         *)
(* A fund target counts the apps it is meant for, each of which may use    *)
(* the whole pipe: n stands for BandwidthBytesPerInterval * n divided by   *)
(* the number of contracts, 0 for no funding.  A page of the funding feed  *)
(* holds one event.                                                        *)
(***************************************************************************)
EXTENDS Naturals, FiniteSets

CONSTANTS
  Enforcers, Provisioners, Syncs, \* runs of each kind that may overlap
  None,         \* nobody; no quota
  MaxApps,      \* bound: apps connected to the account
  MaxChanges,   \* bound: changes of plan, usage, apps and contracts
  MaxKeys,      \* bound: connect keys indexd issues
  MaxEvents,    \* bound: length of the funding feed
  MaxFaults     \* bound: failed calls and restarts

Procs == Enforcers \cup Provisioners \cup Syncs

ASSUME SiaAccountAssumption ==
  /\ Enforcers \cap Provisioners = {}
  /\ Syncs \cap (Enforcers \cup Provisioners) = {}
  /\ None \notin Procs /\ None \notin Nat
  /\ MaxApps \in Nat \ {0} /\ MaxChanges \in Nat /\ MaxKeys \in Nat
  /\ MaxEvents \in Nat /\ MaxFaults \in Nat

VARIABLES
  row,        \* sia_accounts: the user's row
  quota,      \* indexd: fund target of the user's quota, None without one
  issued,     \* indexd: connect keys issued; the keys are 1 .. issued
  adrift,     \* history: the row may have lost track of the quota (see below)
  plan,       \* portal: the user has a storage limit
  space,      \* portal: for how many apps the storage check passes
  room,       \* portal: ... and the upload and download checks
  apps,       \* sia_app_accounts: the user's live rows
  contracts,  \* activeContractCount is not zero
  holder,     \* SiaService.mu: who holds the user's mutex
  cursor,     \* sia_funding_cursors
  recorded,   \* quota service: how often each event was recorded
  pc,         \* where every run is
  job,        \* locals of every run
  changes, faults

usage == <<plan, space, room>>
env == <<usage, apps, contracts, changes>>
feed == <<cursor, recorded>>
vars == <<row, quota, adrift, issued, env, holder, feed, pc, job, faults>>

Targets == 0 .. MaxApps
Counts == 0 .. MaxApps
Rooms == 0 .. MaxApps + 1   \* one more than is connected: the connect page
Keys == 0 .. MaxKeys
Ids == 1 .. MaxEvents
Row == [exists : BOOLEAN, quotaKey : BOOLEAN, connectKey : Keys,
        target : Targets, lastEvent : 0 .. MaxEvents]
Job == [copy : Row, want : Targets, read : Targets \cup {None},
        count : Counts \cup {None}, key : Keys, event : 0 .. MaxEvents]
Steps == {"idle", "account", "limits", "contracts", "apps", "storage", "bandwidth",
          "lock", "reread", "readQuota", "putQuota", "save",
          "shown", "register", "load", "resolve", "putProvision", "addKey",
          "saveProvision", "lookup", "saveEvent", "record", "persist"}

NoRow == [exists |-> FALSE, quotaKey |-> FALSE, connectKey |-> 0,
          target |-> 0, lastEvent |-> 0]
NoJob == [copy |-> NoRow, want |-> 0, read |-> None, count |-> None, key |-> 0, event |-> 0]

TypeOK ==
  /\ row \in Row
  /\ quota \in Targets \cup {None}
  /\ issued \in Keys
  /\ adrift \in BOOLEAN
  /\ plan \in BOOLEAN /\ space \in Counts /\ room \in Rooms
  /\ apps \in Counts /\ contracts \in BOOLEAN
  /\ holder \in Enforcers \cup {None}
  /\ cursor \in 0 .. MaxEvents
  /\ recorded \in [Ids -> Nat]
  /\ pc \in [Procs -> Steps]
  /\ job \in [Procs -> Job]
  /\ changes \in 0 .. MaxChanges
  /\ faults \in 0 .. MaxFaults

Init ==
  /\ row = NoRow
  /\ quota = None
  /\ issued = 0
  /\ adrift = FALSE
  /\ plan \in BOOLEAN
  /\ space = MaxApps /\ room = MaxApps + 1
  /\ apps = 0
  /\ contracts = TRUE
  /\ holder = None
  /\ cursor = 0
  /\ recorded = [e \in Ids |-> 0]
  /\ pc = [p \in Procs |-> "idle"]
  /\ job = [p \in Procs |-> NoJob]
  /\ changes = 0
  /\ faults = 0

Goto(p, step) == pc' = [pc EXCEPT ![p] = step]

(* Mutant: the deferred call takes the mutex instead of releasing it.      *)
ReturnLocking(p) ==
  /\ pc' = [pc EXCEPT ![p] = "idle"]
  /\ job' = [job EXCEPT ![p] = NoJob]
  /\ holder' = IF holder = p THEN None ELSE p

(* A run ends; what it held of the mutex is released by the defer.         *)
Return(p) ==
  /\ pc' = [pc EXCEPT ![p] = "idle"]
  /\ job' = [job EXCEPT ![p] = NoJob]
  /\ holder' = IF holder = p THEN None ELSE holder

(* A call fails, or the process dies: at most MaxFaults times.             *)
Fault ==
  /\ faults < MaxFaults
  /\ faults' = faults + 1

(* The runs that have replaced the quota and not saved the row yet.  From  *)
(* a PutQuota on, with no other run midway, the row is to follow the quota *)
(* again; what sets it adrift is a PutQuota while another run is midway, a *)
(* run that fails or dies midway, and a sync that saves an older target.   *)
MidwayRuns == {p \in Procs : pc[p] \in {"save", "addKey", "saveProvision"}}

-----------------------------------------------------------------------------
(* "appCount == 0 means the batch fetch succeeded and found 0 apps ->      *)
(* default to 1"                                                           *)
AppsOf(n) == IF n = 0 THEN 1 ELSE n

(* CalculateFundTargetBytes for n apps, of a user with a storage limit.    *)
Budget(n) == IF plan /\ contracts THEN n ELSE 0

(* What the usage checks leave of a target for n apps.                     *)
Checked(n) == IF n <= space /\ n <= room THEN n ELSE 0

Target(n) == IF plan /\ contracts THEN Checked(n) ELSE 0

(* What the account should be funded with now.                             *)
Want == Target(AppsOf(apps))

(* The portal's quota plugin; apps that connect, which takes an account    *)
(* with a key, and disconnect; and the count refreshActiveContractCount    *)
(* finds at Start and at every sync.                                       *)
Change ==
  /\ changes < MaxChanges
  /\ changes' = changes + 1
  /\ \/ plan' = ~plan /\ UNCHANGED <<space, room, apps, contracts>>
     \/ space' \in Counts \ {space} /\ UNCHANGED <<plan, room, apps, contracts>>
     \/ room' \in Rooms \ {room} /\ UNCHANGED <<plan, space, apps, contracts>>
     \/ /\ row.quotaKey
        /\ apps' \in {n \in Counts : n = apps + 1 \/ n + 1 = apps}
        /\ UNCHANGED <<usage, contracts>>
     \/ contracts' = ~contracts /\ UNCHANGED <<usage, apps>>
  /\ UNCHANGED <<row, quota, adrift, issued, holder, feed, pc, job, faults>>

-----------------------------------------------------------------------------
(* SyncFundingJob.Run: the apps of all accounts are counted in one query,  *)
(* before the first account is enforced; when the query fails every        *)
(* enforcement counts its own, as it does when a pin, an unpin or a change *)
(* of plan starts it (StartEnforce).                                       *)
CountApps(p) ==
  /\ pc[p] = "idle"
  /\ row.quotaKey
  /\ job' = [job EXCEPT ![p].count = apps]
  /\ Goto(p, "account")
  /\ UNCHANGED <<row, quota, adrift, issued, env, holder, feed, faults>>

GetAccount(p) ==
  /\ pc[p] = "account"
  /\ job' = [job EXCEPT ![p].copy = row]
  /\ Goto(p, "limits")
  /\ UNCHANGED <<row, quota, adrift, issued, env, holder, feed, faults>>

(* enforceFundingTarget: GetAccount; nothing to do without a QuotaKey.     *)
StartEnforce(p) ==
  /\ pc[p] = "idle"
  /\ row.quotaKey
  /\ job' = [job EXCEPT ![p].copy = row]
  /\ Goto(p, "limits")
  /\ UNCHANGED <<row, quota, adrift, issued, env, holder, feed, faults>>

(* Mutant: a target is never lowered.                                      *)
DecidedUpwards(p, target) ==
  IF target <= job[p].copy.target
    THEN Return(p)
    ELSE /\ job' = [job EXCEPT ![p].want = target]
         /\ Goto(p, "lock")
         /\ UNCHANGED holder

(* The outcome of resolving the limits: on to UpdateFundTargetBytes,       *)
(* unless the row read before says the same already.                       *)
Decided(p, target) ==
  IF target = job[p].copy.target
    THEN Return(p)
    ELSE /\ job' = [job EXCEPT ![p].want = target]
         /\ Goto(p, "lock")
         /\ UNCHANGED holder

(* The count of the job, or else ListAppAccounts.                          *)
Counted(p) == AppsOf(IF job[p].count = None THEN apps ELSE job[p].count)

(* ResolveEffectiveLimits: "no storage limit means no Sia access".  Each   *)
(* thing the target depends on is read in a step of its own.               *)
ResolveLimits(p) ==
  /\ pc[p] = "limits"
  /\ IF plan
       THEN Goto(p, "contracts") /\ UNCHANGED <<job, holder>>
       ELSE Decided(p, 0)
  /\ UNCHANGED <<row, quota, adrift, issued, env, feed, faults>>

(* ResolveEffectiveLimits fails: the target stays at its zero value.       *)
LimitsFail(p) ==
  /\ pc[p] = "limits"
  /\ Fault
  /\ Decided(p, 0)
  /\ UNCHANGED <<row, quota, adrift, issued, env, feed>>

(* activeContractCount.Load(); without contracts the target stays 0 too.   *)
LoadContracts(p) ==
  /\ pc[p] = "contracts"
  /\ IF contracts
       THEN Goto(p, "apps") /\ UNCHANGED <<job, holder>>
       ELSE Decided(p, 0)
  /\ UNCHANGED <<row, quota, adrift, issued, env, feed, faults>>

ListApps(p) ==
  /\ pc[p] = "apps"
  /\ job' = [job EXCEPT ![p].count = Counted(p)]
  /\ Goto(p, "storage")
  /\ UNCHANGED <<row, quota, adrift, issued, env, holder, feed, faults>>

(* ListAppAccounts fails: one app.                                         *)
AppsFail(p) ==
  /\ pc[p] = "apps" /\ job[p].count = None
  /\ Fault
  /\ job' = [job EXCEPT ![p].count = 1]
  /\ Goto(p, "storage")
  /\ UNCHANGED <<row, quota, adrift, issued, env, holder, feed>>

(* CheckStorageQuota; what is asked after a refusal changes nothing.       *)
CheckStorage(p) ==
  /\ pc[p] = "storage"
  /\ IF job[p].count <= space
       THEN Goto(p, "bandwidth") /\ UNCHANGED <<job, holder>>
       ELSE Decided(p, 0)
  /\ UNCHANGED <<row, quota, adrift, issued, env, feed, faults>>

(* CheckUploadQuota and CheckDownloadQuota.                                *)
CheckBandwidth(p) ==
  /\ pc[p] = "bandwidth"
  /\ Decided(p, IF job[p].count <= room THEN job[p].count ELSE 0)
  /\ UNCHANGED <<row, quota, adrift, issued, env, feed, faults>>

(* A check fails: the error is logged and the user passes.                 *)
CheckFails(p) ==
  /\ Fault
  /\ \/ /\ pc[p] = "storage"
        /\ Goto(p, "bandwidth") /\ UNCHANGED <<job, holder>>
     \/ /\ pc[p] = "bandwidth"
        /\ Decided(p, job[p].count)
  /\ UNCHANGED <<row, quota, adrift, issued, env, feed>>

(* Mutant: the mutex is no obstacle.                                       *)
LockAnyway(p) ==
  /\ pc[p] = "lock"
  /\ holder' = p
  /\ Goto(p, "reread")
  /\ UNCHANGED <<row, quota, adrift, issued, env, feed, job, faults>>

(* UpdateFundTargetBytes: LoadOrStore of the user's mutex, and Lock.       *)
Lock(p) ==
  /\ pc[p] = "lock"
  /\ holder = None
  /\ holder' = p
  /\ Goto(p, "reread")
  /\ UNCHANGED <<row, quota, adrift, issued, env, feed, job, faults>>

(* GetAccount again, under the mutex; without a QuotaKey it returns.       *)
Reread(p) ==
  /\ pc[p] = "reread"
  /\ IF row.quotaKey
       THEN /\ job' = [job EXCEPT ![p].copy = row]
            /\ Goto(p, "readQuota")
            /\ UNCHANGED holder
       ELSE Return(p)
  /\ UNCHANGED <<row, quota, adrift, issued, env, feed, faults>>

(* adminClient.Quota: the fields PutQuota has to repeat.                   *)
ReadQuota(p) ==
  /\ pc[p] = "readQuota"
  /\ quota # None
  /\ job' = [job EXCEPT ![p].read = quota]
  /\ Goto(p, "putQuota")
  /\ UNCHANGED <<row, quota, adrift, issued, env, holder, feed, faults>>

PutQuota(p) ==
  /\ pc[p] = "putQuota"
  /\ quota' = job[p].want
  /\ adrift' = (MidwayRuns \ Enforcers # {})
  /\ Goto(p, "save")
  /\ UNCHANGED <<row, issued, env, holder, feed, job, faults>>

(* Mutant: the copy is saved without the new target.                       *)
SaveUntouched(p) ==
  /\ pc[p] = "save"
  /\ row' = job[p].copy
  /\ Return(p)
  /\ UNCHANGED <<quota, adrift, issued, env, feed, faults>>

(* tx.Save(account): every column of the row as it was read, except the    *)
(* target; the mutex is released.                                          *)
SaveTarget(p) ==
  /\ pc[p] = "save"
  /\ row' = [job[p].copy EXCEPT !.target = job[p].want]
  /\ Return(p)
  /\ UNCHANGED <<quota, adrift, issued, env, feed, faults>>

(* Any call of an enforcement fails: it returns the error.                 *)
EnforceFails(p) ==
  /\ pc[p] \in {"account", "reread", "readQuota", "putQuota", "save"}
  /\ Fault
  /\ Return(p)
  /\ adrift' = (adrift \/ p \in MidwayRuns)
  /\ UNCHANGED <<row, quota, issued, env, feed>>

-----------------------------------------------------------------------------
(* ConnectQuotaCheck, of uploads and downloads only, for one app more than *)
(* is connected: without an account row the check fails, which the page    *)
(* takes for a yes.                                                        *)
HasQuota == row.exists => row.target # 0 /\ apps + 1 <= room

(* HandleGETAuthConnect: the connect page.  Without quota the page says so *)
(* and has no way to approve.                                              *)
ViewPage(p) ==
  /\ pc[p] = "idle"
  /\ HasQuota
  /\ Goto(p, "shown")
  /\ UNCHANGED <<row, quota, adrift, issued, env, holder, feed, job, faults>>

(* Reading the account or its apps, or the upload check, fails: taken for  *)
(* a yes too.                                                              *)
ViewUnchecked(p) ==
  /\ pc[p] = "idle"
  /\ Fault
  /\ Goto(p, "shown")
  /\ UNCHANGED <<row, quota, adrift, issued, env, holder, feed, job>>

LeavePage(p) ==
  /\ pc[p] = "shown"
  /\ Goto(p, "idle")
  /\ UNCHANGED <<row, quota, adrift, issued, env, holder, feed, job, faults>>

(* HandlePOSTAuthConnect: the user approves.  Without a connect key the    *)
(* account is provisioned first, if the user's e-mail is verified (the     *)
(* others stay where they are); a failure leaves the page open.            *)
Approve(p) ==
  /\ pc[p] = "shown"
  /\ Goto(p, IF row.connectKey # 0 THEN "idle" ELSE "register")
  /\ UNCHANGED <<row, quota, adrift, issued, env, holder, feed, job, faults>>

(* Mutant: RegisterAccount replaces the row on a conflict.                 *)
RegisterAfresh(p) ==
  /\ pc[p] = "register"
  /\ row' = [NoRow EXCEPT !.exists = TRUE]
  /\ Goto(p, "load")
  /\ UNCHANGED <<quota, adrift, issued, env, holder, feed, job, faults>>

(* RegisterAccount: Create, ON CONFLICT DO NOTHING.                        *)
RegisterAccount(p) ==
  /\ pc[p] = "register"
  /\ row' = IF row.exists THEN row ELSE [NoRow EXCEPT !.exists = TRUE]
  /\ Goto(p, "load")
  /\ UNCHANGED <<quota, adrift, issued, env, holder, feed, job, faults>>

(* ... and GetAccount; with both keys present there is nothing to do.      *)
LoadAccount(p) ==
  /\ pc[p] = "load"
  /\ IF row.quotaKey /\ row.connectKey # 0
       THEN Return(p)
       ELSE /\ job' = [job EXCEPT ![p].copy = row]
            /\ Goto(p, "resolve")
            /\ UNCHANGED holder
  /\ UNCHANGED <<row, quota, adrift, issued, env, feed, faults>>

(* The usage is not looked at.                                             *)
ResolveTarget(p) ==
  /\ pc[p] = "resolve"
  /\ job' = [job EXCEPT ![p].want = Budget(1)]
  /\ Goto(p, "putProvision")
  /\ UNCHANGED <<row, quota, adrift, issued, env, holder, feed, faults>>

(* ResolveEffectiveLimits fails: provisioned without funding.              *)
ResolveFails(p) ==
  /\ pc[p] = "resolve"
  /\ Fault
  /\ job' = [job EXCEPT ![p].want = 0]
  /\ Goto(p, "putProvision")
  /\ UNCHANGED <<row, quota, adrift, issued, env, holder, feed>>

(* PutQuota under "user-<id>": it creates the quota or replaces it.        *)
PutProvision(p) ==
  /\ pc[p] = "putProvision"
  /\ quota' = job[p].want
  /\ adrift' = (MidwayRuns # {})
  /\ Goto(p, "addKey")
  /\ UNCHANGED <<row, issued, env, holder, feed, job, faults>>

(* AddAppConnectKey: always a new key.                                     *)
AddKey(p) ==
  /\ pc[p] = "addKey"
  /\ issued < MaxKeys
  /\ issued' = issued + 1
  /\ job' = [job EXCEPT ![p].key = issued + 1]
  /\ Goto(p, "saveProvision")
  /\ UNCHANGED <<row, quota, adrift, env, holder, feed, faults>>

(* tx.Save(account) with the keys and the target.                          *)
SaveProvision(p) ==
  /\ pc[p] = "saveProvision"
  /\ row' = [job[p].copy EXCEPT !.quotaKey = TRUE, !.connectKey = job[p].key,
                                !.target = job[p].want]
  /\ Return(p)
  /\ UNCHANGED <<quota, adrift, issued, env, feed, faults>>

(* Mutant: a failed call is only logged.                                   *)
ProvisionGoesOn(p) ==
  /\ pc[p] \in {"putProvision", "addKey"}
  /\ Fault
  /\ Goto(p, IF pc[p] = "addKey" THEN "saveProvision" ELSE "addKey")
  /\ UNCHANGED <<row, quota, adrift, issued, env, holder, feed, job>>

(* Any call of a provisioning fails: the page reports it and stays open.   *)
ProvisionFails(p) ==
  /\ pc[p] \in {"register", "load", "putProvision", "addKey", "saveProvision"}
  /\ Fault
  /\ Goto(p, "shown")
  /\ job' = [job EXCEPT ![p] = NoJob]
  /\ adrift' = (adrift \/ p \in MidwayRuns)
  /\ UNCHANGED <<row, quota, issued, env, holder, feed>>

-----------------------------------------------------------------------------
(* SyncFunding: the next event after the cursor.  indexd charges nobody    *)
(* who was not provisioned.                                                *)
FetchEvent(p) ==
  /\ pc[p] = "idle"
  /\ cursor < MaxEvents
  /\ row.quotaKey
  /\ job' = [job EXCEPT ![p].event = cursor + 1]
  /\ Goto(p, "lookup")
  /\ UNCHANGED <<row, quota, adrift, issued, env, holder, feed, faults>>

(* The owner's row; an event it has seen already is skipped.               *)
Lookup(p) ==
  /\ pc[p] = "lookup"
  /\ job' = [job EXCEPT ![p].copy = row]
  /\ Goto(p, IF job[p].event <= row.lastEvent THEN "persist" ELSE "saveEvent")
  /\ UNCHANGED <<row, quota, adrift, issued, env, holder, feed, faults>>

(* tx.Save(&account): every column as looked up, except the last event.    *)
SaveEvent(p) ==
  /\ pc[p] = "saveEvent"
  /\ row' = [job[p].copy EXCEPT !.lastEvent = job[p].event]
  /\ adrift' = (adrift \/ (MidwayRuns = {} /\ job[p].copy.target # row.target))
  /\ Goto(p, "record")
  /\ UNCHANGED <<quota, issued, env, holder, feed, job, faults>>

Record(p) ==
  /\ pc[p] = "record"
  /\ recorded' = [recorded EXCEPT ![job[p].event] = @ + 1]
  /\ Goto(p, "persist")
  /\ UNCHANGED <<row, quota, adrift, issued, env, holder, cursor, job, faults>>

(* A failed lookup, save or record: the loop goes on without the event.    *)
EventFails(p) ==
  /\ pc[p] \in {"lookup", "saveEvent", "record"}
  /\ Fault
  /\ Goto(p, "persist")
  /\ UNCHANGED <<row, quota, adrift, issued, env, holder, feed, job>>

PersistCursor(p) ==
  /\ pc[p] = "persist"
  /\ cursor' = job[p].event
  /\ Return(p)
  /\ UNCHANGED <<row, quota, adrift, issued, env, recorded, faults>>

PersistFails(p) ==
  /\ pc[p] = "persist"
  /\ Fault
  /\ Return(p)
  /\ UNCHANGED <<row, quota, adrift, issued, env, feed>>

-----------------------------------------------------------------------------
(* The process dies and comes back: runs, mutexes and the cached contract  *)
(* count are gone.  When Start can reach indexd, Change restores the count.*)
Restart ==
  /\ Fault
  /\ pc' = [p \in Procs |-> "idle"]
  /\ job' = [p \in Procs |-> NoJob]
  /\ holder' = None
  /\ contracts' = FALSE
  /\ adrift' = (adrift \/ MidwayRuns # {})
  /\ UNCHANGED <<row, quota, issued, usage, apps, changes, feed>>

EnforceStep(p) ==
  \/ GetAccount(p) \/ ResolveLimits(p) \/ LoadContracts(p) \/ ListApps(p)
  \/ CheckStorage(p) \/ CheckBandwidth(p) \/ Lock(p) \/ Reread(p)
  \/ ReadQuota(p) \/ PutQuota(p) \/ SaveTarget(p)

ProvisionStep(p) ==
  \/ RegisterAccount(p) \/ LoadAccount(p) \/ ResolveTarget(p)
  \/ PutProvision(p) \/ AddKey(p) \/ SaveProvision(p)

UserStep(p) == ViewPage(p) \/ LeavePage(p) \/ Approve(p)

SyncStep(p) ==
  \/ FetchEvent(p) \/ Lookup(p) \/ SaveEvent(p) \/ Record(p) \/ PersistCursor(p)

Next ==
  \/ Change \/ Restart
  \/ \E p \in Enforcers :
       \/ StartEnforce(p) \/ CountApps(p) \/ EnforceStep(p)
       \/ LimitsFail(p) \/ AppsFail(p) \/ CheckFails(p) \/ EnforceFails(p)
  \/ \E p \in Provisioners :
       \/ UserStep(p) \/ ProvisionStep(p)
       \/ ViewUnchecked(p) \/ ResolveFails(p) \/ ProvisionFails(p)
  \/ \E p \in Syncs : SyncStep(p) \/ EventFails(p) \/ PersistFails(p)

Spec == Init /\ [][Next]_vars

(* The cron job enforces every provisioned account every five minutes, a   *)
(* request that has begun runs to its end, and Go's mutexes do not starve; *)
(* nothing makes the user open the connect page.                           *)
FairSpec ==
  /\ Spec
  /\ WF_vars(\E p \in Enforcers : CountApps(p))
  /\ \A p \in Enforcers : WF_vars(EnforceStep(p)) /\ SF_vars(Lock(p))
  /\ \A p \in Provisioners : WF_vars(ProvisionStep(p))
  /\ \A p \in Syncs : WF_vars(SyncStep(p))

-----------------------------------------------------------------------------
(* enforceFundingTarget trusts the row's target to be indexd's ("Skip      *)
(* update if unchanged").  The two agree whenever no run is midway, except *)
(* after what sets the row adrift, and the next PutQuota that no other run *)
(* overlaps brings them together again; two updates never set it adrift,   *)
(* for the mutex keeps them apart.                                         *)
DriftAccounted ==
  row.quotaKey /\ MidwayRuns = {} /\ row.target # quota => adrift

(* "Per-user lock to prevent TOCTOU race between Quota read and PutQuota   *)
(* write" (UpdateFundTargetBytes): what an update read is still indexd's   *)
(* quota when it replaces it.  Not so with two tabs: the second one's      *)
(* provisioning replaces the quota without the lock.                       *)
QuotaReadStaysCurrent ==
  \A p \in Enforcers : pc[p] = "putQuota" => quota = job[p].read

(* A provisioned row is backed by indexd: its quota exists and its connect *)
(* key was issued, however many tabs provision and whatever fails midway.  *)
KeyBacked ==
  row.quotaKey => quota # None /\ row.connectKey \in 1 .. issued

(* Connect keys at indexd that no row knows come from tabs that provision  *)
(* at the same time and from a provisioning that failed after its key was  *)
(* issued, and from nothing else: at most one key per tab, and one more    *)
(* per tab for every failure.                                              *)
KeysAccounted == issued <= Cardinality(Provisioners) * (faults + 1)

(* Once provisioned, always provisioned: no Save of an old copy of the row *)
(* takes the keys away again.                                              *)
KeysStay == [][row.quotaKey => row'.quotaKey /\ row'.connectKey # 0]_vars

(* Once plan, usage, apps and contracts stop changing, a provisioned       *)
(* user's quota at indexd settles on what they call for (Change is         *)
(* bounded, so they do stop), whichever older numbers enforcements that    *)
(* began earlier still work with; also when there were no contracts for a  *)
(* while and the target went to 0.                                         *)
Converges == <>[](row.quotaKey => quota = Want)

(* What a run will still write, if anything, is what is wanted now.        *)
UpToDate(p) ==
  /\ pc[p] \in {"account", "limits"} => Target(Counted(p)) = Want
  /\ pc[p] = "contracts" => (IF contracts THEN Checked(Counted(p)) ELSE 0) = Want
  /\ pc[p] = "apps" => Checked(Counted(p)) = Want
  /\ pc[p] = "storage" => Checked(job[p].count) = Want
  /\ pc[p] = "bandwidth" => (IF job[p].count <= room THEN job[p].count ELSE 0) = Want
  /\ pc[p] \in {"lock", "reread", "readQuota", "putQuota", "save",
                 "putProvision", "addKey", "saveProvision"} => job[p].want = Want
  /\ pc[p] = "resolve" => Budget(1) = Want
  /\ pc[p] = "saveEvent" => job[p].copy.target = Want

Settled ==
  /\ row.quotaKey /\ row.target = Want /\ quota = Want
  /\ \A p \in Procs : UpToDate(p)

(* What Converges reaches is kept: while plan, usage, apps and contracts   *)
(* stay and no call fails, a settled row and quota stay settled, whichever *)
(* enforcements, tabs and syncs begin and overlap.                         *)
SettledStays == [][Settled /\ UNCHANGED <<env, faults>> => Settled']_vars

(* "If FundTargetBytes is 0, the user has no storage quota plan"           *)
(* (ConnectQuotaCheck): a user who is entitled to funding, and has room    *)
(* for one app more, is not shut out of the connect page for good.         *)
EntitledGetsIn == []<>(Want # 0 /\ apps + 1 <= room => HasQuota)

(* "No storage limit means no Sia access" (enforceFundingTarget): a user   *)
(* who stays without a plan does not keep a connect key to a funded quota. *)
NoAccessWithoutLimit == <>[]~plan => <>[](row.quotaKey => quota = 0)

(* "Dedup: skip events we've already processed for this account"           *)
(* (SyncFunding): no event is recorded twice.                              *)
RecordedOnce == \A e \in Ids : recorded[e] <= 1

(* "no active contracts, skipping" (enforceFundingTarget): an enforcement  *)
(* that saw no contracts, of a user with a plan, writes nothing.           *)
NoContractsSkips ==
  [][\A p \in Enforcers : LoadContracts(p) /\ ~contracts => pc'[p] = "idle"]_vars
=============================================================================
