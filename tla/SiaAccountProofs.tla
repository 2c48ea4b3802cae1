---------------------------- MODULE SiaAccountProofs ----------------------------
(***************************************************************************)
(* Proofs about SiaAccount, for any number of overlapping enforcements,    *)
(* tabs and syncs, and any number of changes, keys, events and faults.     *)
(***************************************************************************)
EXTENDS SiaAccount, TLAPS

(* A row with both keys, the connect key one of the first n issued.        *)
Keyed(c, n) == c.exists /\ c.quotaKey /\ c.connectKey \in 1 .. n

Holding == {"readQuota", "putQuota", "save", "saveEvent"}
Provisioning == {"resolve", "putProvision", "addKey", "saveProvision"}

(* What a run at a step with locals j relies on: the copy it will save has *)
(* the keys, or is of an existing row it is about to give the keys to; and *)
(* what is checked is a number of apps.                                    *)
LocalOK(j, step, r, q, n) ==
  /\ step \in {"storage", "bandwidth"} => j.count \in Counts \ {0}
  /\ step = "lookup" \/ step \in Holding => r.quotaKey
  /\ step = "load" => r.exists
  /\ step \in Holding => Keyed(j.copy, n) /\ q # None
  /\ step \in Provisioning => j.copy.exists
  /\ step \in {"addKey", "saveProvision"} => q # None
  /\ step = "saveProvision" => j.key \in 1 .. n

RowOK == row.quotaKey => Keyed(row, issued) /\ quota # None

LocalsOK == \A p \in Procs : LocalOK(job[p], pc[p], row, quota, issued)

Inv == TypeOK /\ RowOK /\ LocalsOK

(* What no step takes back.                                                *)
Grows ==
  /\ row.exists => row'.exists
  /\ row.quotaKey => row'.quotaKey
  /\ quota # None => quota' # None
  /\ issued <= issued'

StoreOK == row \in Row /\ quota \in Targets \cup {None} /\ issued \in Keys
RunsOK == pc \in [Procs -> Steps] /\ job \in [Procs -> Job]
RestOK ==
  /\ adrift \in BOOLEAN
  /\ plan \in BOOLEAN /\ space \in Counts /\ room \in Rooms
  /\ apps \in Counts /\ contracts \in BOOLEAN
  /\ holder \in Enforcers \cup {None}
  /\ cursor \in 0 .. MaxEvents
  /\ recorded \in [Ids -> Nat]
  /\ changes \in 0 .. MaxChanges
  /\ faults \in 0 .. MaxFaults

LEMMA TypeParts == TypeOK <=> StoreOK /\ RunsOK /\ RestOK
BY DEF TypeOK, StoreOK, RunsOK, RestOK

LEMMA TypePartsNext == TypeOK' <=> StoreOK' /\ RunsOK' /\ RestOK'
BY DEF TypeOK, StoreOK, RunsOK, RestOK

LEMMA NoJobTyped == NoJob \in Job /\ NoRow \in Row
BY SiaAccountAssumption DEF NoJob, Job, NoRow, Row, Keys, Targets

LEMMA NoneIsNoTarget == None \notin Targets
BY SiaAccountAssumption DEF Targets

(* Whatever number of apps is counted, the target is one a row can hold.   *)
LEMMA TargetsTyped ==
  /\ Targets = Counts /\ 0 \in Targets /\ 1 \in Counts \ {0}
  /\ Budget(1) \in Targets
<1>1. Targets = Counts /\ 0 \in Targets /\ 1 \in Targets
  BY SiaAccountAssumption DEF Targets, Counts
<1>2. QED
  BY <1>1 DEF Budget

LEMMA CountedTyped ==
  ASSUME TypeOK, NEW p \in Procs
  PROVE  Counted(p) \in Counts \ {0}
<1>1. job[p].count \in Counts \cup {None} /\ apps \in Counts
  BY DEF TypeOK, Job
<1>2. QED
  BY <1>1, TargetsTyped DEF Counted, AppsOf

LEMMA FaultTyped == RestOK /\ Fault => faults' \in 0 .. MaxFaults
BY SiaAccountAssumption DEF RestOK, Fault

(* What a run relied on it can rely on after a step of another.            *)
LEMMA LocalStays ==
  ASSUME TypeOK, StoreOK', Grows, NEW j \in Job, NEW step \in Steps,
         LocalOK(j, step, row, quota, issued)
  PROVE  LocalOK(j, step, row', quota', issued')
<1>1. issued \in Nat /\ issued' \in Nat
  BY SiaAccountAssumption DEF TypeOK, StoreOK, Keys
<1>2. \A k \in Nat : k \in 1 .. issued => k \in 1 .. issued'
  BY <1>1 DEF Grows
<1>3. j.copy.connectKey \in Nat /\ j.key \in Nat
  BY SiaAccountAssumption DEF Job, Row, Keys
<1>4. Keyed(j.copy, issued) => Keyed(j.copy, issued')
  BY <1>2, <1>3 DEF Keyed
<1>5. QED
  BY <1>2, <1>3, <1>4 DEF LocalOK, Grows

(* A step of run p to the given step with the given locals.                *)
LEMMA Move ==
  ASSUME Inv, NEW p \in Procs, NEW j \in Job, NEW step \in Steps,
         Goto(p, step), job' = [job EXCEPT ![p] = j],
         StoreOK', RestOK', RowOK', Grows,
         LocalOK(j, step, row', quota', issued')
  PROVE  Inv'
<1>1. pc \in [Procs -> Steps] /\ job \in [Procs -> Job]
  BY DEF Inv, TypeOK
<1>2. RunsOK'
  BY <1>1 DEF Goto, RunsOK
<1>3. TypeOK'
  BY <1>2, TypePartsNext
<1>4. ASSUME NEW x \in Procs PROVE LocalOK(job'[x], pc'[x], row', quota', issued')
  <2>1. CASE x = p
    BY <1>1, <2>1 DEF Goto
  <2>2. CASE x # p
    <3>1. job'[x] = job[x] /\ pc'[x] = pc[x]
      BY <1>1, <2>2 DEF Goto
    <3>2. job[x] \in Job /\ pc[x] \in Steps /\ LocalOK(job[x], pc[x], row, quota, issued)
      BY <1>1 DEF Inv, LocalsOK
    <3>3. LocalOK(job[x], pc[x], row', quota', issued')
      BY <3>2, LocalStays DEF Inv
    <3>4. QED
      BY <3>1, <3>3
  <2>3. QED
    BY <2>1, <2>2
<1>5. LocalsOK'
  BY <1>4 DEF LocalsOK
<1>6. QED
  BY <1>3, <1>5 DEF Inv

(* The same for a step that keeps the row, the quota and the keys: what    *)
(* the run relies on then may be read off the state before.                *)
LEMMA MoveLocally ==
  ASSUME Inv, NEW p \in Procs, NEW j \in Job, NEW step \in Steps,
         Goto(p, step), job' = [job EXCEPT ![p] = j], RestOK',
         UNCHANGED <<row, quota, issued>>, LocalOK(j, step, row, quota, issued)
  PROVE  Inv' /\ Grows
<1>1. StoreOK /\ RowOK /\ issued \in Nat
  BY SiaAccountAssumption DEF Inv, TypeOK, StoreOK, Keys
<1>2. row' = row /\ quota' = quota /\ issued' = issued
  OBVIOUS
<1>3. StoreOK' /\ RowOK' /\ Grows
  BY <1>1, <1>2 DEF StoreOK, RowOK, Grows
<1>4. LocalOK(j, step, row', quota', issued')
  BY <1>2
<1>5. QED
  BY <1>3, <1>4, Move

(* ... and for one that keeps the locals as well.                          *)
LEMMA MoveOnly ==
  ASSUME Inv, NEW p \in Procs, NEW step \in Steps,
         Goto(p, step), UNCHANGED job, RestOK',
         UNCHANGED <<row, quota, issued>>, LocalOK(job[p], step, row, quota, issued)
  PROVE  Inv' /\ Grows
<1>1. job[p] \in Job /\ job' = [job EXCEPT ![p] = job[p]]
  BY DEF Inv, TypeOK
<1>2. QED
  BY <1>1, MoveLocally

LEMMA IdleOK == \A r, q, n : LocalOK(NoJob, "idle", r, q, n) /\ LocalOK(NoJob, "shown", r, q, n)
BY DEF LocalOK, Holding, Provisioning

LEMMA ReturnMoves ==
  ASSUME NEW p \in Procs, Return(p), RestOK
  PROVE  /\ Goto(p, "idle") /\ job' = [job EXCEPT ![p] = NoJob]
         /\ holder' \in Enforcers \cup {None}
BY DEF Return, Goto, RestOK

LEMMA ReturnLocally ==
  ASSUME Inv, NEW p \in Procs, Return(p), UNCHANGED <<row, quota, issued>>,
         holder' \in Enforcers \cup {None} => RestOK'
  PROVE  Inv' /\ Grows
<1>1. RestOK
  BY TypeParts DEF Inv
<1>2. RestOK' /\ Goto(p, "idle") /\ job' = [job EXCEPT ![p] = NoJob]
  BY <1>1, ReturnMoves
<1>3. "idle" \in Steps
  BY DEF Steps
<1>4. QED
  BY <1>2, <1>3, IdleOK, NoJobTyped, MoveLocally

(* Everything but the runs, the row, the quota and the keys stays.         *)
LEMMA RestStays ==
  /\ RestOK /\ UNCHANGED <<env, holder, feed, faults>>
  /\ UNCHANGED adrift \/ adrift' \in BOOLEAN
  => RestOK'
BY DEF RestOK, env, usage, feed

LEMMA RestFaults ==
  /\ RestOK /\ Fault /\ UNCHANGED <<env, holder, feed>>
  /\ UNCHANGED adrift \/ adrift' \in BOOLEAN
  => RestOK'
BY FaultTyped DEF RestOK, env, usage, feed


LEMMA CountAppsStep ==
  ASSUME Inv, NEW p \in Procs PROVE CountApps(p) => Inv' /\ Grows
<1> SUFFICES ASSUME CountApps(p) PROVE Inv' /\ Grows
  OBVIOUS
<1>b. TypeOK /\ RowOK /\ StoreOK /\ RestOK /\ job[p] \in Job /\ apps \in Counts
  BY TypeParts DEF Inv, TypeOK
<1> DEFINE j == [job[p] EXCEPT !.count = apps]
<1>1. RestOK' /\ UNCHANGED <<row, quota, issued>>
  BY <1>b, RestStays DEF CountApps
<1>2. j \in Job /\ "account" \in Steps
  BY <1>b DEF Job, StoreOK, Steps
<1>3. job' = [job EXCEPT ![p] = j] /\ Goto(p, "account")
  BY DEF CountApps
<1>4. LocalOK(j, "account", row, quota, issued)
  BY DEF LocalOK, Holding, Provisioning
<1> HIDE DEF j
<1>5. QED
  BY <1>1, <1>2, <1>3, <1>4, MoveLocally

LEMMA GetAccountStep ==
  ASSUME Inv, NEW p \in Procs PROVE GetAccount(p) => Inv' /\ Grows
<1> SUFFICES ASSUME GetAccount(p) PROVE Inv' /\ Grows
  OBVIOUS
<1>b. TypeOK /\ RowOK /\ StoreOK /\ RestOK /\ job[p] \in Job /\ apps \in Counts
  BY TypeParts DEF Inv, TypeOK
<1> DEFINE j == [job[p] EXCEPT !.copy = row]
<1>1. RestOK' /\ UNCHANGED <<row, quota, issued>>
  BY <1>b, RestStays DEF GetAccount
<1>2. j \in Job /\ "limits" \in Steps
  BY <1>b DEF Job, StoreOK, Steps
<1>3. job' = [job EXCEPT ![p] = j] /\ Goto(p, "limits")
  BY DEF GetAccount
<1>4. LocalOK(j, "limits", row, quota, issued)
  BY DEF LocalOK, Holding, Provisioning
<1> HIDE DEF j
<1>5. QED
  BY <1>1, <1>2, <1>3, <1>4, MoveLocally

LEMMA StartEnforceStep ==
  ASSUME Inv, NEW p \in Procs PROVE StartEnforce(p) => Inv' /\ Grows
<1> SUFFICES ASSUME StartEnforce(p) PROVE Inv' /\ Grows
  OBVIOUS
<1>b. /\ TypeOK /\ RowOK /\ StoreOK /\ RestOK
      /\ job[p] \in Job /\ job[p].copy \in Row /\ pc[p] \in Steps
      /\ LocalOK(job[p], pc[p], row, quota, issued)
  BY TypeParts DEF Inv, LocalsOK, TypeOK, Job
<1> DEFINE j == [job[p] EXCEPT !.copy = row]
<1>1. RestOK' /\ UNCHANGED <<row, quota, issued>>
  BY <1>b, RestStays DEF StartEnforce
<1>2. j \in Job /\ "limits" \in Steps
  BY <1>b, SiaAccountAssumption DEF Job, StoreOK, Steps, Targets, TypeOK, Keys
<1>3. job' = [job EXCEPT ![p] = j] /\ Goto(p, "limits")
  BY DEF StartEnforce
<1>4. LocalOK(j, "limits", row, quota, issued)
  BY <1>b DEF StartEnforce, LocalOK, Keyed, RowOK, Holding, Provisioning, Job
<1> HIDE DEF j
<1>5. QED
  BY <1>1, <1>2, <1>3, <1>4, MoveLocally

LEMMA DecidedStep ==
  ASSUME Inv, NEW p \in Procs, NEW target \in Targets, Decided(p, target),
         UNCHANGED <<row, quota, issued>>,
         holder' \in Enforcers \cup {None} => RestOK'
  PROVE  Inv' /\ Grows
<1>1. CASE target = job[p].copy.target
  BY <1>1, ReturnLocally DEF Decided
<1>2. CASE target # job[p].copy.target
  <2> DEFINE j == [job[p] EXCEPT !.want = target]
  <2>1. job[p] \in Job
    BY DEF Inv, TypeOK
  <2>2. j \in Job /\ "lock" \in Steps /\ LocalOK(j, "lock", row, quota, issued)
    BY <2>1 DEF Job, Steps, LocalOK, Holding, Provisioning
  <2>3. job' = [job EXCEPT ![p] = j] /\ Goto(p, "lock") /\ holder' = holder
    BY <1>2 DEF Decided
  <2>4. RestOK'
    BY <2>3 DEF Inv, TypeOK
  <2> HIDE DEF j
  <2>5. QED
    BY <2>2, <2>3, <2>4, MoveLocally
<1>3. QED
  BY <1>1, <1>2

LEMMA ResolveLimitsStep ==
  ASSUME Inv, NEW p \in Procs PROVE ResolveLimits(p) => Inv' /\ Grows
<1> SUFFICES ASSUME ResolveLimits(p) PROVE Inv' /\ Grows
  OBVIOUS
<1>b. /\ TypeOK /\ RowOK /\ StoreOK /\ RestOK
      /\ job[p] \in Job /\ job[p].copy \in Row /\ pc[p] \in Steps
      /\ LocalOK(job[p], pc[p], row, quota, issued)
  BY TypeParts DEF Inv, LocalsOK, TypeOK, Job
<1>1. CASE plan
  <2>1. RestOK' /\ UNCHANGED <<row, quota, issued, job>>
    BY <1>b, <1>1, RestStays DEF ResolveLimits
  <2>2. "contracts" \in Steps /\ Goto(p, "contracts")
    BY <1>1 DEF ResolveLimits, Steps
  <2>3. LocalOK(job[p], "contracts", row, quota, issued)
    BY <1>b DEF ResolveLimits, LocalOK, Holding, Provisioning
  <2>4. QED
    BY <2>1, <2>2, <2>3, MoveOnly
<1>2. CASE ~(plan)
  <2>1. Decided(p, 0) /\ UNCHANGED <<row, quota, issued>>
    BY <1>2 DEF ResolveLimits
  <2>2. holder' \in Enforcers \cup {None} => RestOK'
    BY <1>b DEF ResolveLimits, RestOK, env, usage, feed
  <2>3. QED
    BY <2>1, <2>2, TargetsTyped, DecidedStep
<1>3. QED
  BY <1>1, <1>2

LEMMA LimitsFailStep ==
  ASSUME Inv, NEW p \in Procs PROVE LimitsFail(p) => Inv' /\ Grows
<1> SUFFICES ASSUME LimitsFail(p) PROVE Inv' /\ Grows
  OBVIOUS
<1>b. /\ TypeOK /\ RowOK /\ StoreOK /\ RestOK
      /\ job[p] \in Job /\ job[p].copy \in Row /\ pc[p] \in Steps
      /\ LocalOK(job[p], pc[p], row, quota, issued)
  BY TypeParts DEF Inv, LocalsOK, TypeOK, Job
<1>1. Decided(p, 0) /\ UNCHANGED <<row, quota, issued>>
  BY DEF LimitsFail
<1>2. 0 \in Targets
  BY SiaAccountAssumption DEF Targets
<1>3. holder' \in Enforcers \cup {None} => RestOK'
  BY <1>b, FaultTyped DEF LimitsFail, RestOK, env, usage, feed
<1>4. QED
  BY <1>1, <1>2, <1>3, DecidedStep

LEMMA LoadContractsStep ==
  ASSUME Inv, NEW p \in Procs PROVE LoadContracts(p) => Inv' /\ Grows
<1> SUFFICES ASSUME LoadContracts(p) PROVE Inv' /\ Grows
  OBVIOUS
<1>b. /\ TypeOK /\ RowOK /\ StoreOK /\ RestOK
      /\ job[p] \in Job /\ job[p].copy \in Row /\ pc[p] \in Steps
      /\ LocalOK(job[p], pc[p], row, quota, issued)
  BY TypeParts DEF Inv, LocalsOK, TypeOK, Job
<1>1. CASE contracts
  <2>1. RestOK' /\ UNCHANGED <<row, quota, issued, job>>
    BY <1>b, <1>1, RestStays DEF LoadContracts
  <2>2. "apps" \in Steps /\ Goto(p, "apps")
    BY <1>1 DEF LoadContracts, Steps
  <2>3. LocalOK(job[p], "apps", row, quota, issued)
    BY <1>b DEF LoadContracts, LocalOK, Holding, Provisioning
  <2>4. QED
    BY <2>1, <2>2, <2>3, MoveOnly
<1>2. CASE ~(contracts)
  <2>1. Decided(p, 0) /\ UNCHANGED <<row, quota, issued>>
    BY <1>2 DEF LoadContracts
  <2>2. holder' \in Enforcers \cup {None} => RestOK'
    BY <1>b DEF LoadContracts, RestOK, env, usage, feed
  <2>3. QED
    BY <2>1, <2>2, TargetsTyped, DecidedStep
<1>3. QED
  BY <1>1, <1>2

LEMMA ListAppsStep ==
  ASSUME Inv, NEW p \in Procs PROVE ListApps(p) => Inv' /\ Grows
<1> SUFFICES ASSUME ListApps(p) PROVE Inv' /\ Grows
  OBVIOUS
<1>b. /\ TypeOK /\ RowOK /\ StoreOK /\ RestOK
      /\ job[p] \in Job /\ job[p].copy \in Row /\ pc[p] \in Steps
      /\ LocalOK(job[p], pc[p], row, quota, issued)
  BY TypeParts DEF Inv, LocalsOK, TypeOK, Job
<1> DEFINE j == [job[p] EXCEPT !.count = Counted(p)]
<1>1. RestOK' /\ UNCHANGED <<row, quota, issued>>
  BY <1>b, RestStays DEF ListApps
<1>2. j \in Job /\ "storage" \in Steps /\ j.count \in Counts \ {0}
  BY <1>b, CountedTyped, TargetsTyped DEF Job, Steps
<1>3. job' = [job EXCEPT ![p] = j] /\ Goto(p, "storage")
  BY DEF ListApps
<1>4. LocalOK(j, "storage", row, quota, issued)
  BY <1>2 DEF LocalOK, Holding, Provisioning
<1> HIDE DEF j
<1>5. QED
  BY <1>1, <1>2, <1>3, <1>4, MoveLocally

LEMMA AppsFailStep ==
  ASSUME Inv, NEW p \in Procs PROVE AppsFail(p) => Inv' /\ Grows
<1> SUFFICES ASSUME AppsFail(p) PROVE Inv' /\ Grows
  OBVIOUS
<1>b. /\ TypeOK /\ RowOK /\ StoreOK /\ RestOK
      /\ job[p] \in Job /\ job[p].copy \in Row /\ pc[p] \in Steps
      /\ LocalOK(job[p], pc[p], row, quota, issued)
  BY TypeParts DEF Inv, LocalsOK, TypeOK, Job
<1> DEFINE j == [job[p] EXCEPT !.count = 1]
<1>1. RestOK' /\ UNCHANGED <<row, quota, issued>>
  BY <1>b, RestFaults DEF AppsFail
<1>2. j \in Job /\ "storage" \in Steps /\ j.count \in Counts \ {0}
  BY <1>b, CountedTyped, TargetsTyped DEF Job, Steps
<1>3. job' = [job EXCEPT ![p] = j] /\ Goto(p, "storage")
  BY DEF AppsFail
<1>4. LocalOK(j, "storage", row, quota, issued)
  BY <1>2 DEF LocalOK, Holding, Provisioning
<1> HIDE DEF j
<1>5. QED
  BY <1>1, <1>2, <1>3, <1>4, MoveLocally

LEMMA CheckStorageStep ==
  ASSUME Inv, NEW p \in Procs PROVE CheckStorage(p) => Inv' /\ Grows
<1> SUFFICES ASSUME CheckStorage(p) PROVE Inv' /\ Grows
  OBVIOUS
<1>b. /\ TypeOK /\ RowOK /\ StoreOK /\ RestOK
      /\ job[p] \in Job /\ job[p].copy \in Row /\ pc[p] \in Steps
      /\ LocalOK(job[p], pc[p], row, quota, issued)
  BY TypeParts DEF Inv, LocalsOK, TypeOK, Job
<1>1. CASE job[p].count <= space
  <2>1. RestOK' /\ UNCHANGED <<row, quota, issued, job>>
    BY <1>b, <1>1, RestStays DEF CheckStorage
  <2>2. "bandwidth" \in Steps /\ Goto(p, "bandwidth")
    BY <1>1 DEF CheckStorage, Steps
  <2>3. LocalOK(job[p], "bandwidth", row, quota, issued)
    BY <1>b DEF CheckStorage, LocalOK, Holding, Provisioning
  <2>4. QED
    BY <2>1, <2>2, <2>3, MoveOnly
<1>2. CASE ~(job[p].count <= space)
  <2>1. Decided(p, 0) /\ UNCHANGED <<row, quota, issued>>
    BY <1>2 DEF CheckStorage
  <2>2. holder' \in Enforcers \cup {None} => RestOK'
    BY <1>b DEF CheckStorage, RestOK, env, usage, feed
  <2>3. QED
    BY <2>1, <2>2, TargetsTyped, DecidedStep
<1>3. QED
  BY <1>1, <1>2

LEMMA CheckBandwidthStep ==
  ASSUME Inv, NEW p \in Procs PROVE CheckBandwidth(p) => Inv' /\ Grows
<1> SUFFICES ASSUME CheckBandwidth(p) PROVE Inv' /\ Grows
  OBVIOUS
<1>b. /\ TypeOK /\ RowOK /\ StoreOK /\ RestOK
      /\ job[p] \in Job /\ job[p].copy \in Row /\ pc[p] \in Steps
      /\ LocalOK(job[p], pc[p], row, quota, issued)
  BY TypeParts DEF Inv, LocalsOK, TypeOK, Job
<1> DEFINE target == IF job[p].count <= room THEN job[p].count ELSE 0
<1>1. Decided(p, target) /\ UNCHANGED <<row, quota, issued>>
  BY DEF CheckBandwidth
<1>2. target \in Targets
  BY <1>b, TargetsTyped DEF CheckBandwidth, LocalOK
<1>3. holder' \in Enforcers \cup {None} => RestOK'
  BY <1>b DEF CheckBandwidth, RestOK, env, usage, feed
<1> HIDE DEF target
<1>4. QED
  BY <1>1, <1>2, <1>3, DecidedStep

LEMMA CheckFailsStep ==
  ASSUME Inv, NEW p \in Procs PROVE CheckFails(p) => Inv' /\ Grows
<1> SUFFICES ASSUME CheckFails(p) PROVE Inv' /\ Grows
  OBVIOUS
<1>b. /\ TypeOK /\ RowOK /\ StoreOK /\ RestOK
      /\ job[p] \in Job /\ job[p].copy \in Row /\ pc[p] \in Steps
      /\ LocalOK(job[p], pc[p], row, quota, issued)
  BY TypeParts DEF Inv, LocalsOK, TypeOK, Job
<1>1. CASE pc[p] = "storage"
  <2>1. RestOK' /\ UNCHANGED <<row, quota, issued, job>>
    BY <1>b, <1>1, RestFaults DEF CheckFails
  <2>2. "bandwidth" \in Steps /\ Goto(p, "bandwidth")
    BY <1>1 DEF CheckFails, Steps
  <2>3. LocalOK(job[p], "bandwidth", row, quota, issued)
    BY <1>b, <1>1 DEF LocalOK, Holding, Provisioning
  <2>4. QED
    BY <2>1, <2>2, <2>3, MoveOnly
<1>2. CASE pc[p] = "bandwidth"
  <2>1. Decided(p, job[p].count) /\ UNCHANGED <<row, quota, issued>>
    BY <1>2 DEF CheckFails
  <2>2. job[p].count \in Targets
    BY <1>b, <1>2, TargetsTyped DEF LocalOK
  <2>3. holder' \in Enforcers \cup {None} => RestOK'
    BY <1>b, FaultTyped DEF CheckFails, RestOK, env, usage, feed
  <2>4. QED
    BY <2>1, <2>2, <2>3, DecidedStep
<1>3. QED
  BY <1>1, <1>2 DEF CheckFails

LEMMA LockStep ==
  ASSUME Inv, NEW p \in Enforcers PROVE Lock(p) => Inv' /\ Grows
<1> SUFFICES ASSUME Lock(p) PROVE Inv' /\ Grows
  OBVIOUS
<1>1. p \in Procs /\ RestOK /\ job[p] \in Job
  BY TypeParts DEF Procs, Inv, TypeOK
<1>2. RestOK' /\ UNCHANGED <<row, quota, issued, job>>
  BY <1>1 DEF Lock, RestOK, env, usage, feed
<1>3. "reread" \in Steps /\ Goto(p, "reread") /\ LocalOK(job[p], "reread", row, quota, issued)
  BY DEF Lock, Steps, LocalOK, Holding, Provisioning
<1>4. QED
  BY <1>1, <1>2, <1>3, MoveOnly

LEMMA RereadStep ==
  ASSUME Inv, NEW p \in Procs PROVE Reread(p) => Inv' /\ Grows
<1> SUFFICES ASSUME Reread(p) PROVE Inv' /\ Grows
  OBVIOUS
<1>b. /\ TypeOK /\ RowOK /\ StoreOK /\ RestOK
      /\ job[p] \in Job /\ job[p].copy \in Row /\ pc[p] \in Steps
      /\ LocalOK(job[p], pc[p], row, quota, issued)
  BY TypeParts DEF Inv, LocalsOK, TypeOK, Job
<1>1. UNCHANGED <<row, quota, issued>> /\ (holder' \in Enforcers \cup {None} => RestOK')
  BY <1>b DEF Reread, RestOK, env, usage, feed
<1>2. CASE ~row.quotaKey
  BY <1>1, <1>2, ReturnLocally DEF Reread
<1>3. CASE ~(~row.quotaKey)
  <2> DEFINE j == [job[p] EXCEPT !.copy = row]
  <2>1. job' = [job EXCEPT ![p] = j] /\ Goto(p, "readQuota") /\ holder' = holder
    BY <1>3 DEF Reread
  <2>2. j \in Job /\ "readQuota" \in Steps
    BY <1>b DEF Job, StoreOK, Steps
  <2>3. RestOK'
    BY <1>b, <1>1, <2>1 DEF RestOK
  <2>4. LocalOK(j, "readQuota", row, quota, issued)
    BY <1>b, <1>3 DEF Reread, LocalOK, Keyed, RowOK, Holding, Provisioning, Job
  <2> HIDE DEF j
  <2>5. QED
    BY <1>1, <2>1, <2>2, <2>3, <2>4, MoveLocally
<1>4. QED
  BY <1>2, <1>3

LEMMA ReadQuotaStep ==
  ASSUME Inv, NEW p \in Procs PROVE ReadQuota(p) => Inv' /\ Grows
<1> SUFFICES ASSUME ReadQuota(p) PROVE Inv' /\ Grows
  OBVIOUS
<1>b. /\ TypeOK /\ RowOK /\ StoreOK /\ RestOK
      /\ job[p] \in Job /\ job[p].copy \in Row /\ pc[p] \in Steps
      /\ LocalOK(job[p], pc[p], row, quota, issued)
  BY TypeParts DEF Inv, LocalsOK, TypeOK, Job
<1> DEFINE j == [job[p] EXCEPT !.read = quota]
<1>1. RestOK' /\ UNCHANGED <<row, quota, issued>>
  BY <1>b, RestStays DEF ReadQuota
<1>2. j \in Job /\ "putQuota" \in Steps
  BY <1>b, SiaAccountAssumption DEF Job, StoreOK, Steps, Targets, TypeOK, Keys
<1>3. job' = [job EXCEPT ![p] = j] /\ Goto(p, "putQuota")
  BY DEF ReadQuota
<1>4. LocalOK(j, "putQuota", row, quota, issued)
  BY <1>b DEF ReadQuota, LocalOK, Keyed, RowOK, Holding, Provisioning, Job
<1> HIDE DEF j
<1>5. QED
  BY <1>1, <1>2, <1>3, <1>4, MoveLocally

LEMMA PutQuotaStep ==
  ASSUME Inv, NEW p \in Procs PROVE PutQuota(p) => Inv' /\ Grows
<1> SUFFICES ASSUME PutQuota(p) PROVE Inv' /\ Grows
  OBVIOUS
<1>b. /\ TypeOK /\ RowOK /\ StoreOK /\ RestOK
      /\ job[p] \in Job /\ job[p].copy \in Row /\ pc[p] \in Steps
      /\ LocalOK(job[p], pc[p], row, quota, issued)
  BY TypeParts DEF Inv, LocalsOK, TypeOK, Job
<1>a. adrift' \in BOOLEAN
  BY DEF PutQuota
<1>1. row' = row /\ issued' = issued /\ quota' = job[p].want /\ job' = job /\ Goto(p, "save") /\ RestOK'
  BY <1>a, <1>b, RestStays DEF PutQuota
<1>2. job[p].want \in Targets /\ quota' # None
  BY <1>b, <1>1, NoneIsNoTarget DEF Job
<1>3. StoreOK' /\ RowOK' /\ Grows
  BY <1>b, <1>1, <1>2, SiaAccountAssumption DEF StoreOK, RowOK, Grows, Keys
<1>4. "save" \in Steps /\ LocalOK(job[p], "save", row', quota', issued')
  BY <1>b, <1>1, <1>2 DEF PutQuota, Steps, LocalOK, Holding, Provisioning
<1>5. job' = [job EXCEPT ![p] = job[p]]
  BY <1>1 DEF Inv, TypeOK
<1>6. QED
  BY <1>b, <1>1, <1>3, <1>4, <1>5, Move

LEMMA SaveTargetStep ==
  ASSUME Inv, NEW p \in Procs PROVE SaveTarget(p) => Inv' /\ Grows
<1> SUFFICES ASSUME SaveTarget(p) PROVE Inv' /\ Grows
  OBVIOUS
<1>b. /\ TypeOK /\ RowOK /\ StoreOK /\ RestOK
      /\ job[p] \in Job /\ job[p].copy \in Row /\ pc[p] \in Steps
      /\ LocalOK(job[p], pc[p], row, quota, issued)
  BY TypeParts DEF Inv, LocalsOK, TypeOK, Job
<1> DEFINE c == [job[p].copy EXCEPT !.target = job[p].want]
<1>c. c \in Row /\ (row.exists => c.exists) /\ (row.quotaKey => c.quotaKey)
      /\ (c.quotaKey => Keyed(c, issued) /\ quota # None)
  BY <1>b, SiaAccountAssumption DEF SaveTarget, Row, Job, Keyed, LocalOK, Holding, Provisioning, StoreOK, RowOK, Keys, Targets
<1> HIDE DEF c
<1>1. Return(p) /\ row' = c /\ quota' = quota /\ issued' = issued
  BY DEF SaveTarget, c
<1>2. RestOK' /\ Goto(p, "idle") /\ job' = [job EXCEPT ![p] = NoJob]
  BY <1>b, <1>1, ReturnMoves DEF SaveTarget, RestOK, env, usage, feed
<1>3. LocalOK(NoJob, "idle", row', quota', issued') /\ NoJob \in Job /\ "idle" \in Steps
  BY IdleOK, NoJobTyped DEF Steps
<1>4. StoreOK' /\ RowOK'
  BY <1>b, <1>1, <1>c DEF StoreOK, RowOK
<1>5. Grows
  BY <1>b, <1>1, <1>c, SiaAccountAssumption DEF StoreOK, Grows, Keys
<1>6. QED
  BY <1>2, <1>3, <1>4, <1>5, Move

LEMMA EnforceFailsStep ==
  ASSUME Inv, NEW p \in Procs PROVE EnforceFails(p) => Inv' /\ Grows
<1> SUFFICES ASSUME EnforceFails(p) PROVE Inv' /\ Grows
  OBVIOUS
<1>b. /\ TypeOK /\ RowOK /\ StoreOK /\ RestOK
      /\ job[p] \in Job /\ job[p].copy \in Row /\ pc[p] \in Steps
      /\ LocalOK(job[p], pc[p], row, quota, issued)
  BY TypeParts DEF Inv, LocalsOK, TypeOK, Job
<1>1. Return(p) /\ UNCHANGED <<row, quota, issued>>
  BY DEF EnforceFails
<1>2. holder' \in Enforcers \cup {None} => RestOK'
  BY <1>b, FaultTyped DEF EnforceFails, RestOK, env, usage, feed
<1>3. QED
  BY <1>1, <1>2, ReturnLocally

LEMMA ViewPageStep ==
  ASSUME Inv, NEW p \in Procs PROVE ViewPage(p) => Inv' /\ Grows
<1> SUFFICES ASSUME ViewPage(p) PROVE Inv' /\ Grows
  OBVIOUS
<1>b. /\ TypeOK /\ RowOK /\ StoreOK /\ RestOK
      /\ job[p] \in Job /\ job[p].copy \in Row /\ pc[p] \in Steps
      /\ LocalOK(job[p], pc[p], row, quota, issued)
  BY TypeParts DEF Inv, LocalsOK, TypeOK, Job
<1>1. RestOK' /\ UNCHANGED <<row, quota, issued, job>>
  BY <1>b, RestStays DEF ViewPage
<1>2. \E step \in Steps : Goto(p, step) /\ LocalOK(job[p], step, row, quota, issued)
  BY <1>b DEF ViewPage, Steps, LocalOK, Keyed, RowOK, Holding, Provisioning
<1>3. QED
  BY <1>1, <1>2, MoveOnly

LEMMA ViewUncheckedStep ==
  ASSUME Inv, NEW p \in Procs PROVE ViewUnchecked(p) => Inv' /\ Grows
<1> SUFFICES ASSUME ViewUnchecked(p) PROVE Inv' /\ Grows
  OBVIOUS
<1>b. /\ TypeOK /\ RowOK /\ StoreOK /\ RestOK
      /\ job[p] \in Job /\ job[p].copy \in Row /\ pc[p] \in Steps
      /\ LocalOK(job[p], pc[p], row, quota, issued)
  BY TypeParts DEF Inv, LocalsOK, TypeOK, Job
<1>1. RestOK' /\ UNCHANGED <<row, quota, issued, job>>
  BY <1>b, RestFaults DEF ViewUnchecked
<1>2. \E step \in Steps : Goto(p, step) /\ LocalOK(job[p], step, row, quota, issued)
  BY <1>b DEF ViewUnchecked, Steps, LocalOK, Keyed, RowOK, Holding, Provisioning
<1>3. QED
  BY <1>1, <1>2, MoveOnly

LEMMA LeavePageStep ==
  ASSUME Inv, NEW p \in Procs PROVE LeavePage(p) => Inv' /\ Grows
<1> SUFFICES ASSUME LeavePage(p) PROVE Inv' /\ Grows
  OBVIOUS
<1>b. /\ TypeOK /\ RowOK /\ StoreOK /\ RestOK
      /\ job[p] \in Job /\ job[p].copy \in Row /\ pc[p] \in Steps
      /\ LocalOK(job[p], pc[p], row, quota, issued)
  BY TypeParts DEF Inv, LocalsOK, TypeOK, Job
<1>1. RestOK' /\ UNCHANGED <<row, quota, issued, job>>
  BY <1>b, RestStays DEF LeavePage
<1>2. \E step \in Steps : Goto(p, step) /\ LocalOK(job[p], step, row, quota, issued)
  BY <1>b DEF LeavePage, Steps, LocalOK, Keyed, RowOK, Holding, Provisioning
<1>3. QED
  BY <1>1, <1>2, MoveOnly

LEMMA ApproveStep ==
  ASSUME Inv, NEW p \in Procs PROVE Approve(p) => Inv' /\ Grows
<1> SUFFICES ASSUME Approve(p) PROVE Inv' /\ Grows
  OBVIOUS
<1>b. /\ TypeOK /\ RowOK /\ StoreOK /\ RestOK
      /\ job[p] \in Job /\ job[p].copy \in Row /\ pc[p] \in Steps
      /\ LocalOK(job[p], pc[p], row, quota, issued)
  BY TypeParts DEF Inv, LocalsOK, TypeOK, Job
<1>1. RestOK' /\ UNCHANGED <<row, quota, issued, job>>
  BY <1>b, RestStays DEF Approve
<1>2. \E step \in Steps : Goto(p, step) /\ LocalOK(job[p], step, row, quota, issued)
  BY <1>b DEF Approve, Steps, LocalOK, Keyed, RowOK, Holding, Provisioning
<1>3. QED
  BY <1>1, <1>2, MoveOnly

LEMMA RegisterAccountStep ==
  ASSUME Inv, NEW p \in Procs PROVE RegisterAccount(p) => Inv' /\ Grows
<1> SUFFICES ASSUME RegisterAccount(p) PROVE Inv' /\ Grows
  OBVIOUS
<1>b. /\ TypeOK /\ RowOK /\ StoreOK /\ RestOK
      /\ job[p] \in Job /\ job[p].copy \in Row /\ pc[p] \in Steps
      /\ LocalOK(job[p], pc[p], row, quota, issued)
  BY TypeParts DEF Inv, LocalsOK, TypeOK, Job
<1> DEFINE c == IF row.exists THEN row ELSE [NoRow EXCEPT !.exists = TRUE]
<1>n. /\ ~row.exists => c = [exists |-> TRUE, quotaKey |-> FALSE, connectKey |-> 0,
                                 target |-> 0, lastEvent |-> 0]
      /\ row.exists => c = row
  BY DEF NoRow
<1>c. c \in Row /\ (row.exists => c.exists) /\ (row.quotaKey => c.quotaKey)
      /\ (c.quotaKey => Keyed(c, issued) /\ quota # None) /\ c.exists
  <2> HIDE DEF c
  <2>1. CASE ~row.exists
    <3>1. c = [exists |-> TRUE, quotaKey |-> FALSE, connectKey |-> 0,
               target |-> 0, lastEvent |-> 0]
      BY <1>n, <2>1
    <3>1a. c \in Row
      <4>1. 0 \in Keys /\ 0 \in Targets /\ 0 \in 0 .. MaxEvents
        BY SiaAccountAssumption DEF Keys, Targets
      <4>2. QED
        BY <3>1, <4>1 DEF Row
    <3>2. c.exists /\ ~c.quotaKey
      BY <1>n, <2>1
    <3>3. ~row.quotaKey
      BY <1>b, <2>1 DEF RowOK, Keyed
    <3>4. QED
      BY <2>1, <3>1a, <3>2, <3>3
  <2>2. CASE row.exists
    BY <1>b, <1>n, <2>2 DEF StoreOK, RowOK
  <2>3. QED
    BY <2>1, <2>2
<1> HIDE DEF c
<1>1. row' = c /\ quota' = quota /\ issued' = issued /\ job' = job
  BY DEF RegisterAccount, c
<1>2. RestOK' /\ Goto(p, "load") /\ job' = [job EXCEPT ![p] = job[p]]
  BY <1>b, <1>1, RestStays DEF RegisterAccount, Inv, TypeOK
<1>3. LocalOK(job[p], "load", row', quota', issued') /\ job[p] \in Job /\ "load" \in Steps
  BY <1>b, <1>1, <1>c DEF Steps, LocalOK, Holding, Provisioning, Row
<1>4. StoreOK' /\ RowOK'
  BY <1>b, <1>1, <1>c DEF StoreOK, RowOK
<1>5. Grows
  BY <1>b, <1>1, <1>c, SiaAccountAssumption DEF StoreOK, Grows, Keys
<1>6. QED
  BY <1>2, <1>3, <1>4, <1>5, Move

LEMMA LoadAccountStep ==
  ASSUME Inv, NEW p \in Procs PROVE LoadAccount(p) => Inv' /\ Grows
<1> SUFFICES ASSUME LoadAccount(p) PROVE Inv' /\ Grows
  OBVIOUS
<1>b. /\ TypeOK /\ RowOK /\ StoreOK /\ RestOK
      /\ job[p] \in Job /\ job[p].copy \in Row /\ pc[p] \in Steps
      /\ LocalOK(job[p], pc[p], row, quota, issued)
  BY TypeParts DEF Inv, LocalsOK, TypeOK, Job
<1>1. UNCHANGED <<row, quota, issued>> /\ (holder' \in Enforcers \cup {None} => RestOK')
  BY <1>b DEF LoadAccount, RestOK, env, usage, feed
<1>2. CASE row.quotaKey /\ row.connectKey # 0
  BY <1>1, <1>2, ReturnLocally DEF LoadAccount
<1>3. CASE ~(row.quotaKey /\ row.connectKey # 0)
  <2> DEFINE j == [job[p] EXCEPT !.copy = row]
  <2>1. job' = [job EXCEPT ![p] = j] /\ Goto(p, "resolve") /\ holder' = holder
    BY <1>3 DEF LoadAccount
  <2>2. j \in Job /\ "resolve" \in Steps
    BY <1>b DEF Job, StoreOK, Steps
  <2>3. RestOK'
    BY <1>b, <1>1, <2>1 DEF RestOK
  <2>4. LocalOK(j, "resolve", row, quota, issued)
    BY <1>b, <1>3 DEF LoadAccount, LocalOK, Keyed, RowOK, Holding, Provisioning, Job
  <2> HIDE DEF j
  <2>5. QED
    BY <1>1, <2>1, <2>2, <2>3, <2>4, MoveLocally
<1>4. QED
  BY <1>2, <1>3

LEMMA ResolveTargetStep ==
  ASSUME Inv, NEW p \in Procs PROVE ResolveTarget(p) => Inv' /\ Grows
<1> SUFFICES ASSUME ResolveTarget(p) PROVE Inv' /\ Grows
  OBVIOUS
<1>b. /\ TypeOK /\ RowOK /\ StoreOK /\ RestOK
      /\ job[p] \in Job /\ job[p].copy \in Row /\ pc[p] \in Steps
      /\ LocalOK(job[p], pc[p], row, quota, issued)
  BY TypeParts DEF Inv, LocalsOK, TypeOK, Job
<1> DEFINE j == [job[p] EXCEPT !.want = Budget(1)]
<1>1. RestOK' /\ UNCHANGED <<row, quota, issued>>
  BY <1>b, RestStays DEF ResolveTarget
<1>2. j \in Job /\ "putProvision" \in Steps
  BY <1>b, TargetsTyped DEF Job, Steps, RestOK
<1>3. job' = [job EXCEPT ![p] = j] /\ Goto(p, "putProvision")
  BY DEF ResolveTarget
<1>4. LocalOK(j, "putProvision", row, quota, issued)
  BY <1>b DEF ResolveTarget, LocalOK, Keyed, RowOK, Holding, Provisioning, Job
<1> HIDE DEF j
<1>5. QED
  BY <1>1, <1>2, <1>3, <1>4, MoveLocally

LEMMA ResolveFailsStep ==
  ASSUME Inv, NEW p \in Procs PROVE ResolveFails(p) => Inv' /\ Grows
<1> SUFFICES ASSUME ResolveFails(p) PROVE Inv' /\ Grows
  OBVIOUS
<1>b. /\ TypeOK /\ RowOK /\ StoreOK /\ RestOK
      /\ job[p] \in Job /\ job[p].copy \in Row /\ pc[p] \in Steps
      /\ LocalOK(job[p], pc[p], row, quota, issued)
  BY TypeParts DEF Inv, LocalsOK, TypeOK, Job
<1> DEFINE j == [job[p] EXCEPT !.want = 0]
<1>1. RestOK' /\ UNCHANGED <<row, quota, issued>>
  BY <1>b, RestFaults DEF ResolveFails
<1>2. j \in Job /\ "putProvision" \in Steps
  BY <1>b, TargetsTyped DEF Job, Steps
<1>3. job' = [job EXCEPT ![p] = j] /\ Goto(p, "putProvision")
  BY DEF ResolveFails
<1>4. LocalOK(j, "putProvision", row, quota, issued)
  BY <1>b DEF ResolveFails, LocalOK, Keyed, RowOK, Holding, Provisioning, Job
<1> HIDE DEF j
<1>5. QED
  BY <1>1, <1>2, <1>3, <1>4, MoveLocally

LEMMA PutProvisionStep ==
  ASSUME Inv, NEW p \in Procs PROVE PutProvision(p) => Inv' /\ Grows
<1> SUFFICES ASSUME PutProvision(p) PROVE Inv' /\ Grows
  OBVIOUS
<1>b. /\ TypeOK /\ RowOK /\ StoreOK /\ RestOK
      /\ job[p] \in Job /\ job[p].copy \in Row /\ pc[p] \in Steps
      /\ LocalOK(job[p], pc[p], row, quota, issued)
  BY TypeParts DEF Inv, LocalsOK, TypeOK, Job
<1>a. adrift' \in BOOLEAN
  BY DEF PutProvision
<1>1. row' = row /\ issued' = issued /\ quota' = job[p].want /\ job' = job /\ Goto(p, "addKey") /\ RestOK'
  BY <1>a, <1>b, RestStays DEF PutProvision
<1>2. job[p].want \in Targets /\ quota' # None
  BY <1>b, <1>1, NoneIsNoTarget DEF Job
<1>3. StoreOK' /\ RowOK' /\ Grows
  BY <1>b, <1>1, <1>2, SiaAccountAssumption DEF StoreOK, RowOK, Grows, Keys
<1>4. "addKey" \in Steps /\ LocalOK(job[p], "addKey", row', quota', issued')
  BY <1>b, <1>1, <1>2 DEF PutProvision, Steps, LocalOK, Holding, Provisioning
<1>5. job' = [job EXCEPT ![p] = job[p]]
  BY <1>1 DEF Inv, TypeOK
<1>6. QED
  BY <1>b, <1>1, <1>3, <1>4, <1>5, Move

LEMMA AddKeyStep ==
  ASSUME Inv, NEW p \in Procs PROVE AddKey(p) => Inv' /\ Grows
<1> SUFFICES ASSUME AddKey(p) PROVE Inv' /\ Grows
  OBVIOUS
<1>b. /\ TypeOK /\ RowOK /\ StoreOK /\ RestOK
      /\ job[p] \in Job /\ job[p].copy \in Row /\ pc[p] \in Steps
      /\ LocalOK(job[p], pc[p], row, quota, issued)
  BY TypeParts DEF Inv, LocalsOK, TypeOK, Job
<1> DEFINE j == [job[p] EXCEPT !.key = issued + 1]
<1>1. /\ row' = row /\ quota' = quota /\ issued' = issued + 1 /\ issued < MaxKeys
      /\ job' = [job EXCEPT ![p] = j] /\ Goto(p, "saveProvision") /\ RestOK'
  BY <1>b, RestStays DEF AddKey
<1>2. issued \in Nat /\ issued + 1 \in Keys
  BY <1>b, <1>1, SiaAccountAssumption DEF StoreOK, Keys
<1>3. StoreOK' /\ RowOK' /\ Grows
  BY <1>b, <1>1, <1>2, SiaAccountAssumption DEF StoreOK, RowOK, Grows, Keyed, Keys, Row
<1>4. j \in Job /\ "saveProvision" \in Steps /\ LocalOK(j, "saveProvision", row', quota', issued')
  BY <1>b, <1>1, <1>2 DEF AddKey, Job, Steps, LocalOK, Holding, Provisioning
<1> HIDE DEF j
<1>5. QED
  BY <1>1, <1>3, <1>4, Move

LEMMA SaveProvisionStep ==
  ASSUME Inv, NEW p \in Procs PROVE SaveProvision(p) => Inv' /\ Grows
<1> SUFFICES ASSUME SaveProvision(p) PROVE Inv' /\ Grows
  OBVIOUS
<1>b. /\ TypeOK /\ RowOK /\ StoreOK /\ RestOK
      /\ job[p] \in Job /\ job[p].copy \in Row /\ pc[p] \in Steps
      /\ LocalOK(job[p], pc[p], row, quota, issued)
  BY TypeParts DEF Inv, LocalsOK, TypeOK, Job
<1> DEFINE c == [job[p].copy EXCEPT !.quotaKey = TRUE, !.connectKey = job[p].key, !.target = job[p].want]
<1>c. c \in Row /\ (row.exists => c.exists) /\ (row.quotaKey => c.quotaKey)
      /\ (c.quotaKey => Keyed(c, issued) /\ quota # None)
  BY <1>b, SiaAccountAssumption DEF SaveProvision, Row, Job, Keyed, LocalOK, Holding, Provisioning, StoreOK, RowOK, Keys, Targets
<1> HIDE DEF c
<1>1. Return(p) /\ row' = c /\ quota' = quota /\ issued' = issued
  BY DEF SaveProvision, c
<1>2. RestOK' /\ Goto(p, "idle") /\ job' = [job EXCEPT ![p] = NoJob]
  BY <1>b, <1>1, ReturnMoves DEF SaveProvision, RestOK, env, usage, feed
<1>3. LocalOK(NoJob, "idle", row', quota', issued') /\ NoJob \in Job /\ "idle" \in Steps
  BY IdleOK, NoJobTyped DEF Steps
<1>4. StoreOK' /\ RowOK'
  BY <1>b, <1>1, <1>c DEF StoreOK, RowOK
<1>5. Grows
  BY <1>b, <1>1, <1>c, SiaAccountAssumption DEF StoreOK, Grows, Keys
<1>6. QED
  BY <1>2, <1>3, <1>4, <1>5, Move

LEMMA ProvisionFailsStep ==
  ASSUME Inv, NEW p \in Procs PROVE ProvisionFails(p) => Inv' /\ Grows
<1> SUFFICES ASSUME ProvisionFails(p) PROVE Inv' /\ Grows
  OBVIOUS
<1>b. /\ TypeOK /\ RowOK /\ StoreOK /\ RestOK
      /\ job[p] \in Job /\ job[p].copy \in Row /\ pc[p] \in Steps
      /\ LocalOK(job[p], pc[p], row, quota, issued)
  BY TypeParts DEF Inv, LocalsOK, TypeOK, Job
<1>a. adrift' \in BOOLEAN
  BY DEF ProvisionFails
<1>1. RestOK' /\ UNCHANGED <<row, quota, issued>> /\ job' = [job EXCEPT ![p] = NoJob]
  BY <1>a, <1>b, RestFaults DEF ProvisionFails
<1>2. Goto(p, "shown") /\ "shown" \in Steps
  BY DEF ProvisionFails, Steps
<1>3. QED
  BY <1>1, <1>2, IdleOK, NoJobTyped, MoveLocally

LEMMA FetchEventStep ==
  ASSUME Inv, NEW p \in Procs PROVE FetchEvent(p) => Inv' /\ Grows
<1> SUFFICES ASSUME FetchEvent(p) PROVE Inv' /\ Grows
  OBVIOUS
<1>b. /\ TypeOK /\ RowOK /\ StoreOK /\ RestOK
      /\ job[p] \in Job /\ job[p].copy \in Row /\ pc[p] \in Steps
      /\ LocalOK(job[p], pc[p], row, quota, issued)
  BY TypeParts DEF Inv, LocalsOK, TypeOK, Job
<1> DEFINE j == [job[p] EXCEPT !.event = cursor + 1]
<1>1. RestOK' /\ UNCHANGED <<row, quota, issued>>
  BY <1>b, RestStays DEF FetchEvent
<1>2. j \in Job /\ "lookup" \in Steps
  BY <1>b, SiaAccountAssumption DEF Job, StoreOK, Steps, Targets, TypeOK, Keys, FetchEvent
<1>3. job' = [job EXCEPT ![p] = j] /\ Goto(p, "lookup")
  BY DEF FetchEvent
<1>4. LocalOK(j, "lookup", row, quota, issued)
  BY <1>b DEF FetchEvent, LocalOK, Keyed, RowOK, Holding, Provisioning, Job
<1> HIDE DEF j
<1>5. QED
  BY <1>1, <1>2, <1>3, <1>4, MoveLocally

LEMMA LookupStep ==
  ASSUME Inv, NEW p \in Procs PROVE Lookup(p) => Inv' /\ Grows
<1> SUFFICES ASSUME Lookup(p) PROVE Inv' /\ Grows
  OBVIOUS
<1>b. /\ TypeOK /\ RowOK /\ StoreOK /\ RestOK
      /\ job[p] \in Job /\ job[p].copy \in Row /\ pc[p] \in Steps
      /\ LocalOK(job[p], pc[p], row, quota, issued)
  BY TypeParts DEF Inv, LocalsOK, TypeOK, Job
<1> DEFINE j == [job[p] EXCEPT !.copy = row]
<1>1. RestOK' /\ UNCHANGED <<row, quota, issued>> /\ job' = [job EXCEPT ![p] = j]
  BY <1>b, RestStays DEF Lookup
<1>2. j \in Job
  BY <1>b DEF Job, StoreOK
<1>3. \E step \in Steps : Goto(p, step) /\ LocalOK(j, step, row, quota, issued)
  BY <1>b DEF Lookup, Steps, LocalOK, Keyed, RowOK, Holding, Provisioning, Job
<1> HIDE DEF j
<1>4. QED
  BY <1>1, <1>2, <1>3, MoveLocally

LEMMA SaveEventStep ==
  ASSUME Inv, NEW p \in Procs PROVE SaveEvent(p) => Inv' /\ Grows
<1> SUFFICES ASSUME SaveEvent(p) PROVE Inv' /\ Grows
  OBVIOUS
<1>b. /\ TypeOK /\ RowOK /\ StoreOK /\ RestOK
      /\ job[p] \in Job /\ job[p].copy \in Row /\ pc[p] \in Steps
      /\ LocalOK(job[p], pc[p], row, quota, issued)
  BY TypeParts DEF Inv, LocalsOK, TypeOK, Job
<1> DEFINE c == [job[p].copy EXCEPT !.lastEvent = job[p].event]
<1>c. c \in Row /\ (row.exists => c.exists) /\ (row.quotaKey => c.quotaKey)
      /\ (c.quotaKey => Keyed(c, issued) /\ quota # None) /\ c.exists
  BY <1>b, SiaAccountAssumption DEF SaveEvent, Row, Job, Keyed, LocalOK, Holding, Provisioning, StoreOK, RowOK, Keys, Targets
<1> HIDE DEF c
<1>a. adrift' \in BOOLEAN
  BY DEF SaveEvent
<1>1. row' = c /\ quota' = quota /\ issued' = issued /\ job' = job
  BY DEF SaveEvent, c
<1>2. RestOK' /\ Goto(p, "record") /\ job' = [job EXCEPT ![p] = job[p]]
  BY <1>a, <1>b, <1>1, RestStays DEF SaveEvent, Inv, TypeOK
<1>3. LocalOK(job[p], "record", row', quota', issued') /\ job[p] \in Job /\ "record" \in Steps
  BY <1>b, <1>1, <1>c DEF Steps, LocalOK, Holding, Provisioning, Row
<1>4. StoreOK' /\ RowOK'
  BY <1>b, <1>1, <1>c DEF StoreOK, RowOK
<1>5. Grows
  BY <1>b, <1>1, <1>c, SiaAccountAssumption DEF StoreOK, Grows, Keys
<1>6. QED
  BY <1>2, <1>3, <1>4, <1>5, Move

LEMMA RecordStep ==
  ASSUME Inv, NEW p \in Procs PROVE Record(p) => Inv' /\ Grows
<1> SUFFICES ASSUME Record(p) PROVE Inv' /\ Grows
  OBVIOUS
<1>b. /\ TypeOK /\ RowOK /\ StoreOK /\ RestOK
      /\ job[p] \in Job /\ job[p].copy \in Row /\ pc[p] \in Steps
      /\ LocalOK(job[p], pc[p], row, quota, issued)
  BY TypeParts DEF Inv, LocalsOK, TypeOK, Job
<1>1. UNCHANGED <<row, quota, issued, job>>
  BY DEF Record
<1> DEFINE e == job[p].event
<1>e. recorded' = [recorded EXCEPT ![e] = recorded[e] + 1] /\ recorded \in [Ids -> Nat] /\ e \in Nat
  BY <1>b, SiaAccountAssumption DEF Record, RestOK, Job
<1> HIDE DEF e
<1>2. recorded' \in [Ids -> Nat]
  <2>1. CASE e \in Ids
    BY <1>e, <2>1
  <2>2. CASE e \notin Ids
    <3>1. recorded' = recorded
      BY <1>e, <2>2
    <3>2. QED
      BY <1>e, <3>1
  <2>3. QED
    BY <2>1, <2>2
<1>2a. RestOK'
  BY <1>b, <1>2 DEF Record, RestOK, env, usage
<1>3. Goto(p, "persist") /\ "persist" \in Steps /\ LocalOK(job[p], "persist", row, quota, issued)
  BY DEF Record, Steps, LocalOK, Holding, Provisioning
<1>4. QED
  BY <1>1, <1>2a, <1>3, MoveOnly

LEMMA EventFailsStep ==
  ASSUME Inv, NEW p \in Procs PROVE EventFails(p) => Inv' /\ Grows
<1> SUFFICES ASSUME EventFails(p) PROVE Inv' /\ Grows
  OBVIOUS
<1>b. /\ TypeOK /\ RowOK /\ StoreOK /\ RestOK
      /\ job[p] \in Job /\ job[p].copy \in Row /\ pc[p] \in Steps
      /\ LocalOK(job[p], pc[p], row, quota, issued)
  BY TypeParts DEF Inv, LocalsOK, TypeOK, Job
<1>1. RestOK' /\ UNCHANGED <<row, quota, issued, job>>
  BY <1>b, RestFaults DEF EventFails
<1>2. \E step \in Steps : Goto(p, step) /\ LocalOK(job[p], step, row, quota, issued)
  BY <1>b DEF EventFails, Steps, LocalOK, Keyed, RowOK, Holding, Provisioning
<1>3. QED
  BY <1>1, <1>2, MoveOnly

LEMMA PersistCursorStep ==
  ASSUME Inv, NEW p \in Procs PROVE PersistCursor(p) => Inv' /\ Grows
<1> SUFFICES ASSUME PersistCursor(p) PROVE Inv' /\ Grows
  OBVIOUS
<1>b. /\ TypeOK /\ RowOK /\ StoreOK /\ RestOK
      /\ job[p] \in Job /\ job[p].copy \in Row /\ pc[p] \in Steps
      /\ LocalOK(job[p], pc[p], row, quota, issued)
  BY TypeParts DEF Inv, LocalsOK, TypeOK, Job
<1>1. Return(p) /\ UNCHANGED <<row, quota, issued>>
  BY DEF PersistCursor
<1>2. holder' \in Enforcers \cup {None} => RestOK'
  BY <1>b DEF PersistCursor, RestOK, env, usage, Job
<1>3. QED
  BY <1>1, <1>2, ReturnLocally

LEMMA PersistFailsStep ==
  ASSUME Inv, NEW p \in Procs PROVE PersistFails(p) => Inv' /\ Grows
<1> SUFFICES ASSUME PersistFails(p) PROVE Inv' /\ Grows
  OBVIOUS
<1>b. /\ TypeOK /\ RowOK /\ StoreOK /\ RestOK
      /\ job[p] \in Job /\ job[p].copy \in Row /\ pc[p] \in Steps
      /\ LocalOK(job[p], pc[p], row, quota, issued)
  BY TypeParts DEF Inv, LocalsOK, TypeOK, Job
<1>1. Return(p) /\ UNCHANGED <<row, quota, issued>>
  BY DEF PersistFails
<1>2. holder' \in Enforcers \cup {None} => RestOK'
  BY <1>b, FaultTyped DEF PersistFails, RestOK, env, usage, feed
<1>3. QED
  BY <1>1, <1>2, ReturnLocally

LEMMA ChangeStep == Inv /\ Change => Inv' /\ Grows
<1> SUFFICES ASSUME Inv, Change PROVE Inv' /\ Grows
  OBVIOUS
<1>1. /\ UNCHANGED <<row, quota, adrift, issued, holder, feed, pc, job, faults>>
      /\ plan' \in BOOLEAN /\ space' \in Counts /\ room' \in Rooms
      /\ apps' \in Counts /\ contracts' \in BOOLEAN
      /\ changes < MaxChanges /\ changes' = changes + 1
  BY DEF Change, Inv, TypeOK, usage
<1>2. changes' \in 0 .. MaxChanges
  BY <1>1, SiaAccountAssumption DEF Inv, TypeOK
<1>3. TypeOK'
  BY <1>1, <1>2 DEF Inv, TypeOK, feed
<1>4. RowOK' /\ LocalsOK'
  BY <1>1 DEF Inv, RowOK, LocalsOK
<1>5. Grows
  BY <1>1, SiaAccountAssumption DEF Inv, TypeOK, Grows, Keys
<1>6. QED
  BY <1>3, <1>4, <1>5 DEF Inv

LEMMA RestartStep == Inv /\ Restart => Inv' /\ Grows
<1> SUFFICES ASSUME Inv, Restart PROVE Inv' /\ Grows
  OBVIOUS
<1>1. /\ UNCHANGED <<row, quota, issued, feed, usage, apps, changes>>
      /\ pc' = [p \in Procs |-> "idle"] /\ job' = [p \in Procs |-> NoJob]
      /\ holder' = None /\ contracts' = FALSE /\ adrift' \in BOOLEAN
  BY DEF Restart, Inv, TypeOK
<1>2. faults' \in 0 .. MaxFaults
  BY FaultTyped, TypeParts DEF Restart, Inv
<1>3. StoreOK' /\ RowOK' /\ Grows
  BY <1>1, SiaAccountAssumption DEF Inv, TypeOK, StoreOK, RowOK, Grows, Keys
<1>4. RunsOK'
  BY <1>1, NoJobTyped DEF RunsOK, Steps
<1>5. RestOK'
  BY <1>1, <1>2 DEF Inv, TypeOK, RestOK, usage, feed
<1>6. LocalsOK'
  <2>1. ASSUME NEW x \in Procs PROVE job'[x] = NoJob /\ pc'[x] = "idle"
    BY <1>1
  <2>2. ASSUME NEW x \in Procs PROVE LocalOK(job'[x], pc'[x], row', quota', issued')
    BY <2>1, IdleOK
  <2>3. QED
    BY <2>2 DEF LocalsOK
<1>7. QED
  BY <1>3, <1>4, <1>5, <1>6, TypePartsNext DEF Inv

LEMMA Initially == Init => Inv
<1> SUFFICES ASSUME Init PROVE Inv
  OBVIOUS
<1>1. TypeOK
  <2>1. StoreOK
    BY SiaAccountAssumption, NoJobTyped DEF Init, StoreOK, Keys
  <2>2. RunsOK
    BY NoJobTyped DEF Init, RunsOK, Steps
  <2>3. RestOK
    <3>1. recorded \in [Ids -> Nat]
      BY DEF Init
    <3>2. /\ plan \in BOOLEAN /\ contracts \in BOOLEAN /\ adrift \in BOOLEAN
          /\ holder \in Enforcers \cup {None}
      BY DEF Init
    <3>2a. space = MaxApps /\ room = MaxApps + 1 /\ apps = 0
      BY DEF Init
    <3>2b. space \in Counts /\ room \in Rooms /\ apps \in Counts
      BY <3>2a, SiaAccountAssumption DEF Rooms, Counts
    <3>3. cursor \in 0 .. MaxEvents /\ changes \in 0 .. MaxChanges /\ faults \in 0 .. MaxFaults
      BY SiaAccountAssumption DEF Init
    <3>4. QED
      BY <3>1, <3>2, <3>2b, <3>3 DEF RestOK
  <2>4. QED
    BY <2>1, <2>2, <2>3, TypeParts
<1>2. RowOK
  BY DEF Init, RowOK, NoRow
<1>3. LocalsOK
  BY IdleOK DEF Init, LocalsOK
<1>4. QED
  BY <1>1, <1>2, <1>3 DEF Inv

(* The invariant is inductive, and no step takes back what Grows names.    *)
LEMMA Inductive == Inv /\ [Next]_vars => Inv' /\ Grows
<1> SUFFICES ASSUME Inv, [Next]_vars PROVE Inv' /\ Grows
  OBVIOUS
<1>1. CASE Change
  BY <1>1, ChangeStep
<1>2. CASE Restart
  BY <1>2, RestartStep
<1>3. ASSUME NEW p \in Enforcers,
             \/ StartEnforce(p) \/ CountApps(p) \/ EnforceStep(p)
             \/ LimitsFail(p) \/ AppsFail(p) \/ CheckFails(p) \/ EnforceFails(p)
      PROVE  Inv' /\ Grows
  <2>1. p \in Procs
    BY DEF Procs
  <2>2. QED
    BY <1>3, <2>1, StartEnforceStep, CountAppsStep, GetAccountStep, ResolveLimitsStep,
       LoadContractsStep, ListAppsStep, CheckStorageStep, CheckBandwidthStep, LockStep,
       RereadStep, ReadQuotaStep, PutQuotaStep, SaveTargetStep, LimitsFailStep,
       AppsFailStep, CheckFailsStep, EnforceFailsStep
       DEF EnforceStep
<1>4. ASSUME NEW p \in Provisioners,
             \/ UserStep(p) \/ ProvisionStep(p)
             \/ ViewUnchecked(p) \/ ResolveFails(p) \/ ProvisionFails(p)
      PROVE  Inv' /\ Grows
  <2>1. p \in Procs
    BY DEF Procs
  <2>2. QED
    BY <1>4, <2>1, ViewPageStep, ViewUncheckedStep, LeavePageStep, ApproveStep, RegisterAccountStep,
       LoadAccountStep, ResolveTargetStep, ResolveFailsStep, PutProvisionStep, AddKeyStep,
       SaveProvisionStep, ProvisionFailsStep
       DEF UserStep, ProvisionStep
<1>5. ASSUME NEW p \in Syncs, SyncStep(p) \/ EventFails(p) \/ PersistFails(p)
      PROVE  Inv' /\ Grows
  <2>1. p \in Procs
    BY DEF Procs
  <2>2. QED
    BY <1>5, <2>1, FetchEventStep, LookupStep, SaveEventStep, RecordStep,
       PersistCursorStep, EventFailsStep, PersistFailsStep
       DEF SyncStep
<1>6. CASE UNCHANGED vars
  <2>1. TypeOK'
    BY <1>6 DEF vars, env, usage, feed, Inv, TypeOK
  <2>2. RowOK' /\ LocalsOK'
    BY <1>6 DEF vars, env, usage, feed, Inv, RowOK, LocalsOK
  <2>3. Grows
    BY <1>6, SiaAccountAssumption DEF vars, env, usage, feed, Inv, TypeOK, Grows, Keys
  <2>4. QED
    BY <2>1, <2>2, <2>3 DEF Inv
<1>7. QED
  BY <1>1, <1>2, <1>3, <1>4, <1>5, <1>6 DEF Next

LEMMA Invariant == Spec => []Inv
<1>1. Init => Inv
  BY Initially
<1>2. Inv /\ [Next]_vars => Inv'
  BY Inductive
<1>3. QED
  BY <1>1, <1>2, PTL DEF Spec

(* Every variable of the account model keeps its type.                     *)
THEOREM TypeCorrect == Spec => []TypeOK
<1>1. Inv => TypeOK
  BY DEF Inv
<1>2. QED
  BY <1>1, Invariant, PTL

(* However many tabs provision the account at once, whatever fails between *)
(* PutQuota, AddAppConnectKey and Save, and whichever stale copies are     *)
(* saved, a row that says it is provisioned has a quota and a connect key  *)
(* that indexd issued.                                                     *)
THEOREM KeysAreBacked == Spec => []KeyBacked
<1>1. Inv => KeyBacked
  BY DEF Inv, RowOK, Keyed, KeyBacked
<1>2. QED
  BY <1>1, Invariant, PTL

(* No Save of an old copy of the row unprovisions the account.             *)
THEOREM KeysAreKept == Spec => KeysStay
<1>1. Inv /\ [Next]_vars /\ row.quotaKey => row'.quotaKey /\ row'.connectKey # 0
  <2> SUFFICES ASSUME Inv, [Next]_vars, row.quotaKey
               PROVE  row'.quotaKey /\ row'.connectKey # 0
    OBVIOUS
  <2>1. Inv' /\ Grows
    BY Inductive
  <2>2. row'.quotaKey
    BY <2>1 DEF Grows
  <2>3. Keyed(row', issued')
    BY <2>1, <2>2 DEF Inv, RowOK
  <2>4. issued' \in Nat
    BY <2>1, SiaAccountAssumption DEF Inv, TypeOK, Keys
  <2>5. QED
    BY <2>2, <2>3, <2>4 DEF Keyed
<1>2. Inv /\ [Next]_vars => [row.quotaKey => row'.quotaKey /\ row'.connectKey # 0]_vars
  BY <1>1
<1>3. QED
  BY <1>2, Invariant, PTL DEF Spec, KeysStay

-----------------------------------------------------------------------------
(* What is wanted, for any number of apps, depends on env alone.           *)
LEMMA WantStays ==
  ASSUME UNCHANGED env
  PROVE  /\ Want' = Want
         /\ \A n : Target(n)' = Target(n) /\ Checked(n)' = Checked(n) /\ Budget(n)' = Budget(n)
BY DEF env, usage, Want, Target, Checked, Budget, AppsOf

(* Settled after a step of p: p is up to date, and wrote what is wanted.   *)
LEMMA SettledAfter ==
  ASSUME Settled, UNCHANGED env, NEW p \in Procs,
         \A x \in Procs \ {p} : pc'[x] = pc[x] /\ job'[x] = job[x],
         row'.quotaKey, row'.target = Want, quota' = Want, UpToDate(p)'
  PROVE  Settled'
<1>1. ASSUME NEW x \in Procs PROVE UpToDate(x)'
  <2>1. CASE x = p
    BY <2>1
  <2>2. CASE x # p
    <3>1. pc'[x] = pc[x] /\ job'[x] = job[x] /\ UpToDate(x)
      BY <2>2 DEF Settled
    <3>2. /\ Target(Counted(x))' = Target(Counted(x))
          /\ Checked(Counted(x))' = Checked(Counted(x))
          /\ Checked(job[x].count)' = Checked(job[x].count)
          /\ contracts' = contracts /\ room' = room
      BY <3>1 DEF env, usage, Counted, AppsOf, Target, Checked
    <3>3. Budget(1)' = Budget(1) /\ Want' = Want
      BY WantStays
    <3>4. QED
      BY <3>1, <3>2, <3>3 DEF UpToDate
  <2>3. QED
    BY <2>1, <2>2
<1>2. QED
  BY <1>1, WantStays DEF Settled

(* A step that ends the run and leaves the row and the quota alone.        *)
LEMMA ReturnSettles ==
  ASSUME Inv, Settled, UNCHANGED <<env, row, quota>>, NEW p \in Procs, Return(p)
  PROVE  Settled'
<1>1. /\ \A x \in Procs \ {p} : pc'[x] = pc[x] /\ job'[x] = job[x]
      /\ pc'[p] = "idle"
  BY DEF Return, Inv, TypeOK
<1>2. UpToDate(p)'
  BY <1>1 DEF UpToDate
<1>3. QED
  BY <1>1, <1>2, SettledAfter DEF Settled

(* An enforcement that has not begun has no count of its own: StartEnforce *)
(* goes by the apps there are, not by those of an earlier run.             *)
IdleClean == \A p \in Enforcers : pc[p] = "idle" => job[p] = NoJob

LEMMA IdleRunsAreClean == Spec => []IdleClean
<1>1. Init => IdleClean
  BY DEF Init, IdleClean, Procs
<1>2. ASSUME Inv, IdleClean, [Next]_vars PROVE IdleClean'
  <2> SUFFICES ASSUME NEW e \in Enforcers, pc'[e] = "idle" PROVE job'[e] = NoJob
    BY DEF IdleClean
  <2>p. /\ e \in Procs /\ e \notin Provisioners /\ e \notin Syncs
        /\ pc \in [Procs -> Steps] /\ job \in [Procs -> Job]
        /\ pc[e] = "idle" => job[e] = NoJob
    BY <1>2, SiaAccountAssumption DEF Inv, TypeOK, Procs, IdleClean
  <2>r. ASSUME NEW p \in Procs, Return(p) PROVE job'[e] = NoJob
    BY <2>p, <2>r DEF Return
  <2>1. CASE Change \/ Restart \/ UNCHANGED vars
    BY <2>1, <2>p DEF Change, Restart, vars
  <2>2. ASSUME NEW p \in Enforcers,
               \/ StartEnforce(p) \/ CountApps(p) \/ EnforceStep(p)
               \/ LimitsFail(p) \/ AppsFail(p) \/ CheckFails(p) \/ EnforceFails(p)
        PROVE  job'[e] = NoJob
    <3>1. p \in Procs
      BY DEF Procs
    <3>2. CASE p # e
      BY <2>2, <2>p, <3>1, <3>2
         DEF StartEnforce, CountApps, EnforceStep, GetAccount, ResolveLimits, LoadContracts,
             ListApps, CheckStorage, CheckBandwidth, Decided, Lock, Reread, ReadQuota,
             PutQuota, SaveTarget, LimitsFail, AppsFail, CheckFails, EnforceFails, Goto, Return
    <3>3. CASE p = e
      <4>1. CASE \/ StartEnforce(p) \/ CountApps(p) \/ GetAccount(p) \/ ListApps(p)
                 \/ AppsFail(p) \/ Lock(p) \/ ReadQuota(p) \/ PutQuota(p)
        BY <4>1, <2>p, <3>3
           DEF StartEnforce, CountApps, GetAccount, ListApps, AppsFail, Lock, ReadQuota,
               PutQuota, Goto
      <4>1a. ASSUME NEW step \in {"contracts", "apps", "bandwidth"}, Goto(p, step)
             PROVE  job'[e] = NoJob
        BY <4>1a, <2>p, <3>3 DEF Goto
      <4>2. CASE SaveTarget(p) \/ EnforceFails(p)
        BY <4>2, <2>r, <3>1 DEF SaveTarget, EnforceFails
      <4>3. CASE Reread(p)
        BY <4>3, <2>p, <2>r, <3>1, <3>3 DEF Reread, Goto
      <4>4. ASSUME NEW t, Decided(p, t) PROVE job'[e] = NoJob
        BY <4>4, <2>p, <2>r, <3>1, <3>3 DEF Decided, Goto
      <4>5. QED
        BY <2>2, <4>1, <4>1a, <4>2, <4>3, <4>4
           DEF EnforceStep, ResolveLimits, LoadContracts, CheckStorage, CheckBandwidth,
               LimitsFail, CheckFails
    <3>4. QED
      BY <3>2, <3>3
  <2>3. ASSUME NEW p \in Provisioners,
               \/ UserStep(p) \/ ProvisionStep(p)
             \/ ViewUnchecked(p) \/ ResolveFails(p) \/ ProvisionFails(p)
        PROVE  job'[e] = NoJob
    <3>1. /\ p \in Procs /\ p # e
      BY <2>p DEF Procs
    <3>2. pc'[e] = pc[e] /\ job'[e] = job[e]
      BY <2>3, <2>p, <3>1
         DEF UserStep, ProvisionStep, ViewPage, ViewUnchecked, LeavePage, Approve,
             RegisterAccount, LoadAccount, ResolveTarget, ResolveFails, PutProvision, AddKey,
             SaveProvision, ProvisionFails, Goto, Return
    <3>3. QED
      BY <2>p, <3>2
  <2>4. ASSUME NEW p \in Syncs, SyncStep(p) \/ EventFails(p) \/ PersistFails(p)
        PROVE  job'[e] = NoJob
    <3>1. /\ p \in Procs /\ p # e
      BY <2>p DEF Procs
    <3>2. pc'[e] = pc[e] /\ job'[e] = job[e]
      BY <2>4, <2>p, <3>1
         DEF SyncStep, FetchEvent, Lookup, SaveEvent, Record, PersistCursor, EventFails,
             PersistFails, Goto, Return
    <3>3. QED
      BY <2>p, <3>2
  <2>5. QED
    BY <1>2, <2>1, <2>2, <2>3, <2>4 DEF Next
<1>3. QED
  BY <1>1, <1>2, Invariant, PTL DEF Spec

LEMMA EnforceSettled ==
  ASSUME Inv, IdleClean, Settled, UNCHANGED <<env, faults>>, NEW p \in Enforcers,
         StartEnforce(p) \/ CountApps(p) \/ EnforceStep(p)
  PROVE  Settled'
<1>p. p \in Procs
  BY DEF Procs
<1>t. /\ pc \in [Procs -> Steps] /\ job \in [Procs -> Job]
      /\ None \notin Nat /\ apps \in Nat /\ UpToDate(p)
      /\ row.quotaKey /\ row.target = Want /\ quota = Want
      /\ LocalOK(job[p], pc[p], row, quota, issued)
  BY <1>p, SiaAccountAssumption DEF Inv, TypeOK, LocalsOK, Settled, Counts
<1>w. Want' = Want
  BY WantStays
<1> DEFINE Others == \A x \in Procs \ {p} : pc'[x] = pc[x] /\ job'[x] = job[x]
<1>1. CASE StartEnforce(p) \/ GetAccount(p)
  <2>1. Others /\ pc'[p] = "limits" /\ job'[p] = [job[p] EXCEPT !.copy = row] /\ UNCHANGED <<row, quota>>
    BY <1>1, <1>p, <1>t DEF StartEnforce, GetAccount, Goto
  <2>2. job'[p].count = job[p].count
    BY <2>1, <1>p, <1>t DEF Job
  <2>3. Target(Counted(p)) = Want
    <3>1. CASE StartEnforce(p)
      <4>1. job[p].count = None
        BY <3>1 DEF StartEnforce, IdleClean, NoJob
      <4>2. QED
        BY <4>1 DEF Counted, Want
    <3>2. CASE GetAccount(p)
      BY <3>2, <1>t DEF GetAccount, UpToDate
    <3>3. QED
      BY <1>1, <3>1, <3>2
  <2>4. Target(Counted(p))' = Want
    BY <2>2, <2>3 DEF env, usage, Counted, Target, Checked, AppsOf, Want
  <2>5. UpToDate(p)'
    BY <2>1, <2>4, <1>w DEF UpToDate
  <2>6. QED
    BY <1>p, <1>t, <2>1, <2>5, SettledAfter
<1>2. CASE CountApps(p)
  <2>1. Others /\ pc'[p] = "account" /\ job'[p] = [job[p] EXCEPT !.count = apps] /\ UNCHANGED <<row, quota>>
    BY <1>2, <1>p, <1>t DEF CountApps, Goto
  <2>2. job'[p].count = apps /\ apps # None
    BY <2>1, <1>p, <1>t DEF Job
  <2>3. Target(Counted(p))' = Want
    BY <2>2 DEF env, usage, Counted, Target, Checked, AppsOf, Want
  <2>4. UpToDate(p)'
    BY <2>1, <2>3, <1>w DEF UpToDate
  <2>5. QED
    BY <1>p, <1>t, <2>1, <2>4, SettledAfter
<1>3. CASE ResolveLimits(p) \/ LoadContracts(p) \/ CheckStorage(p) \/ CheckBandwidth(p)
  <2>1. UNCHANGED <<row, quota>> /\ contracts' = contracts /\ room' = room
    BY <1>3 DEF ResolveLimits, LoadContracts, CheckStorage, CheckBandwidth, env, usage
  <2>2. ASSUME NEW step, Goto(p, step), job' = job,
               \/ step = "contracts" /\ (IF contracts THEN Checked(Counted(p)) ELSE 0) = Want
               \/ step = "apps" /\ Checked(Counted(p)) = Want
               \/ step = "bandwidth" /\ (IF job[p].count <= room THEN job[p].count ELSE 0) = Want
        PROVE  Settled'
    <3>1. Others /\ pc'[p] = step
      BY <1>p, <1>t, <2>2 DEF Goto
    <3>2. Checked(Counted(p))' = Checked(Counted(p))
      BY <2>2 DEF env, usage, Counted, AppsOf, Checked
    <3>3. UpToDate(p)'
      BY <2>1, <2>2, <3>1, <3>2, <1>w DEF UpToDate
    <3>4. QED
      BY <1>p, <1>t, <2>1, <3>1, <3>3, SettledAfter
  <2>3. ASSUME Decided(p, Want) PROVE Settled'
    <3>1. CASE Want = job[p].copy.target
      BY <1>p, <2>1, <2>3, <3>1, ReturnSettles DEF Decided
    <3>2. CASE Want # job[p].copy.target
      <4>1. Others /\ pc'[p] = "lock" /\ job'[p].want = Want
        BY <1>p, <1>t, <2>3, <3>2 DEF Decided, Goto, Job
      <4>2. UpToDate(p)'
        BY <4>1, <1>w DEF UpToDate
      <4>3. QED
        BY <1>p, <1>t, <2>1, <4>1, <4>2, SettledAfter
    <3>3. QED
      BY <3>1, <3>2
  <2>4. CASE ResolveLimits(p)
    <3>1. Target(Counted(p)) = Want
      BY <1>t, <2>4 DEF ResolveLimits, UpToDate
    <3>2. CASE plan
      BY <2>2, <2>4, <3>1, <3>2 DEF ResolveLimits, Target
    <3>3. CASE ~plan
      <4>1. Want = 0
        BY <3>1, <3>3 DEF Target
      <4>2. QED
        BY <2>3, <2>4, <3>3, <4>1 DEF ResolveLimits
    <3>4. QED
      BY <3>2, <3>3
  <2>5. CASE LoadContracts(p)
    <3>1. (IF contracts THEN Checked(Counted(p)) ELSE 0) = Want
      BY <1>t, <2>5 DEF LoadContracts, UpToDate
    <3>2. CASE contracts
      BY <2>2, <2>5, <3>1, <3>2 DEF LoadContracts
    <3>3. CASE ~contracts
      <4>1. Want = 0
        BY <3>1, <3>3
      <4>2. QED
        BY <2>3, <2>5, <3>3, <4>1 DEF LoadContracts
    <3>4. QED
      BY <3>2, <3>3
  <2>6. CASE CheckStorage(p)
    <3>1. Checked(job[p].count) = Want
      BY <1>t, <2>6 DEF CheckStorage, UpToDate
    <3>2. CASE job[p].count <= space
      BY <2>2, <2>6, <3>1, <3>2 DEF CheckStorage, Checked
    <3>3. CASE ~(job[p].count <= space)
      <4>1. Want = 0
        BY <3>1, <3>3 DEF Checked
      <4>2. QED
        BY <2>3, <2>6, <3>3, <4>1 DEF CheckStorage
    <3>4. QED
      BY <3>2, <3>3
  <2>7. CASE CheckBandwidth(p)
    BY <1>t, <2>3, <2>7 DEF CheckBandwidth, UpToDate
  <2>8. QED
    BY <1>3, <2>4, <2>5, <2>6, <2>7
<1>3a. CASE ListApps(p)
  <2>1. /\ Others /\ pc'[p] = "storage" /\ UNCHANGED <<row, quota>>
        /\ job'[p] = [job[p] EXCEPT !.count = Counted(p)] /\ Checked(Counted(p)) = Want
    BY <1>3a, <1>p, <1>t DEF ListApps, Goto, UpToDate
  <2>2. job'[p].count = Counted(p)
    BY <2>1, <1>p, <1>t DEF Job
  <2>3. Checked(job[p].count)' = Want
    BY <2>1, <2>2 DEF env, usage, Checked
  <2>4. UpToDate(p)'
    BY <2>1, <2>3, <1>w DEF UpToDate
  <2>5. QED
    BY <1>p, <1>t, <2>1, <2>4, SettledAfter
<1>4. CASE Lock(p)
  <2>1. Others /\ pc'[p] = "reread" /\ job' = job /\ job[p].want = Want /\ UNCHANGED <<row, quota>>
    BY <1>4, <1>p, <1>t DEF Lock, Goto, UpToDate
  <2>2. UpToDate(p)'
    BY <2>1, <1>w DEF UpToDate
  <2>3. QED
    BY <1>p, <1>t, <2>1, <2>2, SettledAfter
<1>5. CASE Reread(p) \/ ReadQuota(p)
  <2>1. /\ Others /\ pc'[p] \in {"readQuota", "putQuota"} /\ job[p].want = Want
        /\ job'[p] = [job[p] EXCEPT !.copy = row] \/ job'[p] = [job[p] EXCEPT !.read = quota]
        /\ UNCHANGED <<row, quota>>
    BY <1>5, <1>p, <1>t DEF Reread, ReadQuota, Goto, UpToDate
  <2>2. job'[p].want = Want
    BY <2>1, <1>p, <1>t DEF Job
  <2>3. UpToDate(p)'
    BY <2>1, <2>2, <1>w DEF UpToDate
  <2>4. QED
    BY <1>p, <1>t, <2>1, <2>3, SettledAfter
<1>6. CASE PutQuota(p)
  <2>1. Others /\ pc'[p] = "save" /\ job' = job /\ job[p].want = Want /\ row' = row /\ quota' = Want
    BY <1>6, <1>p, <1>t DEF PutQuota, Goto, UpToDate
  <2>2. UpToDate(p)'
    BY <2>1, <1>w DEF UpToDate
  <2>3. QED
    BY <1>p, <1>t, <2>1, <2>2, SettledAfter
<1>7. CASE SaveTarget(p)
  <2>1. /\ Others /\ pc'[p] = "idle" /\ job[p].want = Want /\ quota' = quota
        /\ row' = [job[p].copy EXCEPT !.target = Want]
    BY <1>7, <1>p, <1>t DEF SaveTarget, Return, UpToDate
  <2>2. job[p].copy \in Row /\ job[p].copy.quotaKey
    BY <1>7, <1>p, <1>t DEF SaveTarget, LocalOK, Holding, Keyed, Job
  <2>3. row'.quotaKey /\ row'.target = Want
    BY <2>1, <2>2 DEF Row
  <2>4. UpToDate(p)'
    BY <2>1 DEF UpToDate
  <2>5. QED
    BY <1>p, <1>t, <2>1, <2>3, <2>4, SettledAfter
<1>8. QED
  BY <1>1, <1>2, <1>3, <1>3a, <1>4, <1>5, <1>6, <1>7 DEF EnforceStep

LEMMA ProvisionSettled ==
  ASSUME Inv, Settled, UNCHANGED <<env, faults>>, NEW p \in Provisioners,
         UserStep(p) \/ ProvisionStep(p)
  PROVE  Settled'
<1>p. p \in Procs
  BY DEF Procs
<1>t. /\ pc \in [Procs -> Steps] /\ job \in [Procs -> Job]
      /\ UpToDate(p)
      /\ row.exists /\ row.quotaKey /\ row.connectKey # 0 /\ row.target = Want /\ quota = Want
  BY <1>p, SiaAccountAssumption DEF Inv, TypeOK, RowOK, Keyed, Settled, Keys
<1>w. Want' = Want
  BY WantStays
<1> DEFINE Others == \A x \in Procs \ {p} : pc'[x] = pc[x] /\ job'[x] = job[x]
<1>1. CASE UserStep(p) \/ RegisterAccount(p)
  <2>1. /\ Others /\ pc'[p] \in {"shown", "idle", "load"}
        /\ UNCHANGED <<row, quota>>
    BY <1>1, <1>p, <1>t DEF UserStep, ViewPage, LeavePage, Approve, RegisterAccount, Goto
  <2>2. UpToDate(p)'
    BY <2>1 DEF UpToDate
  <2>3. QED
    BY <1>p, <1>t, <2>1, <2>2, SettledAfter
<1>2. CASE LoadAccount(p)
  BY <1>2, <1>p, <1>t, ReturnSettles DEF LoadAccount
<1>3. CASE ResolveTarget(p) \/ AddKey(p)
  <2>1. /\ Others /\ pc'[p] \in {"putProvision", "saveProvision"} /\ UNCHANGED <<row, quota>>
        /\ \/ job'[p] = [job[p] EXCEPT !.want = Budget(1)] /\ Budget(1) = Want
           \/ job'[p] = [job[p] EXCEPT !.key = issued + 1] /\ job[p].want = Want
    BY <1>3, <1>p, <1>t DEF ResolveTarget, AddKey, Goto, UpToDate
  <2>2. job'[p].want = Want
    BY <2>1, <1>p, <1>t DEF Job
  <2>3. UpToDate(p)'
    BY <2>1, <2>2, <1>w DEF UpToDate
  <2>4. QED
    BY <1>p, <1>t, <2>1, <2>3, SettledAfter
<1>4. CASE PutProvision(p)
  <2>1. Others /\ pc'[p] = "addKey" /\ job' = job /\ job[p].want = Want /\ row' = row /\ quota' = Want
    BY <1>4, <1>p, <1>t DEF PutProvision, Goto, UpToDate
  <2>2. UpToDate(p)'
    BY <2>1, <1>w DEF UpToDate
  <2>3. QED
    BY <1>p, <1>t, <2>1, <2>2, SettledAfter
<1>5. CASE SaveProvision(p)
  <2>1. /\ Others /\ pc'[p] = "idle" /\ job[p].want = Want /\ quota' = quota
        /\ row' = [job[p].copy EXCEPT !.quotaKey = TRUE, !.connectKey = job[p].key,
                                      !.target = Want]
    BY <1>5, <1>p, <1>t DEF SaveProvision, Return, UpToDate
  <2>2. row'.quotaKey /\ row'.target = Want
    BY <2>1, <1>p, <1>t DEF Job, Row
  <2>3. UpToDate(p)'
    BY <2>1 DEF UpToDate
  <2>4. QED
    BY <1>p, <1>t, <2>1, <2>2, <2>3, SettledAfter
<1>6. QED
  BY <1>1, <1>2, <1>3, <1>4, <1>5 DEF ProvisionStep

LEMMA SyncSettled ==
  ASSUME Inv, Settled, UNCHANGED <<env, faults>>, NEW p \in Syncs, SyncStep(p)
  PROVE  Settled'
<1>p. p \in Procs
  BY DEF Procs
<1>t. /\ pc \in [Procs -> Steps] /\ job \in [Procs -> Job]
      /\ UpToDate(p)
      /\ row.quotaKey /\ row.target = Want /\ quota = Want
      /\ LocalOK(job[p], pc[p], row, quota, issued)
  BY <1>p DEF Inv, TypeOK, LocalsOK, Settled
<1>w. Want' = Want
  BY WantStays
<1> DEFINE Others == \A x \in Procs \ {p} : pc'[x] = pc[x] /\ job'[x] = job[x]
<1>1. CASE FetchEvent(p) \/ Record(p)
  <2>1. Others /\ pc'[p] \in {"lookup", "persist"} /\ UNCHANGED <<row, quota>>
    BY <1>1, <1>p, <1>t DEF FetchEvent, Record, Goto
  <2>2. UpToDate(p)'
    BY <2>1 DEF UpToDate
  <2>3. QED
    BY <1>p, <1>t, <2>1, <2>2, SettledAfter
<1>2. CASE Lookup(p)
  <2>1. /\ Others /\ pc'[p] \in {"persist", "saveEvent"} /\ UNCHANGED <<row, quota>>
        /\ job'[p].copy = row
    BY <1>2, <1>p, <1>t DEF Lookup, Goto, Job
  <2>2. UpToDate(p)'
    BY <2>1, <1>t, <1>w DEF UpToDate
  <2>3. QED
    BY <1>p, <1>t, <2>1, <2>2, SettledAfter
<1>3. CASE SaveEvent(p)
  <2>1. /\ Others /\ pc'[p] = "record" /\ quota' = quota
        /\ row' = [job[p].copy EXCEPT !.lastEvent = job[p].event]
        /\ job[p].copy.target = Want
    BY <1>3, <1>p, <1>t DEF SaveEvent, Goto, UpToDate
  <2>2. job[p].copy \in Row /\ job[p].copy.quotaKey
    BY <1>3, <1>p, <1>t DEF SaveEvent, LocalOK, Holding, Keyed, Job
  <2>3. row'.quotaKey /\ row'.target = Want
    BY <2>1, <2>2 DEF Row
  <2>4. UpToDate(p)'
    BY <2>1 DEF UpToDate
  <2>5. QED
    BY <1>p, <1>t, <2>1, <2>3, <2>4, SettledAfter
<1>4. CASE PersistCursor(p)
  BY <1>4, <1>p, ReturnSettles DEF PersistCursor
<1>5. QED
  BY <1>1, <1>2, <1>3, <1>4 DEF SyncStep

(* Once row, quota and every run carry what is wanted, nothing but a       *)
(* change or a failure takes that away.                                    *)
THEOREM SettledIsKept == Spec => SettledStays
<1>1. ASSUME Inv, IdleClean, [Next]_vars, Settled, UNCHANGED <<env, faults>>
      PROVE  Settled'
  <2>1. ~Fault
    BY <1>1, SiaAccountAssumption DEF Fault, Inv, TypeOK
  <2>2. ~Change
    BY <1>1, SiaAccountAssumption DEF Change, Inv, TypeOK, env
  <2>3. CASE UNCHANGED vars
    <3>1. UNCHANGED <<row, quota, pc, job>> /\ Want' = Want
      BY <1>1, <2>3, WantStays DEF vars
    <3>2. ASSUME NEW p \in Procs PROVE UpToDate(p)'
      <4>1. UpToDate(p)
        BY <1>1 DEF Settled
      <4>2. /\ Target(Counted(p))' = Target(Counted(p)) /\ Budget(1)' = Budget(1)
            /\ Checked(Counted(p))' = Checked(Counted(p))
            /\ Checked(job[p].count)' = Checked(job[p].count)
            /\ contracts' = contracts /\ room' = room
        BY <1>1, <3>1 DEF env, usage, Counted, Target, Checked, Budget, AppsOf
      <4>3. QED
        BY <3>1, <4>1, <4>2 DEF UpToDate
    <3>3. QED
      BY <1>1, <3>1, <3>2 DEF Settled
  <2>4. QED
    BY <1>1, <2>1, <2>2, <2>3, EnforceSettled, ProvisionSettled, SyncSettled
       DEF Next, Restart, LimitsFail, AppsFail, CheckFails, EnforceFails, ViewUnchecked,
           ResolveFails, ProvisionFails, EventFails, PersistFails
<1>2. QED
  BY <1>1, Invariant, IdleRunsAreClean, PTL DEF Spec, SettledStays
=============================================================================
