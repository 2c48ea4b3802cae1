-------------------------- MODULE SiaAccountTabsProofs --------------------------
(***************************************************************************)
(* Proofs about what runs that overlap can do to an account, for any       *)
(* number of updates, tabs, syncs and faults: how many connect keys the    *)
(* tabs leave at indexd, and when the row's target is not indexd's.        *)
(***************************************************************************)
EXTENDS SiaAccountProofs, FiniteSetTheorems

-----------------------------------------------------------------------------
(* A key is given with the QuotaKey, so the row has both or none.          *)
KeysTogether == row.connectKey # 0 => row.quotaKey

LEMMA KeyStays ==
  ASSUME Inv, KeysTogether, [Next]_vars, row.connectKey # 0
  PROVE  row'.connectKey # 0
<1>1. Inv' /\ Grows
  BY Inductive
<1>2. row'.quotaKey
  BY <1>1 DEF KeysTogether, Grows
<1>3. Keyed(row', issued') /\ issued' \in Nat
  BY <1>1, <1>2, SiaAccountAssumption DEF Inv, RowOK, TypeOK, Keys
<1>4. QED
  BY <1>3 DEF Keyed

(* The steps that write the row.                                           *)
LEMMA RowWritten ==
  ASSUME Inv, [Next]_vars
  PROVE  \/ UNCHANGED row
         \/ ~row.exists /\ row' = [NoRow EXCEPT !.exists = TRUE]
         \/ row'.quotaKey
<1>p. \A p \in Procs : /\ job[p] \in Job /\ job[p].copy \in Row
                       /\ LocalOK(job[p], pc[p], row, quota, issued)
  BY DEF Inv, TypeOK, LocalsOK, Job
<1>1. CASE Change \/ Restart \/ UNCHANGED vars
  BY <1>1 DEF Change, Restart, vars
<1>2. ASSUME NEW p \in Enforcers, SaveTarget(p)
      PROVE  row'.quotaKey
  <2>1. job[p].copy \in Row /\ job[p].copy.quotaKey
    BY <1>p, <1>2 DEF Procs, SaveTarget, LocalOK, Holding, Keyed
  <2>2. row' = [job[p].copy EXCEPT !.target = job[p].want]
    BY <1>2 DEF SaveTarget
  <2>3. QED
    BY <2>1, <2>2 DEF Row
<1>3. ASSUME NEW p \in Enforcers,
             \/ StartEnforce(p) \/ CountApps(p) \/ GetAccount(p) \/ ResolveLimits(p)
             \/ LoadContracts(p) \/ ListApps(p) \/ CheckStorage(p) \/ CheckBandwidth(p)
             \/ Lock(p) \/ Reread(p) \/ ReadQuota(p) \/ PutQuota(p)
             \/ LimitsFail(p) \/ AppsFail(p) \/ CheckFails(p) \/ EnforceFails(p)
      PROVE  UNCHANGED row
  BY <1>3 DEF StartEnforce, CountApps, GetAccount, ResolveLimits, LoadContracts, ListApps,
     CheckStorage, CheckBandwidth, Lock, Reread, ReadQuota, PutQuota, LimitsFail, AppsFail,
     CheckFails, EnforceFails
<1>4. ASSUME NEW p \in Provisioners, SaveProvision(p)
      PROVE  row'.quotaKey
  <2>1. job[p].copy \in Row
    BY <1>p DEF Procs
  <2>2. row' = [job[p].copy EXCEPT !.quotaKey = TRUE, !.connectKey = job[p].key,
                                   !.target = job[p].want]
    BY <1>4 DEF SaveProvision
  <2>3. QED
    BY <2>1, <2>2 DEF Row
<1>5. ASSUME NEW p \in Provisioners, RegisterAccount(p)
      PROVE  UNCHANGED row \/ (~row.exists /\ row' = [NoRow EXCEPT !.exists = TRUE])
  BY <1>5 DEF RegisterAccount
<1>6. ASSUME NEW p \in Provisioners,
             \/ UserStep(p) \/ LoadAccount(p) \/ ResolveTarget(p) \/ PutProvision(p)
             \/ AddKey(p) \/ ViewUnchecked(p) \/ ResolveFails(p) \/ ProvisionFails(p)
      PROVE  UNCHANGED row
  BY <1>6 DEF UserStep, ViewPage, LeavePage, Approve, LoadAccount, ResolveTarget,
     PutProvision, AddKey, ViewUnchecked, ResolveFails, ProvisionFails
<1>7. ASSUME NEW p \in Syncs, SaveEvent(p)
      PROVE  row'.quotaKey
  <2>1. job[p].copy \in Row /\ job[p].copy.quotaKey
    BY <1>p, <1>7 DEF Procs, SaveEvent, LocalOK, Holding, Keyed
  <2>2. row' = [job[p].copy EXCEPT !.lastEvent = job[p].event]
    BY <1>7 DEF SaveEvent
  <2>3. QED
    BY <2>1, <2>2 DEF Row
<1>8. ASSUME NEW p \in Syncs,
             \/ FetchEvent(p) \/ Lookup(p) \/ Record(p) \/ PersistCursor(p)
             \/ EventFails(p) \/ PersistFails(p)
      PROVE  UNCHANGED row
  BY <1>8 DEF FetchEvent, Lookup, Record, PersistCursor, EventFails, PersistFails
<1>9. QED
  BY <1>1, <1>2, <1>3, <1>4, <1>5, <1>6, <1>7, <1>8
     DEF Next, EnforceStep, ProvisionStep, SyncStep

LEMMA KeysTogetherStays ==
  ASSUME Inv, KeysTogether, [Next]_vars
  PROVE  KeysTogether'
<1>1. CASE UNCHANGED row
  BY <1>1 DEF KeysTogether
<1>2. CASE ~row.exists /\ row' = [NoRow EXCEPT !.exists = TRUE]
  <2>1. row'.connectKey = 0
    BY <1>2 DEF NoRow
  <2>2. QED
    BY <2>1 DEF KeysTogether
<1>3. CASE row'.quotaKey
  BY <1>3 DEF KeysTogether
<1>4. QED
  BY <1>1, <1>2, <1>3, RowWritten

-----------------------------------------------------------------------------
Busy == {"resolve", "putProvision", "addKey"}

(* The tabs that may have indexd issue one more key before the next fault: *)
(* every tab that has not got one yet while the row has none, then only    *)
(* those that found the row without.                                       *)
Pending ==
  {p \in Provisioners :
     IF row.connectKey = 0 THEN pc[p] # "saveProvision" ELSE pc[p] \in Busy}

KeyLedger ==
  issued + Cardinality(Pending) <= Cardinality(Provisioners) * (faults + 1)

KeyInv == Inv /\ KeysTogether /\ KeyLedger

(* A step that issues no key: it lets no further tab in, or it is a fault, *)
(* which lets each in once more.                                           *)
LEMMA NoKeyIssued ==
  ASSUME KeyInv, Inv', IsFiniteSet(Provisioners), UNCHANGED issued,
         \/ UNCHANGED faults /\ Pending' \subseteq Pending
         \/ faults' = faults + 1
  PROVE  KeyLedger'
<1> DEFINE n == Cardinality(Provisioners)
<1>1. n \in Nat /\ issued \in Nat /\ faults \in Nat
  BY FS_CardinalityType, SiaAccountAssumption DEF KeyInv, Inv, TypeOK, Keys
<1>2. Pending \subseteq Provisioners /\ Pending' \subseteq Provisioners
  BY DEF Pending
<1>3. IsFiniteSet(Pending) /\ IsFiniteSet(Pending')
  BY <1>2, FS_Subset
<1>4. Cardinality(Pending) \in Nat /\ Cardinality(Pending') \in Nat
  BY <1>3, FS_CardinalityType
<1>5. Cardinality(Pending') <= n
  BY <1>2, FS_Subset
<1>6. issued + Cardinality(Pending) <= n * (faults + 1)
  BY DEF KeyInv, KeyLedger
<1>7. CASE UNCHANGED faults /\ Pending' \subseteq Pending
  <2>1. Cardinality(Pending') <= Cardinality(Pending)
    BY <1>3, <1>7, FS_Subset
  <2>2. issued' + Cardinality(Pending') <= n * (faults' + 1)
    BY <1>1, <1>4, <1>6, <1>7, <2>1
  <2>3. QED
    BY <2>2 DEF KeyLedger
<1>8. CASE faults' = faults + 1
  <2>1. n * (faults' + 1) = n * (faults + 1) + n
    BY <1>1, <1>8
  <2>2. n * (faults + 1) \in Nat
    BY <1>1
  <2>3. issued' + Cardinality(Pending') <= n * (faults' + 1)
    BY <1>1, <1>4, <1>5, <1>6, <2>1, <2>2
  <2>4. QED
    BY <2>3 DEF KeyLedger
<1>9. QED
  BY <1>7, <1>8

(* AddAppConnectKey takes the tab out of the pending ones.                 *)
LEMMA KeyIssued ==
  ASSUME KeyInv, Inv', IsFiniteSet(Provisioners), NEW p \in Provisioners, AddKey(p)
  PROVE  KeyLedger'
<1> DEFINE n == Cardinality(Provisioners)
<1>1. n \in Nat /\ issued \in Nat /\ faults \in Nat
  BY FS_CardinalityType, SiaAccountAssumption DEF KeyInv, Inv, TypeOK, Keys
<1>2. pc \in [Procs -> Steps] /\ p \in Procs
  BY DEF KeyInv, Inv, TypeOK, Procs
<1>3. /\ pc[p] = "addKey" /\ row' = row /\ faults' = faults /\ issued' = issued + 1
      /\ pc' = [pc EXCEPT ![p] = "saveProvision"]
  BY DEF AddKey, Goto
<1>4. p \in Pending
  BY <1>3 DEF Pending, Busy
<1>5. Pending' = Pending \ {p}
  BY <1>2, <1>3 DEF Pending, Busy, Procs
<1>6. IsFiniteSet(Pending)
  BY FS_Subset DEF Pending
<1>7. Cardinality(Pending') = Cardinality(Pending) - 1 /\ Cardinality(Pending) \in Nat
  BY <1>4, <1>5, <1>6, FS_RemoveElement, FS_CardinalityType
<1>8. issued + Cardinality(Pending) <= n * (faults + 1)
  BY DEF KeyInv, KeyLedger
<1>9. issued' + Cardinality(Pending') <= n * (faults' + 1)
  BY <1>1, <1>3, <1>7, <1>8
<1>10. QED
  BY <1>9 DEF KeyLedger

(* The steps of the others let no tab in.                                  *)
LEMMA OthersLetIn ==
  ASSUME KeyInv, Inv', [Next]_vars,
         \A t \in Provisioners : pc'[t] = pc[t]
  PROVE  Pending' \subseteq Pending
<1>1. row.connectKey # 0 => row'.connectKey # 0
  BY KeyStays DEF KeyInv
<1>2. \A t \in Provisioners : pc[t] \in Busy => pc[t] # "saveProvision"
  BY DEF Busy
<1>3. QED
  BY <1>1, <1>2 DEF Pending

(* A tab's own step lets it in only when it was before.                    *)
LEMMA TabLetsIn ==
  ASSUME KeyInv, Inv', [Next]_vars, NEW p \in Provisioners, NEW step,
         pc' = [pc EXCEPT ![p] = step],
         step \in Busy => row.connectKey = 0 \/ pc[p] \in Busy,
         pc[p] = "saveProvision" => row'.connectKey # 0 /\ step \notin Busy
  PROVE  Pending' \subseteq Pending
<1>1. row.connectKey # 0 => row'.connectKey # 0
  BY KeyStays DEF KeyInv
<1>2. pc \in [Procs -> Steps] /\ Provisioners \subseteq Procs
  BY DEF KeyInv, Inv, TypeOK, Procs
<1>3. \A t \in Provisioners : pc[t] \in Busy => pc[t] # "saveProvision"
  BY DEF Busy
<1>4. ASSUME NEW t \in Pending' PROVE t \in Pending
  <2>1. t \in Provisioners
    BY DEF Pending
  <2>2. CASE t # p
    <3>1. pc'[t] = pc[t]
      BY <1>2, <2>1, <2>2
    <3>2. QED
      BY <1>1, <1>3, <2>1, <3>1 DEF Pending
  <2>3. CASE t = p
    <3>1. pc'[p] = step
      BY <1>2
    <3>2. QED
      BY <1>1, <1>3, <2>1, <2>3, <3>1 DEF Pending
  <2>4. QED
    BY <2>2, <2>3
<1>5. QED
  BY <1>4

LEMMA TabSteps ==
  ASSUME KeyInv, Inv', [Next]_vars, IsFiniteSet(Provisioners), NEW p \in Provisioners,
         \/ UserStep(p) \/ ProvisionStep(p)
             \/ ViewUnchecked(p) \/ ResolveFails(p) \/ ProvisionFails(p)
  PROVE  KeyLedger'
<1>1. CASE AddKey(p)
  BY <1>1, KeyIssued
<1>2. CASE ViewUnchecked(p) \/ ResolveFails(p) \/ ProvisionFails(p)
  BY <1>2, NoKeyIssued DEF ViewUnchecked, ResolveFails, ProvisionFails, Fault
<1>3. CASE UserStep(p) \/ RegisterAccount(p)
  <2>1. PICK step : /\ pc' = [pc EXCEPT ![p] = step] /\ step \notin Busy
                    /\ pc[p] # "saveProvision" /\ UNCHANGED <<issued, faults>>
    BY <1>3 DEF UserStep, ViewPage, LeavePage, Approve, RegisterAccount, Goto, Busy
  <2>2. Pending' \subseteq Pending
    BY <2>1, TabLetsIn
  <2>3. QED
    BY <2>1, <2>2, NoKeyIssued
<1>4. CASE LoadAccount(p)
  <2>1. CASE row.quotaKey /\ row.connectKey # 0
    <3>1. /\ pc' = [pc EXCEPT ![p] = "idle"] /\ "idle" \notin Busy
          /\ pc[p] # "saveProvision" /\ UNCHANGED <<issued, faults>>
      BY <1>4, <2>1 DEF LoadAccount, Return, Busy
    <3>2. Pending' \subseteq Pending
      BY <3>1, TabLetsIn
    <3>3. QED
      BY <3>1, <3>2, NoKeyIssued
  <2>2. CASE ~(row.quotaKey /\ row.connectKey # 0)
    <3>1. /\ pc' = [pc EXCEPT ![p] = "resolve"] /\ pc[p] = "load"
          /\ UNCHANGED <<issued, faults>>
      BY <1>4, <2>2 DEF LoadAccount, Goto
    <3>2. row.connectKey = 0
      BY <2>2 DEF KeyInv, KeysTogether
    <3>3. Pending' \subseteq Pending
      BY <3>1, <3>2, TabLetsIn
    <3>4. QED
      BY <3>1, <3>3, NoKeyIssued
  <2>3. QED
    BY <2>1, <2>2
<1>5. CASE ResolveTarget(p) \/ PutProvision(p)
  <2>1. PICK step : /\ pc' = [pc EXCEPT ![p] = step] /\ pc[p] \in Busy
                    /\ UNCHANGED <<issued, faults>>
    BY <1>5 DEF ResolveTarget, PutProvision, Goto, Busy
  <2>2. pc[p] # "saveProvision"
    BY <2>1 DEF Busy
  <2>3. Pending' \subseteq Pending
    BY <2>1, <2>2, TabLetsIn
  <2>4. QED
    BY <2>1, <2>3, NoKeyIssued
<1>6. CASE SaveProvision(p)
  <2>1. /\ pc' = [pc EXCEPT ![p] = "idle"] /\ "idle" \notin Busy
        /\ UNCHANGED <<issued, faults>>
    BY <1>6 DEF SaveProvision, Return, Busy
  <2>2. row'.connectKey # 0
    <3>1. /\ job[p].copy \in Row /\ job[p].key \in 1 .. issued /\ issued \in Nat
          /\ row' = [job[p].copy EXCEPT !.quotaKey = TRUE, !.connectKey = job[p].key,
                                        !.target = job[p].want]
      BY <1>6, SiaAccountAssumption
         DEF KeyInv, Inv, TypeOK, LocalsOK, LocalOK, Procs, Job, SaveProvision, Keys
    <3>2. row'.connectKey = job[p].key
      BY <3>1 DEF Row
    <3>3. QED
      BY <3>1, <3>2
  <2>3. Pending' \subseteq Pending
    BY <2>1, <2>2, TabLetsIn
  <2>4. QED
    BY <2>1, <2>3, NoKeyIssued
<1>7. QED
  BY <1>1, <1>2, <1>3, <1>4, <1>5, <1>6 DEF ProvisionStep

(* A step of an enforcement or a sync moves no tab and issues no key.      *)
LEMMA OtherSteps ==
  ASSUME KeyInv, Inv', [Next]_vars, IsFiniteSet(Provisioners),
         NEW p \in Enforcers \cup Syncs, NEW step, pc' = [pc EXCEPT ![p] = step],
         UNCHANGED issued, UNCHANGED faults \/ faults' = faults + 1
  PROVE  KeyLedger'
<1>1. p \notin Provisioners
  BY SiaAccountAssumption
<1>2. \A t \in Provisioners : pc'[t] = pc[t]
  BY <1>1 DEF KeyInv, Inv, TypeOK, Procs
<1>3. Pending' \subseteq Pending
  BY <1>2, OthersLetIn
<1>4. QED
  BY <1>3, NoKeyIssued

LEMMA KeyInductive ==
  ASSUME IsFiniteSet(Provisioners)
  PROVE  KeyInv /\ [Next]_vars => KeyInv'
<1> SUFFICES ASSUME KeyInv, [Next]_vars PROVE KeyInv'
  OBVIOUS
<1>1. Inv' /\ KeysTogether'
  BY Inductive, KeysTogetherStays DEF KeyInv
<1>2. CASE Change \/ UNCHANGED vars
  <2>1. UNCHANGED <<pc, issued, faults>>
    BY <1>2 DEF Change, vars
  <2>2. QED
    BY <1>1, <2>1, OthersLetIn, NoKeyIssued DEF KeyInv
<1>3. CASE Restart
  BY <1>1, <1>3, NoKeyIssued DEF Restart, Fault, KeyInv
<1>4. ASSUME NEW p \in Provisioners,
             \/ UserStep(p) \/ ProvisionStep(p)
             \/ ViewUnchecked(p) \/ ResolveFails(p) \/ ProvisionFails(p)
      PROVE  KeyLedger'
  BY <1>1, <1>4, TabSteps
<1>5. ASSUME NEW p \in Enforcers,
             \/ StartEnforce(p) \/ CountApps(p) \/ EnforceStep(p)
             \/ LimitsFail(p) \/ AppsFail(p) \/ CheckFails(p) \/ EnforceFails(p)
      PROVE  KeyLedger'
  <2>1. UNCHANGED issued /\ (UNCHANGED faults \/ faults' = faults + 1)
    BY <1>5 DEF EnforceStep, StartEnforce, CountApps, GetAccount, ResolveLimits,
       LoadContracts, ListApps, CheckStorage, CheckBandwidth, Lock, Reread, ReadQuota,
       PutQuota, SaveTarget, LimitsFail, AppsFail, CheckFails, EnforceFails, Fault
  <2>2. \E step : pc' = [pc EXCEPT ![p] = step]
    BY <1>5 DEF EnforceStep, StartEnforce, CountApps, GetAccount, ResolveLimits,
       LoadContracts, ListApps, CheckStorage, CheckBandwidth, Lock, Reread, ReadQuota,
       PutQuota, SaveTarget, LimitsFail, AppsFail, CheckFails, EnforceFails,
       Decided, Goto, Return
  <2>3. QED
    BY <1>1, <2>1, <2>2, OtherSteps
<1>6. ASSUME NEW p \in Syncs, SyncStep(p) \/ EventFails(p) \/ PersistFails(p)
      PROVE  KeyLedger'
  <2>1. UNCHANGED issued /\ (UNCHANGED faults \/ faults' = faults + 1)
    BY <1>6 DEF SyncStep, FetchEvent, Lookup, SaveEvent, Record, PersistCursor,
       EventFails, PersistFails, Fault
  <2>2. \E step : pc' = [pc EXCEPT ![p] = step]
    BY <1>6 DEF SyncStep, FetchEvent, Lookup, SaveEvent, Record, PersistCursor,
       EventFails, PersistFails, Goto, Return
  <2>3. QED
    BY <1>1, <2>1, <2>2, OtherSteps
<1>7. KeyLedger'
  BY <1>2, <1>3, <1>4, <1>5, <1>6 DEF Next, KeyInv
<1>8. QED
  BY <1>1, <1>7 DEF KeyInv

(* However many tabs provision the account at once: every connect key at   *)
(* indexd beyond one per tab is owed to a failed call or a restart, each   *)
(* of which costs at most one more per tab.                                *)
THEOREM KeysAreAccounted ==
  ASSUME IsFiniteSet(Provisioners)
  PROVE  Spec => []KeysAccounted
<1>1. Init => KeyInv
  <2> SUFFICES ASSUME Init PROVE KeyInv
    OBVIOUS
  <2>1. Inv /\ KeysTogether
    BY Initially DEF Init, NoRow, KeysTogether
  <2>2. issued = 0 /\ faults = 0 /\ Pending \subseteq Provisioners
    BY DEF Init, Pending
  <2>3. Cardinality(Pending) <= Cardinality(Provisioners)
    BY <2>2, FS_Subset
  <2>4. Cardinality(Pending) \in Nat /\ Cardinality(Provisioners) \in Nat
    BY <2>2, FS_Subset, FS_CardinalityType
  <2>5. QED
    BY <2>1, <2>2, <2>3, <2>4 DEF KeyInv, KeyLedger
<1>2. KeyInv /\ [Next]_vars => KeyInv'
  BY KeyInductive
<1>3. KeyInv => KeysAccounted
  <2> SUFFICES ASSUME KeyInv PROVE KeysAccounted
    OBVIOUS
  <2>1. IsFiniteSet(Pending)
    BY FS_Subset DEF Pending
  <2>2. Cardinality(Pending) \in Nat /\ Cardinality(Provisioners) \in Nat
        /\ issued \in Nat /\ faults \in Nat
    BY <2>1, FS_CardinalityType, SiaAccountAssumption DEF KeyInv, Inv, TypeOK, Keys
  <2>3. Cardinality(Provisioners) * (faults + 1) \in Nat
    BY <2>2
  <2>4. QED
    BY <2>2, <2>3 DEF KeyInv, KeyLedger, KeysAccounted
<1>4. QED
  BY <1>1, <1>2, <1>3, PTL DEF Spec

-----------------------------------------------------------------------------
Between == {"save", "addKey", "saveProvision"}

(* An update has the mutex from Lock until it returns.                     *)
Held ==
  \A p \in Enforcers :
    pc[p] \in {"reread", "readQuota", "putQuota"} \cup Between => holder = p

(* Unless the row was set adrift, either nobody is midway and the row has  *)
(* indexd's target, or one run is and indexd has that run's.               *)
Follows ==
  ~adrift =>
    \/ MidwayRuns = {} /\ (row.quotaKey => row.target = quota)
    \/ \E p \in Procs : MidwayRuns = {p} /\ quota = job[p].want

DriftInv == Inv /\ Held /\ Follows

LEMMA MidwayAfter ==
  ASSUME Inv, NEW p \in Procs, NEW step, Goto(p, step)
  PROVE  /\ step \in Between => MidwayRuns' = MidwayRuns \cup {p}
         /\ step \notin Between => MidwayRuns' = MidwayRuns \ {p}
         /\ p \in MidwayRuns <=> pc[p] \in Between
<1>1. pc \in [Procs -> Steps]
  BY DEF Inv, TypeOK
<1>2. QED
  BY <1>1 DEF Goto, MidwayRuns, Between

(* The mutex stays with the others, and run p has it where it has to.      *)
LEMMA HeldAfter ==
  ASSUME Inv, Held, NEW p \in Procs, NEW step, Goto(p, step),
         p \in Enforcers /\ step \in {"reread", "readQuota", "putQuota"} \cup Between
           => holder' = p,
         holder' = holder \/ holder \in {None, p}
  PROVE  Held'
<1>1. pc \in [Procs -> Steps] /\ None \notin Enforcers
  BY SiaAccountAssumption DEF Inv, TypeOK, Procs
<1>2. ASSUME NEW x \in Enforcers,
             pc'[x] \in {"reread", "readQuota", "putQuota"} \cup Between
      PROVE  holder' = x
  <2>1. CASE x = p
    BY <1>1, <1>2, <2>1 DEF Goto
  <2>2. CASE x # p
    <3>1. x \in Procs /\ pc'[x] = pc[x]
      BY <1>1, <2>2 DEF Goto, Procs
    <3>2. holder = x
      BY <1>2, <3>1 DEF Held
    <3>3. QED
      BY <1>1, <2>2, <3>2
  <2>3. QED
    BY <2>1, <2>2
<1>3. QED
  BY <1>2 DEF Held

(* A step by a run that is not midway and does not become so.              *)
LEMMA Aside ==
  ASSUME Inv, Follows, NEW p \in Procs, NEW step, NEW j,
         Goto(p, step), job' = [job EXCEPT ![p] = j],
         pc[p] \notin Between, step \notin Between, UNCHANGED <<quota, adrift>>,
         UNCHANGED row \/ ~row'.quotaKey
  PROVE  Follows'
<1>1. MidwayRuns' = MidwayRuns /\ p \notin MidwayRuns
  BY MidwayAfter
<1>2. \A x \in Procs : x # p => job'[x] = job[x]
  BY DEF Inv, TypeOK
<1>3. SUFFICES ASSUME ~adrift'
               PROVE  \/ MidwayRuns' = {} /\ (row'.quotaKey => row'.target = quota')
                      \/ \E x \in Procs : MidwayRuns' = {x} /\ quota' = job'[x].want
  BY DEF Follows
<1>4. CASE MidwayRuns = {} /\ (row.quotaKey => row.target = quota)
  BY <1>1, <1>4
<1>5. CASE \E x \in Procs : MidwayRuns = {x} /\ quota = job[x].want
  <2>1. PICK x \in Procs : MidwayRuns = {x} /\ quota = job[x].want
    BY <1>5
  <2>2. x # p
    BY <1>1, <2>1
  <2>3. QED
    BY <1>1, <1>2, <2>1, <2>2
<1>6. QED
  BY <1>3, <1>4, <1>5 DEF Follows

(* PutQuota by run p: nobody is midway, or the row is set adrift.          *)
LEMMA Put ==
  ASSUME Inv, NEW p \in Procs, NEW step \in Between, Goto(p, step),
         UNCHANGED job, quota' = job[p].want, MidwayRuns # {} => adrift'
  PROVE  Follows'
<1>1. MidwayRuns' = MidwayRuns \cup {p}
  BY MidwayAfter
<1>2. CASE MidwayRuns = {}
  <2>1. MidwayRuns' = {p} /\ quota' = job'[p].want
    BY <1>1, <1>2
  <2>2. QED
    BY <2>1 DEF Follows
<1>3. CASE MidwayRuns # {}
  BY <1>3 DEF Follows
<1>4. QED
  BY <1>2, <1>3

(* Save by run p, of the target it gave indexd.                            *)
LEMMA Saved ==
  ASSUME Inv, Follows, NEW p \in Procs, NEW step, Goto(p, step),
         pc[p] \in Between, step \notin Between, UNCHANGED <<quota, adrift>>,
         row'.target = job[p].want
  PROVE  Follows'
<1>1. MidwayRuns' = MidwayRuns \ {p} /\ p \in MidwayRuns
  BY MidwayAfter
<1>2. CASE ~adrift
  <2>1. MidwayRuns = {p} /\ quota = job[p].want
    BY <1>1, <1>2 DEF Follows
  <2>2. MidwayRuns' = {} /\ row'.target = quota'
    BY <1>1, <2>1
  <2>3. QED
    BY <2>2 DEF Follows
<1>3. CASE adrift
  BY <1>3 DEF Follows
<1>4. QED
  BY <1>2, <1>3

(* Run p fails; midway, it sets the row adrift.                            *)
LEMMA Failed ==
  ASSUME Inv, Follows, NEW p \in Procs, NEW step, Goto(p, step),
         job' = [job EXCEPT ![p] = NoJob], step \notin Between,
         UNCHANGED <<row, quota>>, adrift' = (adrift \/ p \in MidwayRuns)
  PROVE  Follows'
<1>1. CASE p \in MidwayRuns
  BY <1>1 DEF Follows
<1>2. CASE p \notin MidwayRuns
  <2>1. pc[p] \notin Between
    BY <1>2, MidwayAfter
  <2>2. adrift \in BOOLEAN /\ adrift' \in BOOLEAN
    BY DEF Inv, TypeOK
  <2>3. adrift' = adrift
    BY <1>2, <2>2
  <2>4. QED
    BY <2>1, <2>3, Aside
<1>3. QED
  BY <1>1, <1>2

LEMMA ReturnGoes ==
  ASSUME NEW p, Return(p)
  PROVE  /\ Goto(p, "idle") /\ job' = [job EXCEPT ![p] = NoJob]
         /\ holder' = holder \/ holder = p
BY DEF Return, Goto

LEMMA EnforcerDrift ==
  ASSUME DriftInv, NEW p \in Enforcers,
         \/ StartEnforce(p) \/ CountApps(p) \/ EnforceStep(p)
         \/ LimitsFail(p) \/ AppsFail(p) \/ CheckFails(p) \/ EnforceFails(p)
  PROVE  Held' /\ Follows'
<1>1. p \in Procs /\ Inv /\ Held /\ Follows
  BY DEF Procs, DriftInv
<1>2. /\ pc \in [Procs -> Steps] /\ job \in [Procs -> Job] /\ job[p] \in Job
      /\ job = [job EXCEPT ![p] = job[p]]
  BY <1>1 DEF Inv, TypeOK
<1>i. "idle" \notin {"reread", "readQuota", "putQuota"} \cup Between
  BY DEF Between
<1>3. ASSUME NEW step, NEW j, Goto(p, step), job' = [job EXCEPT ![p] = j],
             step \notin {"reread", "readQuota", "putQuota"} \cup Between,
             pc[p] \notin Between, UNCHANGED <<row, quota, adrift>>,
             holder' = holder \/ holder = p
      PROVE  Held' /\ Follows'
  <2>1. Held'
    BY <1>1, <1>3, HeldAfter
  <2>2. Follows'
    BY <1>1, <1>3, Aside
  <2>3. QED
    BY <2>1, <2>2
<1>4. ASSUME NEW t, Decided(p, t), pc[p] \notin Between, UNCHANGED <<row, quota, adrift>>
      PROVE  Held' /\ Follows'
  <2>1. CASE Return(p)
    BY <1>3, <1>4, <1>i, <2>1, ReturnGoes
  <2>2. CASE /\ Goto(p, "lock") /\ holder' = holder
             /\ job' = [job EXCEPT ![p] = [job[p] EXCEPT !.want = t]]
    <3>1. "lock" \notin {"reread", "readQuota", "putQuota"} \cup Between
      BY DEF Between
    <3>2. QED
      BY <1>3, <1>4, <2>2, <3>1
  <2>3. QED
    BY <1>4, <2>1, <2>2 DEF Decided
<1>5. CASE StartEnforce(p) \/ CountApps(p) \/ GetAccount(p) \/ ListApps(p) \/ AppsFail(p)
  <2>1. PICK step, j : /\ Goto(p, step) /\ job' = [job EXCEPT ![p] = j]
                       /\ step \in {"limits", "account", "storage"}
    BY <1>5 DEF StartEnforce, CountApps, GetAccount, ListApps, AppsFail
  <2>2. pc[p] \notin Between /\ UNCHANGED <<row, quota, adrift, holder>>
    BY <1>5 DEF StartEnforce, CountApps, GetAccount, ListApps, AppsFail, Between
  <2>3. step \notin {"reread", "readQuota", "putQuota"} \cup Between
    BY <2>1 DEF Between
  <2>4. QED
    BY <1>3, <2>1, <2>2, <2>3
<1>6. CASE \/ ResolveLimits(p) \/ LimitsFail(p) \/ LoadContracts(p) \/ CheckStorage(p)
           \/ CheckBandwidth(p) \/ CheckFails(p)
  <2>1. pc[p] \notin Between /\ UNCHANGED <<row, quota, adrift>>
    BY <1>6 DEF ResolveLimits, LimitsFail, LoadContracts, CheckStorage, CheckBandwidth,
       CheckFails, Between
  <2>2. ASSUME NEW step \in {"contracts", "apps", "bandwidth"},
               Goto(p, step), UNCHANGED <<job, holder>>
        PROVE  Held' /\ Follows'
    <3>1. step \notin {"reread", "readQuota", "putQuota"} \cup Between
      BY DEF Between
    <3>2. QED
      BY <1>2, <1>3, <2>1, <2>2, <3>1
  <2>3. \/ \E t : Decided(p, t)
        \/ \E step \in {"contracts", "apps", "bandwidth"} : Goto(p, step) /\ UNCHANGED <<job, holder>>
    BY <1>6 DEF ResolveLimits, LimitsFail, LoadContracts, CheckStorage, CheckBandwidth,
       CheckFails
  <2>4. QED
    BY <1>4, <2>1, <2>2, <2>3
<1>7. CASE Lock(p)
  <2>1. /\ Goto(p, "reread") /\ holder = None /\ holder' = p /\ pc[p] \notin Between
        /\ UNCHANGED <<row, quota, adrift, job>> /\ "reread" \notin Between
    BY <1>7 DEF Lock, Between
  <2>2. Held'
    BY <1>1, <2>1, HeldAfter
  <2>3. Follows'
    BY <1>1, <1>2, <2>1, Aside
  <2>4. QED
    BY <2>2, <2>3
<1>8. CASE Reread(p) \/ ReadQuota(p)
  <2>1. holder = p /\ pc[p] \notin Between /\ UNCHANGED <<row, quota, adrift>>
    BY <1>1, <1>8 DEF Reread, ReadQuota, Held, Between
  <2>2. CASE Return(p)
    BY <1>3, <1>i, <2>1, <2>2, ReturnGoes
  <2>3. ASSUME NEW step \in {"readQuota", "putQuota"}, NEW j,
               Goto(p, step), job' = [job EXCEPT ![p] = j], UNCHANGED holder
        PROVE  Held' /\ Follows'
    <3>1. step \notin Between
      BY DEF Between
    <3>2. Held'
      BY <1>1, <2>1, <2>3, HeldAfter
    <3>3. Follows'
      BY <1>1, <2>1, <2>3, <3>1, Aside
    <3>4. QED
      BY <3>2, <3>3
  <2>4. QED
    BY <1>8, <2>2, <2>3 DEF Reread, ReadQuota
<1>9. CASE PutQuota(p)
  <2>1. /\ Goto(p, "save") /\ quota' = job[p].want /\ UNCHANGED <<job, holder>>
        /\ holder = p /\ "save" \in Between /\ p \notin MidwayRuns
        /\ adrift' = (MidwayRuns \ Enforcers # {})
    BY <1>1, <1>9 DEF PutQuota, Held, Between, MidwayRuns
  <2>2. Held'
    BY <1>1, <2>1, HeldAfter
  <2>3. ASSUME NEW x \in MidwayRuns PROVE x \notin Enforcers
    <3>1. x \in Enforcers => holder = x
      BY <1>1 DEF MidwayRuns, Between, Held
    <3>2. QED
      BY <2>1, <3>1
  <2>4. MidwayRuns # {} => adrift'
    BY <2>1, <2>3
  <2>5. Follows'
    BY <1>1, <2>1, <2>4, Put
  <2>6. QED
    BY <2>2, <2>5
<1>10. CASE SaveTarget(p)
  <2>1. /\ Goto(p, "idle") /\ (holder' = holder \/ holder = p) /\ pc[p] \in Between
        /\ UNCHANGED <<quota, adrift>> /\ row' = [job[p].copy EXCEPT !.target = job[p].want]
    BY <1>10, ReturnGoes DEF SaveTarget, Between
  <2>2. row'.target = job[p].want
    BY <1>2, <2>1 DEF Job, Row
  <2>3. Held'
    BY <1>1, <1>i, <2>1, HeldAfter
  <2>4. Follows'
    BY <1>1, <1>i, <2>1, <2>2, Saved
  <2>5. QED
    BY <2>3, <2>4
<1>11. CASE EnforceFails(p)
  <2>1. /\ Goto(p, "idle") /\ job' = [job EXCEPT ![p] = NoJob]
        /\ (holder' = holder \/ holder = p)
        /\ UNCHANGED <<row, quota>> /\ adrift' = (adrift \/ p \in MidwayRuns)
    BY <1>11, ReturnGoes DEF EnforceFails
  <2>2. Held'
    BY <1>1, <1>i, <2>1, HeldAfter
  <2>3. Follows'
    BY <1>1, <1>i, <2>1, Failed
  <2>4. QED
    BY <2>2, <2>3
<1>12. QED
  BY <1>5, <1>6, <1>7, <1>8, <1>9, <1>10, <1>11 DEF EnforceStep

LEMMA TabDrift ==
  ASSUME DriftInv, NEW p \in Provisioners,
         \/ UserStep(p) \/ ProvisionStep(p)
         \/ ViewUnchecked(p) \/ ResolveFails(p) \/ ProvisionFails(p)
  PROVE  Held' /\ Follows'
<1>1. p \in Procs /\ p \notin Enforcers /\ Inv /\ Held /\ Follows
  BY SiaAccountAssumption DEF Procs, DriftInv
<1>2. /\ pc \in [Procs -> Steps] /\ job \in [Procs -> Job] /\ job[p] \in Job
      /\ job = [job EXCEPT ![p] = job[p]]
      /\ LocalOK(job[p], pc[p], row, quota, issued)
  BY <1>1 DEF Inv, TypeOK, LocalsOK
<1>3. Held'
  <2>1. PICK step : Goto(p, step) /\ (holder' = holder \/ holder = p)
    BY DEF UserStep, ProvisionStep, ViewPage, LeavePage, Approve, RegisterAccount, LoadAccount,
       ResolveTarget, PutProvision, AddKey, SaveProvision, ViewUnchecked, ResolveFails,
       ProvisionFails, Goto, Return
  <2>2. QED
    BY <1>1, <2>1, HeldAfter
<1>4. CASE \/ UserStep(p) \/ RegisterAccount(p) \/ LoadAccount(p) \/ ResolveTarget(p)
           \/ ViewUnchecked(p) \/ ResolveFails(p)
  <2>1. pc[p] \notin Between /\ UNCHANGED <<quota, adrift>>
    BY <1>4 DEF UserStep, ViewPage, LeavePage, Approve, RegisterAccount, LoadAccount,
       ResolveTarget, ViewUnchecked, ResolveFails, Between
  <2>2. UNCHANGED row \/ ~row'.quotaKey
    <3>1. [NoRow EXCEPT !.exists = TRUE].quotaKey = FALSE
      BY DEF NoRow
    <3>2. QED
      BY <1>4, <3>1 DEF UserStep, ViewPage, LeavePage, Approve, RegisterAccount, LoadAccount,
         ResolveTarget, ViewUnchecked, ResolveFails
  <2>3. PICK step, j : /\ Goto(p, step) /\ job' = [job EXCEPT ![p] = j]
                       /\ step \in {"idle", "shown", "register", "load", "resolve", "putProvision"}
    <3>1. UNCHANGED job => job' = [job EXCEPT ![p] = job[p]]
      BY <1>2
    <3>2. QED
      BY <1>4, <3>1 DEF UserStep, ViewPage, LeavePage, Approve, RegisterAccount, LoadAccount,
         ResolveTarget, ViewUnchecked, ResolveFails, Return, Goto
  <2>4. step \notin Between
    BY <2>3 DEF Between
  <2>5. QED
    BY <1>1, <1>3, <2>1, <2>2, <2>3, <2>4, Aside
<1>5. CASE PutProvision(p)
  <2>1. /\ Goto(p, "addKey") /\ quota' = job[p].want /\ UNCHANGED job
        /\ adrift' = (MidwayRuns # {}) /\ "addKey" \in Between
    BY <1>5 DEF PutProvision, Between
  <2>2. QED
    BY <1>1, <1>3, <2>1, Put
<1>6. CASE AddKey(p)
  <2>1. /\ Goto(p, "saveProvision") /\ UNCHANGED <<row, quota, adrift>>
        /\ job' = [job EXCEPT ![p] = [job[p] EXCEPT !.key = issued + 1]]
        /\ pc[p] \in Between /\ "saveProvision" \in Between
    BY <1>6 DEF AddKey, Between
  <2>2. MidwayRuns' = MidwayRuns /\ p \in MidwayRuns
    BY <1>1, <2>1, MidwayAfter
  <2>3. job'[p].want = job[p].want
    BY <1>1, <1>2, <2>1 DEF Job
  <2>4. ~adrift => MidwayRuns = {p} /\ quota = job[p].want
    BY <1>1, <2>2 DEF Follows
  <2>5. Follows'
    BY <1>1, <2>1, <2>2, <2>3, <2>4 DEF Follows
  <2>6. QED
    BY <1>3, <2>5
<1>7. CASE SaveProvision(p)
  <2>1. /\ Goto(p, "idle") /\ pc[p] \in Between /\ "idle" \notin Between
        /\ UNCHANGED <<quota, adrift>>
        /\ row' = [job[p].copy EXCEPT !.quotaKey = TRUE, !.connectKey = job[p].key,
                                      !.target = job[p].want]
    BY <1>7, ReturnGoes DEF SaveProvision, Between
  <2>2. row'.target = job[p].want
    BY <1>2, <2>1 DEF Job, Row
  <2>3. QED
    BY <1>1, <1>3, <2>1, <2>2, Saved
<1>8. CASE ProvisionFails(p)
  <2>1. /\ Goto(p, "shown") /\ job' = [job EXCEPT ![p] = NoJob] /\ "shown" \notin Between
        /\ UNCHANGED <<row, quota>> /\ adrift' = (adrift \/ p \in MidwayRuns)
    BY <1>8 DEF ProvisionFails, Between
  <2>2. QED
    BY <1>1, <1>3, <2>1, Failed
<1>9. QED
  BY <1>4, <1>5, <1>6, <1>7, <1>8 DEF ProvisionStep

LEMMA SyncDrift ==
  ASSUME DriftInv, NEW p \in Syncs, SyncStep(p) \/ EventFails(p) \/ PersistFails(p)
  PROVE  Held' /\ Follows'
<1>1. p \in Procs /\ p \notin Enforcers /\ Inv /\ Held /\ Follows
  BY SiaAccountAssumption DEF Procs, DriftInv
<1>2. /\ pc \in [Procs -> Steps] /\ job \in [Procs -> Job] /\ job[p] \in Job
      /\ LocalOK(job[p], pc[p], row, quota, issued) /\ adrift \in BOOLEAN
  BY <1>1 DEF Inv, TypeOK, LocalsOK
<1>3. PICK step, j : /\ Goto(p, step) /\ job' = [job EXCEPT ![p] = j]
                     /\ holder' = holder \/ holder = p
                     /\ step \in {"lookup", "persist", "saveEvent", "record", "idle"}
  <2>1. UNCHANGED job => job' = [job EXCEPT ![p] = job[p]]
    BY <1>2
  <2>2. QED
    BY <2>1 DEF SyncStep, FetchEvent, Lookup, SaveEvent, Record, PersistCursor, EventFails,
       PersistFails, Goto, Return
<1>4. Held'
  BY <1>1, <1>3, HeldAfter
<1>5. step \notin Between /\ pc[p] \notin Between
  BY <1>3 DEF SyncStep, FetchEvent, Lookup, SaveEvent, Record, PersistCursor, EventFails,
     PersistFails, Between
<1>6. CASE ~SaveEvent(p)
  <2>1. UNCHANGED <<row, quota, adrift>>
    BY <1>6 DEF SyncStep, FetchEvent, Lookup, Record, PersistCursor, EventFails, PersistFails
  <2>2. QED
    BY <1>1, <1>3, <1>4, <1>5, <2>1, Aside
<1>7. CASE SaveEvent(p)
  <2>1. /\ row' = [job[p].copy EXCEPT !.lastEvent = job[p].event]
        /\ UNCHANGED <<quota, job>> /\ pc[p] = "saveEvent"
        /\ adrift' = (adrift \/ (MidwayRuns = {} /\ job[p].copy.target # row.target))
    BY <1>7 DEF SaveEvent
  <2>2. row.quotaKey /\ row'.target = job[p].copy.target
    BY <1>2, <2>1 DEF LocalOK, Holding, Job, Row
  <2>3. MidwayRuns' = MidwayRuns
    BY <1>1, <1>3, <1>5, MidwayAfter
  <2>4. CASE adrift'
    BY <1>4, <2>4 DEF Follows
  <2>5. CASE ~adrift'
    <3>1. ~adrift /\ (MidwayRuns = {} => job[p].copy.target = row.target)
      BY <2>1, <2>5
    <3>2. CASE MidwayRuns = {}
      <4>1. row.target = quota
        BY <1>1, <2>2, <3>1, <3>2 DEF Follows
      <4>2. MidwayRuns' = {} /\ row'.target = quota'
        BY <2>1, <2>2, <2>3, <3>1, <3>2, <4>1
      <4>3. QED
        BY <1>4, <4>2 DEF Follows
    <3>3. CASE MidwayRuns # {}
      BY <1>1, <1>4, <2>1, <2>3, <3>1, <3>3 DEF Follows
    <3>4. QED
      BY <3>2, <3>3
  <2>6. QED
    BY <2>4, <2>5
<1>8. QED
  BY <1>6, <1>7

LEMMA DriftInductive == DriftInv /\ [Next]_vars => DriftInv'
<1> SUFFICES ASSUME DriftInv, [Next]_vars PROVE DriftInv'
  OBVIOUS
<1>1. Inv'
  BY Inductive DEF DriftInv
<1>2. CASE Change \/ UNCHANGED vars
  <2>1. UNCHANGED <<row, quota, adrift, holder, pc, job>>
    BY <1>2 DEF Change, vars
  <2>2. MidwayRuns' = MidwayRuns
    BY <2>1 DEF MidwayRuns
  <2>3. Held' /\ Follows'
    BY <2>1, <2>2 DEF DriftInv, Held, Follows
  <2>4. QED
    BY <1>1, <2>3 DEF DriftInv
<1>3. CASE Restart
  <2>1. /\ UNCHANGED <<row, quota>> /\ adrift' = (adrift \/ MidwayRuns # {})
        /\ pc' = [x \in Procs |-> "idle"]
    BY <1>3 DEF Restart
  <2>2. MidwayRuns' = {}
    BY <2>1 DEF MidwayRuns
  <2>3. Held'
    BY <2>1 DEF Held, Between, Procs
  <2>4. Follows'
    BY <2>1, <2>2 DEF DriftInv, Follows
  <2>5. QED
    BY <1>1, <2>3, <2>4 DEF DriftInv
<1>4. QED
  BY <1>1, <1>2, <1>3, EnforcerDrift, TabDrift, SyncDrift DEF Next, DriftInv

(* "Skip update if unchanged" trusts the row.  Whatever overlaps: whenever *)
(* no run is between its PutQuota and its Save, a row whose target is not  *)
(* indexd's was set adrift since the last PutQuota that overlapped with    *)
(* none, by a PutQuota that did overlap with a provisioning, by a run that *)
(* failed or died between the two calls, or by a sync that saved an older  *)
(* target; updates alone never do it.                                      *)
THEOREM DriftIsAccounted == Spec => []DriftAccounted
<1>1. Init => DriftInv
  <2> SUFFICES ASSUME Init PROVE DriftInv
    OBVIOUS
  <2>1. ~row.quotaKey /\ \A p \in Procs : pc[p] = "idle"
    BY DEF Init, NoRow
  <2>2. Held /\ MidwayRuns = {}
    BY <2>1 DEF Held, MidwayRuns, Between, Procs
  <2>3. QED
    BY <2>1, <2>2, Initially DEF DriftInv, Follows
<1>2. DriftInv /\ [Next]_vars => DriftInv'
  BY DriftInductive
<1>3. DriftInv => DriftAccounted
  BY DEF DriftInv, Follows, DriftAccounted
<1>4. QED
  BY <1>1, <1>2, <1>3, PTL DEF Spec
=============================================================================
