--------------------------- MODULE StatsCacheProofs ---------------------------
(***************************************************************************)
(* For any number of callers, any TTL and any bounds: the statistics are   *)
(* refreshed by one caller at a time and only when expired, who waits is    *)
(* led, and the service implements PublicStats.                            *)
(***************************************************************************)
EXTENDS StatsCache, TLAPS

(* The leader of the group, and nobody else, is past its door.             *)
LeaderLeads ==
  /\ \A c \in Callers : pc[c] \in Leading => leader = c
  /\ leader # None => pc[leader] \in Leading

(* A call in progress remembers what had been given when it was made.      *)
CallsAsked == \A c \in Callers : asked[c] = None <=> pc[c] = "idle"

(* Who queries found the value expired, and it stays so.                   *)
QueryingExpired == \A c \in Callers : pc[c] \in {"uploads", "slabs", "store"} => ~Valid

AtMost(s, t) == s.uploads <= t.uploads /\ s.slabs <= t.slabs

(* The cache lies between what anybody was given and the tables.           *)
CacheBetween ==
  /\ AtMost(cache.stats, [uploads |-> uploads, slabs |-> slabs])
  /\ AtMost(given, cache.stats)
  /\ \A c \in Callers : asked[c] # None => AtMost(asked[c], cache.stats)

(* What a caller has in hand, at each step that reads it.                  *)
HeldOf(c) ==
  /\ pc[c] = "slabs" => found[c] # Failed /\ found[c].uploads \in cache.stats.uploads .. uploads
  /\ pc[c] = "store" => /\ found[c] # Failed
                        /\ AtMost(cache.stats, found[c])
                        /\ AtMost(found[c], [uploads |-> uploads, slabs |-> slabs])
  /\ pc[c] = "finish" => found[c] = Failed \/ found[c] = cache.stats
  /\ pc[c] = "return" => \/ found[c] = Failed
                         \/ AtMost(asked[c], found[c]) /\ AtMost(found[c], cache.stats)

Held == \A c \in Callers : HeldOf(c)

IInv ==
  /\ TypeOK /\ LeaderLeads /\ WaitersAreLed /\ CallsAsked /\ QueryingExpired
  /\ CacheBetween /\ Held

-----------------------------------------------------------------------------
LEMMA InitInv == Init => IInv
<1> SUFFICES ASSUME Init PROVE IInv
  OBVIOUS
<1>1. TypeOK
  BY StatsCacheAssumption DEF Init, TypeOK, Versions, Stats, NoStats, Steps
<1>2. LeaderLeads /\ WaitersAreLed /\ CallsAsked /\ QueryingExpired /\ Held
  BY StatsCacheAssumption
     DEF Init, LeaderLeads, WaitersAreLed, CallsAsked, QueryingExpired, Held, HeldOf, Leading
<1>3. CacheBetween
  BY DEF Init, CacheBetween, AtMost, NoStats
<1>4. QED
  BY <1>1, <1>2, <1>3 DEF IInv

(* The newest of two sets of numbers is one, and no older than either.     *)
LEMMA NewestTyped ==
  ASSUME NEW s \in Stats, NEW t \in Stats
  PROVE  /\ Public!Newest(s, t) \in Stats
         /\ AtMost(s, Public!Newest(s, t)) /\ AtMost(t, Public!Newest(s, t))
         /\ \A m \in Stats : AtMost(s, m) /\ AtMost(t, m) => AtMost(Public!Newest(s, t), m)
BY StatsCacheAssumption DEF Public!Newest, Public!Newer, Stats, Versions, AtMost

(* Each caller's step keeps the types.                                     *)
LEMMA CallTyped ==
  ASSUME IInv, NEW c \in Callers, Call(c) PROVE TypeOK'
<1> USE StatsCacheAssumption DEF IInv, TypeOK, Goto, db, history
<1> cache.stats \in Stats /\ NoStats \in Stats
  BY DEF NoStats, Stats, Versions
<1>1. CASE Load(c) \/ Recheck(c)
  BY <1>1 DEF Load, Recheck, TakeCached, Steps
<1>2. CASE Enter(c)
  BY <1>2 DEF Enter, Steps
<1>3. CASE QueryUploads(c)
  <2>1. [uploads |-> uploads, slabs |-> 0] \in Stats
    BY DEF Stats, Versions
  <2>2. QED
    BY <1>3, <2>1 DEF QueryUploads, Steps
<1>4. CASE QuerySlabs(c)
  <2>1. found[c] \in Stats
    BY <1>4 DEF QuerySlabs, Held, HeldOf
  <2>2. [uploads |-> found[c].uploads, slabs |-> slabs] \in Stats
    BY <2>1 DEF Stats
  <2>3. QED
    BY <1>4, <2>2 DEF QuerySlabs, Steps
<1>5. CASE QueryFails(c)
  BY <1>5 DEF QueryFails, Steps
<1>6. CASE Store(c)
  <2>1. found[c] \in Stats
    BY <1>6 DEF Store, Held, HeldOf
  <2>2. now + TTL \in 0 .. MaxTime + TTL
    OBVIOUS
  <2>3. QED
    BY <1>6, <2>1, <2>2 DEF Store, Steps
<1>7. CASE Finish(c)
  BY <1>7 DEF Finish, Steps
<1>8. CASE Return(c)
  <2>1. found[c] # Failed => found[c] \in Stats /\ Public!Newest(given, found[c]) \in Stats
    BY NewestTyped
  <2>2. given' \in Stats /\ last' \in Stats
    BY <1>8, <2>1 DEF Return
  <2>3. QED
    BY <1>8, <2>2 DEF Return, Steps
<1>9. QED
  BY <1>1, <1>2, <1>3, <1>4, <1>5, <1>6, <1>7, <1>8 DEF Call, Progress

(* One leader at a time, who found the cache expired and whom others wait  *)
(* for.                                                                    *)
LEMMA CallLeads ==
  ASSUME IInv, NEW c \in Callers, Call(c)
  PROVE  LeaderLeads' /\ WaitersAreLed' /\ QueryingExpired'
<1> USE DEF IInv, TypeOK, LeaderLeads, WaitersAreLed, QueryingExpired, Leading, Goto, Valid
<1>1. CASE Load(c) \/ Recheck(c)
  BY <1>1 DEF Load, Recheck, TakeCached
<1>2. CASE Enter(c)
  BY <1>2, StatsCacheAssumption DEF Enter
<1>3. CASE QueryUploads(c) \/ QuerySlabs(c) \/ QueryFails(c)
  BY <1>3 DEF QueryUploads, QuerySlabs, QueryFails
<1>4. CASE Store(c)
  BY <1>4 DEF Store
<1>5. CASE Finish(c)
  BY <1>5 DEF Finish
<1>6. CASE Return(c)
  BY <1>6 DEF Return
<1>7. QED
  BY <1>1, <1>2, <1>3, <1>4, <1>5, <1>6 DEF Call, Progress

LEMMA CallRemembers ==
  ASSUME IInv, NEW c \in Callers, Call(c) PROVE CallsAsked'
<1> USE DEF IInv, CallsAsked, Goto, history
<1>t. /\ pc \in [Callers -> Steps] /\ asked \in [Callers -> Stats \cup {None}]
      /\ given \in Stats /\ None \notin Stats
  BY OutcomeAssumption DEF TypeOK
<1>1. CASE Load(c)
  BY <1>1, <1>t DEF Load, TakeCached
<1>2. CASE Recheck(c) \/ Enter(c) \/ QueryUploads(c) \/ QuerySlabs(c) \/ QueryFails(c) \/ Store(c)
  BY <1>2, <1>t DEF Recheck, TakeCached, Enter, QueryUploads, QuerySlabs, QueryFails, Store
<1>3. CASE Finish(c)
  BY <1>3, <1>t DEF Finish
<1>4. CASE Return(c)
  BY <1>4, <1>t DEF Return
<1>5. QED
  BY <1>1, <1>2, <1>3, <1>4 DEF Call, Progress

(* Caller c stores at least what the cache had, and nobody else is between *)
(* a query and the end of the call; all other steps leave the cache.       *)
LEMMA CallKeeps ==
  ASSUME IInv, NEW c \in Callers, Call(c) PROVE CacheBetween' /\ Held'
<1> USE DEF AtMost, Goto
<1>t. /\ uploads \in Nat /\ slabs \in Nat
      /\ cache.stats \in Stats
      /\ pc \in [Callers -> Steps]
      /\ found \in [Callers -> Stats \cup {Failed}]
      /\ asked \in [Callers -> Stats \cup {None}]
      /\ given \in Stats
  BY StatsCacheAssumption DEF IInv, TypeOK, Versions
<1>s. \A s \in Stats : s.uploads \in Nat /\ s.slabs \in Nat
  BY StatsCacheAssumption DEF Stats, Versions
<1>h. \A d \in Callers : HeldOf(d)
  BY DEF IInv, Held
<1>b. CacheBetween
  BY DEF IInv
<1>f. Failed \notin Stats /\ None \notin Stats
  BY OutcomeAssumption
<1>o. ASSUME UNCHANGED <<db, cache, history>>,
             \A d \in Callers \ {c} : pc'[d] = pc[d] /\ found'[d] = found[d],
             HeldOf(c)'
      PROVE  CacheBetween' /\ Held'
  <2>1. CacheBetween'
    BY <1>o, <1>b DEF CacheBetween, db, history
  <2>2. ASSUME NEW d \in Callers \ {c} PROVE HeldOf(d)'
    BY <1>o, <1>h DEF HeldOf, db, history
  <2>3. QED
    BY <1>o, <2>1, <2>2 DEF Held
<1>1. CASE Recheck(c)
  <2>1. HeldOf(c)'
    BY <1>1, <1>t DEF Recheck, TakeCached, HeldOf
  <2>2. QED
    BY <1>1, <1>o, <1>t, <2>1 DEF Recheck, TakeCached
<1>l. CASE Load(c)
  <2>1. /\ UNCHANGED <<db, cache, given>> /\ asked' = [asked EXCEPT ![c] = given]
        /\ \A d \in Callers \ {c} : pc'[d] = pc[d] /\ found'[d] = found[d]
    BY <1>l, <1>t DEF Load, TakeCached
  <2>2. CacheBetween'
    BY <1>t, <1>b, <2>1 DEF CacheBetween, db
  <2>3. pc'[c] = "enter" \/ (pc'[c] = "return" /\ found'[c] = cache.stats)
    BY <1>l, <1>t DEF Load, TakeCached
  <2>4. HeldOf(c)'
    BY <1>t, <1>s, <1>b, <2>1, <2>3 DEF HeldOf, CacheBetween
  <2>5. ASSUME NEW d \in Callers \ {c} PROVE HeldOf(d)'
    BY <1>t, <1>h, <2>1 DEF HeldOf, db
  <2>6. QED
    BY <2>2, <2>4, <2>5 DEF Held
<1>2. CASE Enter(c)
  <2>1. HeldOf(c)'
    BY <1>2, <1>t DEF Enter, HeldOf
  <2>2. QED
    BY <1>2, <1>o, <1>t, <2>1 DEF Enter
<1>3. CASE QueryUploads(c)
  <2>1. found'[c] = [uploads |-> uploads, slabs |-> 0] /\ pc'[c] = "slabs"
    BY <1>3, <1>t DEF QueryUploads
  <2>2. found'[c] # Failed
    BY <1>3, <1>f, <2>1, StatsCacheAssumption DEF IInv, TypeOK, Stats, Versions
  <2>3. HeldOf(c)'
    BY <1>3, <1>t, <1>s, <1>b, <2>1, <2>2 DEF QueryUploads, HeldOf, CacheBetween, db
  <2>4. QED
    BY <1>3, <1>o, <1>t, <2>3 DEF QueryUploads
<1>4. CASE QuerySlabs(c)
  <2>1. found[c] \in Stats /\ found[c].uploads \in cache.stats.uploads .. uploads
    BY <1>4, <1>t, <1>h DEF QuerySlabs, HeldOf
  <2>2. found'[c] = [uploads |-> found[c].uploads, slabs |-> slabs] /\ pc'[c] = "store"
    BY <1>4, <1>t, <2>1 DEF QuerySlabs, Stats
  <2>3. found'[c] # Failed
    BY <1>4, <1>f, <2>1, <2>2 DEF IInv, TypeOK, Stats
  <2>4. HeldOf(c)'
    BY <1>4, <1>t, <1>s, <1>b, <2>1, <2>2, <2>3 DEF QuerySlabs, HeldOf, CacheBetween, db
  <2>5. QED
    BY <1>4, <1>o, <1>t, <2>4 DEF QuerySlabs
<1>5. CASE QueryFails(c)
  <2>1. HeldOf(c)'
    BY <1>5, <1>t DEF QueryFails, HeldOf
  <2>2. QED
    BY <1>5, <1>o, <1>t, <2>1 DEF QueryFails
<1>6. CASE Store(c)
  <2>1. /\ found[c] \in Stats
        /\ AtMost(cache.stats, found[c])
        /\ AtMost(found[c], [uploads |-> uploads, slabs |-> slabs])
    BY <1>6, <1>t, <1>h DEF Store, HeldOf
  <2>2. cache'.stats = found[c] /\ UNCHANGED <<db, found, history>>
    BY <1>6 DEF Store
  <2>3. CacheBetween'
    BY <1>t, <1>s, <1>b, <2>1, <2>2 DEF CacheBetween, db, history
  <2>4. HeldOf(c)'
    BY <1>6, <1>t, <2>2 DEF Store, HeldOf
  <2>5. ASSUME NEW d \in Callers \ {c} PROVE HeldOf(d)'
    <3>0. pc[d] = "return" => asked[d] \in Stats
      BY <1>t DEF IInv, CallsAsked
    <3>1. pc[d] \notin Leading /\ pc'[d] = pc[d]
      BY <1>6, <1>t DEF Store, IInv, LeaderLeads, Leading
    <3>2. pc[d] = "return" /\ found[d] # Failed =>
            AtMost(asked[d], found[d]) /\ AtMost(found[d], cache.stats) /\ found[d] \in Stats
      BY <1>t, <1>h DEF HeldOf
    <3>3. QED
      BY <1>t, <1>s, <2>1, <2>2, <3>0, <3>1, <3>2 DEF HeldOf, Leading, history
  <2>6. QED
    BY <2>3, <2>4, <2>5 DEF Held
<1>7. CASE Finish(c)
  <2>1. UNCHANGED <<db, cache, history>> /\ pc[c] = "finish"
    BY <1>7 DEF Finish
  <2>2. CacheBetween'
    BY <1>b, <2>1 DEF CacheBetween, db, history
  <2>3. found[c] = Failed \/ found[c] = cache.stats
    BY <1>h, <2>1 DEF HeldOf
  <2>4. ASSUME NEW d \in Callers PROVE HeldOf(d)'
    <3>1. CASE d = c \/ pc[d] = "wait"
      <4>1. pc'[d] = "return" /\ found'[d] = found[c]
        BY <1>7, <3>1 DEF Finish
      <4>2. asked[d] # None
        BY <2>1, <3>1 DEF IInv, CallsAsked
      <4>3. QED
        BY <1>t, <1>s, <1>b, <2>1, <2>3, <4>1, <4>2 DEF HeldOf, CacheBetween, history
    <3>2. CASE d # c /\ pc[d] # "wait"
      <4>1. pc'[d] = pc[d] /\ found'[d] = found[d]
        BY <1>7, <3>2 DEF Finish
      <4>2. QED
        BY <1>h, <2>1, <4>1 DEF HeldOf, db, history
    <3>3. QED
      BY <3>1, <3>2
  <2>5. QED
    BY <2>2, <2>4 DEF Held
<1>8. CASE Return(c)
  <2>1. UNCHANGED <<db, cache>> /\ pc[c] = "return" /\ pc'[c] = "idle"
    BY <1>8, <1>t DEF Return
  <2>2. \A d \in Callers \ {c} :
          pc'[d] = pc[d] /\ found'[d] = found[d] /\ asked'[d] = asked[d]
    BY <1>8, <1>t DEF Return
  <2>3. AtMost(given', cache.stats)
    <3>1. CASE found[c] = Failed
      BY <1>8, <1>b, <3>1 DEF Return, CacheBetween
    <3>2. CASE found[c] # Failed
      <4>1. found[c] \in Stats /\ AtMost(found[c], cache.stats) /\ AtMost(given, cache.stats)
        BY <1>t, <1>h, <1>b, <2>1, <3>2 DEF HeldOf, CacheBetween
      <4>2. QED
        BY <1>8, <1>t, <3>2, <4>1, NewestTyped DEF Return
    <3>3. QED
      BY <3>1, <3>2
  <2>4. CacheBetween'
    <3>1. asked'[c] = None
      BY <1>8, <1>t DEF Return
    <3>2. QED
      BY <1>b, <2>1, <2>2, <2>3, <3>1 DEF CacheBetween, db
  <2>5. ASSUME NEW d \in Callers PROVE HeldOf(d)'
    BY <1>h, <2>1, <2>2 DEF HeldOf, db
  <2>6. QED
    BY <2>4, <2>5 DEF Held
<1>9. QED
  BY <1>1, <1>l, <1>2, <1>3, <1>4, <1>5, <1>6, <1>7, <1>8 DEF Call, Progress

-----------------------------------------------------------------------------
LEMMA NextInv == IInv /\ [Next]_vars => IInv'
<1> SUFFICES ASSUME IInv, [Next]_vars PROVE IInv'
  OBVIOUS
<1>1. CASE Tick
  <2>1. TypeOK' /\ now' > now
    BY <1>1, StatsCacheAssumption DEF Tick, IInv, TypeOK, db, history
  <2>2. QueryingExpired'
    BY <1>1, <2>1, StatsCacheAssumption DEF Tick, IInv, TypeOK, QueryingExpired, Valid
  <2>3. LeaderLeads' /\ WaitersAreLed' /\ CallsAsked' /\ CacheBetween' /\ Held'
    BY <1>1 DEF Tick, IInv, LeaderLeads, WaitersAreLed, CallsAsked, CacheBetween, AtMost, Held,
                HeldOf, db, history
  <2>4. QED
    BY <2>1, <2>2, <2>3 DEF IInv
<1>2. CASE Change
  <2>1. TypeOK' /\ uploads' \in Nat /\ slabs' \in Nat /\ uploads' >= uploads /\ slabs' >= slabs
    BY <1>2, StatsCacheAssumption DEF Change, IInv, TypeOK, Versions, history
  <2>2. LeaderLeads' /\ WaitersAreLed' /\ CallsAsked' /\ QueryingExpired'
    BY <1>2 DEF Change, IInv, LeaderLeads, WaitersAreLed, CallsAsked, QueryingExpired, Valid,
                history
  <2>t. /\ uploads \in Nat /\ slabs \in Nat /\ cache.stats \in Stats
        /\ found \in [Callers -> Stats \cup {Failed}]
        /\ asked \in [Callers -> Stats \cup {None}] /\ given \in Stats
    BY StatsCacheAssumption DEF IInv, TypeOK, Versions
  <2>s. \A s \in Stats : s.uploads \in Nat /\ s.slabs \in Nat
    BY StatsCacheAssumption DEF Stats, Versions
  <2>3. CacheBetween'
    BY <1>2, <2>1, <2>t, <2>s DEF Change, IInv, CacheBetween, AtMost, history
  <2>4. ASSUME NEW c \in Callers PROVE HeldOf(c)'
    <3>1. HeldOf(c) /\ UNCHANGED <<cache, pc, found, asked>>
      BY <1>2 DEF Change, IInv, Held, history
    <3>2. QED
      BY <2>1, <2>t, <2>s, <3>1 DEF HeldOf, AtMost
  <2>5. QED
    BY <2>1, <2>2, <2>3, <2>4 DEF IInv, Held
<1>3. CASE \E c \in Callers : Call(c)
  BY <1>3, CallTyped, CallLeads, CallRemembers, CallKeeps DEF IInv
<1>4. CASE UNCHANGED vars
  BY <1>4 DEF vars, db, history, IInv, TypeOK, LeaderLeads, WaitersAreLed, CallsAsked,
              QueryingExpired, Valid, CacheBetween, AtMost, Held, HeldOf
<1>5. QED
  BY <1>1, <1>2, <1>3, <1>4 DEF Next

LEMMA Invariance == Spec => []IInv
BY InitInv, NextInv, PTL DEF Spec

(* The types of the cache, the group and the callers.                      *)
THEOREM TypeCorrect == Spec => []TypeOK
<1>1. IInv => TypeOK
  BY DEF IInv
<1>2. QED
  BY <1>1, Invariance, PTL

(* One refresh at a time, and only of an expired value.                    *)
THEOREM OneRefreshWhenExpired == Spec => []RefreshedWhenExpired
<1>1. IInv => RefreshedWhenExpired
  BY DEF IInv, LeaderLeads, QueryingExpired, RefreshedWhenExpired, Refreshing, Leading
<1>2. QED
  BY <1>1, Invariance, PTL

(* Nobody waits for a leader that has gone.                                *)
THEOREM NoWaiterIsForgotten == Spec => []WaitersAreLed
<1>1. IInv => WaitersAreLed
  BY DEF IInv
<1>2. QED
  BY <1>1, Invariance, PTL

-----------------------------------------------------------------------------
LEMMA ReturnGives ==
  ASSUME IInv, NEW c \in Callers, Return(c) PROVE Public!Give(c) \/ Public!Fail(c)
<1>1. /\ pc[c] = "return" /\ asked[c] # None
      /\ asked' = [asked EXCEPT ![c] = None]
      /\ UNCHANGED <<uploads, slabs>>
  BY DEF Return, IInv, CallsAsked, db
<1>2. CASE found[c] = Failed
  BY <1>1, <1>2 DEF Return, Public!Fail
<1>3. CASE found[c] # Failed
  <2>1. last' = found[c] /\ given' = Public!Newest(given, found[c])
    BY <1>3 DEF Return
  <2>2. found[c] \in Stats /\ asked[c] \in Stats /\ cache.stats \in Stats
    BY <1>1, <1>3 DEF IInv, TypeOK
  <2>3. AtMost(asked[c], found[c]) /\ AtMost(found[c], [uploads |-> uploads, slabs |-> slabs])
    <3>1. AtMost(asked[c], found[c]) /\ AtMost(found[c], cache.stats)
      BY <1>1, <1>3 DEF IInv, Held, HeldOf
    <3>2. AtMost(cache.stats, [uploads |-> uploads, slabs |-> slabs])
      BY DEF IInv, CacheBetween
    <3>3. uploads \in Nat /\ slabs \in Nat
      BY StatsCacheAssumption DEF IInv, TypeOK, Versions
    <3>4. QED
      BY <2>2, <3>1, <3>2, <3>3, StatsCacheAssumption DEF AtMost, Stats, Versions
  <2>4. \E u \in asked[c].uploads .. uploads, s \in asked[c].slabs .. slabs :
          last' = [uploads |-> u, slabs |-> s]
    <3>1. /\ found[c].uploads \in asked[c].uploads .. uploads
          /\ found[c].slabs \in asked[c].slabs .. slabs
          /\ found[c] = [uploads |-> found[c].uploads, slabs |-> found[c].slabs]
      BY <2>2, <2>3, StatsCacheAssumption DEF AtMost, Stats, Versions
    <3>2. QED
      BY <2>1, <3>1
  <2>5. QED
    BY <1>1, <2>1, <2>4 DEF Public!Give
<1>4. QED
  BY <1>2, <1>3

(* Every step is one of the public service, or none.                       *)
LEMMA StepIsPublic == IInv /\ [Next]_vars => [Public!Next]_(Public!vars)
<1> SUFFICES ASSUME IInv, [Next]_vars PROVE [Public!Next]_(Public!vars)
  OBVIOUS
<1>1. CASE Change
  <2>1. uploads \in Nat /\ slabs \in Nat
    BY StatsCacheAssumption DEF IInv, TypeOK, Versions
  <2>2. Public!Change
    BY <1>1, <2>1 DEF Change, Public!Change, history
  <2>3. QED
    BY <2>2 DEF Public!Next
<1>2. ASSUME NEW c \in Callers, Load(c) PROVE Public!Ask(c)
  BY <1>2 DEF Load, IInv, CallsAsked, Public!Ask, db
<1>3. ASSUME NEW c \in Callers, Progress(c), ~Return(c) PROVE UNCHANGED Public!vars
  BY <1>3 DEF Progress, Enter, Recheck, QueryUploads, QuerySlabs, QueryFails, Store, Finish,
              Public!vars, db, history
<1>4. CASE Tick \/ UNCHANGED vars
  BY <1>4 DEF Tick, vars, Public!vars, db, history
<1>5. QED
  BY <1>1, <1>2, <1>3, <1>4, ReturnGives DEF Next, Call, Public!Next

(* The statistics are those of a service that counts for every caller: no  *)
(* answer is older than one given to anybody before the call was made.     *)
THEOREM ImplementsPublic == Spec => ImplementsPublicStats
<1>1. Init => Public!Init
  BY DEF Init, NoStats, Public!Init
<1>2. QED
  BY <1>1, StepIsPublic, Invariance, PTL DEF Spec, ImplementsPublicStats, Public!Spec
=============================================================================
