--------------------------- MODULE FundingSyncProofs ---------------------------
(***************************************************************************)
(* Proofs about FundingSync, for every set of users and keys, any number   *)
(* of overlapping runs and of other writers, every page size, length of    *)
(* the feed and number of changes and faults.                              *)
(***************************************************************************)
EXTENDS FundingSync, TLAPS

InPage == {"lookup", "save", "record", "persist"}

(* The page in hand starts right after the worker's cursor and is at most  *)
(* PageSize events long.                                                   *)
PageOK ==
  \A w \in Workers : pc[w] \in InPage =>
    /\ pos[w] < next[w]
    /\ next[w] <= last[w]
    /\ last[w] <= pos[w] + PageSize

TypeInv == TypeOK /\ PageOK

(* FinishEvent as a fact about types and pages, shared by every action     *)
(* that ends the processing of an event.                                   *)
LEMMA FinishEventType ==
  ASSUME TypeInv, NEW w \in Workers, pc[w] \in InPage, FinishEvent(w)
  PROVE  /\ pc' \in [Workers -> Steps]
         /\ next' \in [Workers -> 0 .. Len(feed)]
         /\ pc' = [pc EXCEPT ![w] = pc'[w]]
         /\ pc'[w] \in {"lookup", "persist"}
         /\ \A v \in Workers \ {w} : pc'[v] = pc[v] /\ next'[v] = next[v]
         /\ pos[w] < next'[w] /\ next'[w] <= last[w]
         /\ pc'[w] = "lookup" => next'[w] = next[w] + 1
         /\ pc'[w] = "persist" => next'[w] = next[w] /\ next[w] = last[w]
<1>0. /\ Len(feed) \in Nat /\ pos[w] \in 0 .. Len(feed)
      /\ next[w] \in 0 .. Len(feed) /\ last[w] \in 0 .. Len(feed)
      /\ pos[w] < next[w] /\ next[w] <= last[w]
      /\ pc \in [Workers -> Steps] /\ next \in [Workers -> 0 .. Len(feed)]
  BY DEF TypeInv, TypeOK, PageOK
<1>1. CASE next[w] < last[w]
  <2>1. next' = [next EXCEPT ![w] = next[w] + 1] /\ pc' = [pc EXCEPT ![w] = "lookup"]
    BY <1>1 DEF FinishEvent, Goto
  <2>2. next[w] + 1 \in 0 .. Len(feed) /\ pos[w] < next[w] + 1 /\ next[w] + 1 <= last[w]
    BY <1>0, <1>1
  <2>3. QED
    BY <1>0, <2>1, <2>2 DEF Steps
<1>2. CASE ~(next[w] < last[w])
  <2>1. next' = next /\ pc' = [pc EXCEPT ![w] = "persist"]
    BY <1>2 DEF FinishEvent, Goto
  <2>2. next[w] = last[w]
    BY <1>0, <1>2
  <2>3. QED
    BY <1>0, <2>1, <2>2 DEF Steps
<1>3. QED
  BY <1>1, <1>2

(* The same for the end of a run.                                          *)
LEMMA EndRunType ==
  ASSUME TypeInv, NEW w \in Workers, EndRun(w)
  PROVE  /\ pc' \in [Workers -> Steps]
         /\ pos' \in [Workers -> 0 .. Len(feed)]
         /\ next' \in [Workers -> 0 .. Len(feed)]
         /\ last' \in [Workers -> 0 .. Len(feed)]
         /\ seen' \in [Workers -> 0 .. Len(feed)]
         /\ todo' \in [Workers -> SUBSET Meters]
         /\ pc'[w] = "idle" /\ pos'[w] = 0
         /\ \A v \in Workers \ {w} :
              /\ pc'[v] = pc[v] /\ pos'[v] = pos[v] /\ next'[v] = next[v]
              /\ last'[v] = last[v]
<1>1. Len(feed) \in Nat /\ 0 \in 0 .. Len(feed)
  BY DEF TypeInv, TypeOK
<1>2. QED
  BY <1>1 DEF EndRun, Goto, TypeInv, TypeOK, Steps

(* Every event of the feed has an owner.                                   *)
LEMMA OwnerType ==
  ASSUME TypeInv, NEW e \in 1 .. Len(feed)
  PROVE  Owner(e) \in Users /\ feed[e] \in Event /\ feed[e].bytes \subseteq Meters /\ e \in Ids
<1>1. feed[e] \in Event /\ e \in Ids
  BY FundingSyncAssumption DEF TypeInv, TypeOK, Ids
<1>2. feed[e].key \in Keys /\ feed[e].bytes \in Loads
  BY <1>1 DEF Event
<1>3. QED
  BY <1>1, <1>2, FundingSyncAssumption DEF Owner, Meters

LEMMA CountAgainType ==
  ASSUME TypeInv, NEW events, CountAgain(events)
  PROVE  again' \in [Ids -> Nat]
  BY DEF CountAgain, TypeInv, TypeOK

LEMMA TypeInvInit == Init => TypeInv
  BY FundingSyncAssumption
  DEF Init, TypeInv, TypeOK, PageOK, InPage, Steps, Meters, Ids, Row

LEMMA MeanwhileType == ASSUME TypeInv, Meanwhile PROVE TypeInv'
<1> USE FundingSyncAssumption DEF TypeInv
<1>0. Len(feed) \in Nat
  BY DEF TypeOK
<1>1. CASE Publish
  <2>1. PICK ev \in Event : feed' = Append(feed, ev)
    BY <1>1 DEF Publish
  <2>2. feed' \in Seq(Event) /\ Len(feed') = Len(feed) + 1
    BY <2>1 DEF TypeOK
  <2>3. \A v \in Writers : copy'[v] # None => copy'[v].mark <= Len(feed')
    <3>1. SUFFICES ASSUME NEW v \in Writers, copy[v] # None PROVE copy[v].mark <= Len(feed')
      BY <1>1 DEF Publish, others
    <3>2. copy[v] \in Row /\ copy[v].mark <= Len(feed)
      BY <3>1 DEF TypeOK
    <3>3. copy[v].mark \in Nat
      BY <3>2 DEF Row
    <3>4. QED
      BY <1>0, <2>2, <3>2, <3>3
  <2>4. TypeOK'
    BY <1>0, <1>1, <2>2, <2>3 DEF Publish, TypeOK, rows, others, local
  <2>5. PageOK'
    BY <1>1 DEF Publish, PageOK, local
  <2>6. QED
    BY <2>4, <2>5
<1>2. CASE Link
  <2>1. known' \subseteq Keys /\ changes' \in 0 .. MaxChanges
    BY <1>2 DEF Link, Change, TypeOK
  <2>2. QED
    BY <1>2, <2>1 DEF Link, TypeOK, PageOK, rows, local
<1>3. ASSUME NEW v \in Writers, ReadRow(v) PROVE TypeInv'
  <2>1. PICK u \in Users : copy' = [copy EXCEPT ![v] = [user |-> u, mark |-> lastEvent[u]]]
    BY <1>3 DEF ReadRow
  <2>2. lastEvent[u] \in 0 .. MaxEvents /\ lastEvent[u] <= Len(feed)
    BY <1>0 DEF TypeOK
  <2>3. [user |-> u, mark |-> lastEvent[u]] \in Row
    BY <2>2 DEF Row
  <2>4. /\ copy' \in [Writers -> Row \cup {None}]
        /\ \A x \in Writers : copy'[x] # None => copy'[x].mark <= Len(feed)
    BY <2>1, <2>2, <2>3 DEF TypeOK
  <2>5. changes' \in 0 .. MaxChanges
    BY <1>3 DEF ReadRow, Change, TypeOK
  <2>6. QED
    BY <1>3, <2>4, <2>5 DEF ReadRow, TypeOK, PageOK, rows, local
<1>4. ASSUME NEW v \in Writers, SaveRow(v) \/ DropRow(v) PROVE TypeInv'
  <2>1. /\ copy' \in [Writers -> Row \cup {None}]
        /\ \A x \in Writers : copy'[x] # None => copy'[x].mark <= Len(feed)
    BY <1>4 DEF SaveRow, DropRow, TypeOK
  <2>2. lastEvent' \in [Users -> 0 .. Len(feed)] /\ again' \in [Ids -> Nat]
    <3>1. CASE SaveRow(v)
      <4>1. copy[v] \in Row /\ copy[v].mark <= Len(feed)
        BY <3>1 DEF SaveRow, TypeOK
      <4>2. copy[v].user \in Users /\ copy[v].mark \in 0 .. Len(feed)
        BY <1>0, <4>1 DEF Row
      <4>3. QED
        BY <3>1, <4>2, CountAgainType DEF SaveRow, TypeOK
    <3>2. CASE DropRow(v)
      BY <3>2 DEF DropRow, rows, TypeOK
    <3>3. QED
      BY <1>4, <3>1, <3>2
  <2>3. QED
    BY <1>4, <2>1, <2>2 DEF SaveRow, DropRow, TypeOK, PageOK, rows, local
<1>5. QED
  BY <1>1, <1>2, <1>3, <1>4 DEF Meanwhile

LEMMA TypeInvNext == TypeInv /\ [Next]_vars => TypeInv'
<1> SUFFICES ASSUME TypeInv, [Next]_vars PROVE TypeInv'
  OBVIOUS
<1> USE FundingSyncAssumption DEF TypeInv
<1>0. Len(feed) \in Nat
  BY DEF TypeOK
<1>1. CASE Meanwhile
  BY <1>1, MeanwhileType
<1>2. ASSUME NEW w \in Workers, StartSync(w) PROVE TypeInv'
  <2>1. TypeOK'
    BY <1>2 DEF StartSync, Goto, TypeOK, rows, others, Steps
  <2>2. PageOK'
    BY <1>2 DEF StartSync, Goto, TypeOK, PageOK, InPage
  <2>3. QED
    BY <2>1, <2>2
<1>3. ASSUME NEW w \in Workers, FetchPage(w) PROVE TypeInv'
  <2>1. CASE pos[w] = Len(feed)
    BY <1>3, <2>1, EndRunType DEF FetchPage, TypeOK, PageOK, InPage, rows, others
  <2>2. CASE pos[w] # Len(feed)
    <3>1. pos[w] + 1 \in 0 .. Len(feed) /\ pos[w] \in Nat
      BY <1>0, <2>2 DEF TypeOK
    <3>2. DEFINE l == IF pos[w] + PageSize < Len(feed)
                      THEN pos[w] + PageSize ELSE Len(feed)
    <3>3. /\ l \in 0 .. Len(feed)
          /\ pos[w] + 1 <= l
          /\ l <= pos[w] + PageSize
      BY <1>0, <3>1
    <3>4. /\ next' = [next EXCEPT ![w] = pos[w] + 1]
          /\ last' = [last EXCEPT ![w] = l]
          /\ pc' = [pc EXCEPT ![w] = "lookup"]
          /\ UNCHANGED <<feed, cursor, rows, others, pos, seen, todo, faults, failed, skipped>>
      BY <1>3, <2>2 DEF FetchPage, Goto
    <3> HIDE DEF l
    <3>5. TypeOK'
      BY <3>1, <3>3, <3>4 DEF TypeOK, rows, others, Steps
    <3>6. PageOK'
      BY <3>1, <3>3, <3>4 DEF TypeOK, PageOK, InPage
    <3>7. QED
      BY <3>5, <3>6
  <2>3. QED
    BY <2>1, <2>2
<1>4. ASSUME NEW w \in Workers, Lookup(w) PROVE TypeInv'
  <2>1. pc[w] = "lookup" /\ next[w] \in 1 .. Len(feed)
    BY <1>0, <1>4 DEF Lookup, TypeOK, PageOK, InPage
  <2>2. CASE FinishEvent(w) /\ UNCHANGED seen
    BY <1>4, <2>1, <2>2, FinishEventType
    DEF Lookup, TypeOK, PageOK, InPage, rows, others
  <2>3. CASE seen' = [seen EXCEPT ![w] = lastEvent[Owner(next[w])]] /\ Goto(w, "save") /\ UNCHANGED next
    <3>1. seen' \in [Workers -> 0 .. Len(feed)]
      BY <2>1, <2>3, OwnerType DEF TypeOK
    <3>2. QED
      BY <1>4, <2>1, <2>3, <3>1 DEF Lookup, Goto, TypeOK, PageOK, InPage, rows, others, Steps
  <2>4. QED
    BY <1>4, <2>2, <2>3 DEF Lookup
<1>5. ASSUME NEW w \in Workers, LookupMiss(w) PROVE TypeInv'
  <2>1. next[w] \in Ids
    BY <1>0, <1>5 DEF LookupMiss, TypeOK, PageOK, InPage, Ids
  <2>2. QED
    BY <1>5, <2>1, FinishEventType DEF LookupMiss, TypeOK, PageOK, InPage, rows, others
<1>6. ASSUME NEW w \in Workers, LookupError(w) PROVE TypeInv'
  <2>1. next[w] \in Ids
    BY <1>0, <1>6 DEF LookupError, TypeOK, PageOK, InPage, Ids
  <2>2. faults' \in 0 .. MaxFaults /\ failed' \subseteq Ids
    BY <1>6, <2>1 DEF LookupError, Fault, TypeOK
  <2>3. QED
    BY <1>6, <2>2, FinishEventType
    DEF LookupError, TypeOK, PageOK, InPage, rows, others
<1>7. ASSUME NEW w \in Workers, SaveAccount(w) PROVE TypeInv'
  <2>1. next[w] \in 1 .. Len(feed)
    BY <1>0, <1>7 DEF SaveAccount, TypeOK, PageOK, InPage
  <2>2. Owner(next[w]) \in Users /\ feed[next[w]].bytes \subseteq Meters
    BY <2>1, OwnerType
  <2>3. /\ lastEvent' \in [Users -> 0 .. Len(feed)] /\ todo' \in [Workers -> SUBSET Meters]
        /\ again' \in [Ids -> Nat] /\ seen' \in [Workers -> 0 .. Len(feed)]
    BY <1>0, <1>7, <2>1, <2>2, CountAgainType DEF SaveAccount, TypeOK
  <2>4. CASE FinishEvent(w)
    BY <1>7, <2>3, <2>4, FinishEventType DEF SaveAccount, TypeOK, PageOK, InPage, others
  <2>5. CASE Goto(w, "record") /\ UNCHANGED next
    <3>1. /\ pc' = [pc EXCEPT ![w] = "record"] /\ pc[w] = "save" /\ UNCHANGED next
          /\ UNCHANGED <<feed, cursor, recorded, others, pos, last, faults, failed, skipped>>
      BY <1>7, <2>5 DEF SaveAccount, Goto
    <3>2. TypeOK'
      BY <2>3, <3>1 DEF TypeOK, others, Steps
    <3>3. PageOK'
      BY <3>1 DEF TypeOK, PageOK, InPage
    <3>4. QED
      BY <3>2, <3>3
  <2>6. QED
    BY <1>7, <2>4, <2>5 DEF SaveAccount
<1>8. ASSUME NEW w \in Workers, SaveError(w) PROVE TypeInv'
  <2>1. next[w] \in Ids
    BY <1>0, <1>8 DEF SaveError, TypeOK, PageOK, InPage, Ids
  <2>2. faults' \in 0 .. MaxFaults /\ failed' \subseteq Ids /\ seen' \in [Workers -> 0 .. Len(feed)]
    BY <1>0, <1>8, <2>1 DEF SaveError, Fault, TypeOK
  <2>3. QED
    BY <1>8, <2>2, FinishEventType
    DEF SaveError, TypeOK, PageOK, InPage, rows, others
<1>9. ASSUME NEW w \in Workers, Record(w) \/ RecordError(w) PROVE TypeInv'
  <2>1. /\ pc[w] = "record" /\ MeterDone(w)
        /\ UNCHANGED <<feed, cursor, lastEvent, again, others, pos, last, seen, skipped>>
    BY <1>9 DEF Record, RecordError, rows
  <2>2. next[w] \in Ids
    BY <1>0, <2>1 DEF TypeOK, PageOK, InPage, Ids
  <2>3. recorded' \in [Ids -> [Meters -> Nat]] /\ faults' \in 0 .. MaxFaults /\ failed' \subseteq Ids
    <3>1. CASE Record(w)
      BY <2>2, <3>1 DEF Record, TypeOK, NextMeter, Meters
    <3>2. CASE RecordError(w)
      BY <2>2, <3>2 DEF RecordError, Fault, TypeOK, rows
    <3>3. QED
      BY <1>9, <3>1, <3>2
  <2>4. todo' \in [Workers -> SUBSET Meters]
    BY <2>1 DEF MeterDone, TypeOK
  <2>5. CASE FinishEvent(w)
    BY <2>1, <2>3, <2>4, <2>5, FinishEventType DEF TypeOK, PageOK, InPage, others
  <2>6. CASE UNCHANGED <<pc, next>>
    BY <2>1, <2>3, <2>4, <2>6 DEF TypeOK, PageOK, others
  <2>7. QED
    BY <2>1, <2>5, <2>6 DEF MeterDone
<1>10. ASSUME NEW w \in Workers, PersistCursor(w) PROVE TypeInv'
  <2>1. last[w] \in 0 .. Len(feed)
    BY DEF TypeOK
  <2>2. CASE EndRun(w)
    BY <1>10, <2>1, <2>2, EndRunType DEF PersistCursor, TypeOK, PageOK, InPage, rows, others
  <2>3. CASE /\ Goto(w, "fetch") /\ pos' = [pos EXCEPT ![w] = last[w]]
             /\ UNCHANGED <<next, last, seen, todo>>
    BY <1>10, <2>1, <2>3
    DEF PersistCursor, Goto, TypeOK, PageOK, InPage, rows, others, Steps
  <2>4. QED
    BY <1>10, <2>2, <2>3 DEF PersistCursor, OnToNextPage
<1>11. ASSUME NEW w \in Workers, Abort(w) PROVE TypeInv'
  <2>1. pc[w] = "record" => next[w] \in Ids
    BY <1>0 DEF TypeOK, PageOK, InPage, Ids
  <2>2. failed' \subseteq Ids /\ faults' \in 0 .. MaxFaults
    BY <1>11, <2>1 DEF Abort, Fault, TypeOK
  <2>3. QED
    BY <1>11, <2>2, EndRunType DEF Abort, TypeOK, PageOK, InPage, rows, others
<1>12. CASE UNCHANGED vars
  BY <1>12 DEF vars, rows, others, local, TypeOK, PageOK
<1>13. QED
  BY <1>1, <1>2, <1>3, <1>4, <1>5, <1>6, <1>7, <1>8, <1>9, <1>10, <1>11, <1>12
  DEF Next, Run, Failure

(* SyncFunding never leaves the values its rows and variables may hold: in *)
(* particular no cursor ever points past the end of the published feed.    *)
THEOREM TypeCorrect == Spec => []TypeOK
<1>1. TypeInv => TypeOK
  BY DEF TypeInv
<1>2. QED
  BY <1>1, TypeInvInit, TypeInvNext, PTL DEF Spec
-----------------------------------------------------------------------------
(***************************************************************************)
(* PassedIsSettled, for any number of overlapping runs.  The inductive     *)
(* invariant says that every position a worker or a row can make a later   *)
(* run skip to has only settled events before it: the persisted cursor,    *)
(* the cursors in memory, the place in the page, the rows' last events and *)
(* the last events in the copies that other writers may still save.        *)
(***************************************************************************)
WorkerLoss(w) ==
  /\ \A e \in 1 .. pos[w] : Settled(e)
  /\ pc[w] \in {"lookup", "save", "record"} => \A e \in 1 .. next[w] - 1 : Settled(e)
  /\ pc[w] = "record" => Settled(next[w])
  /\ pc[w] = "persist" => \A e \in 1 .. last[w] : Settled(e)

RowLoss == \A e \in 1 .. Len(feed) : e <= lastEvent[Owner(e)] => Settled(e)

CopyLoss ==
  \A v \in Writers, e \in 1 .. Len(feed) :
    copy[v] # None /\ Owner(e) = copy[v].user /\ e <= copy[v].mark => Settled(e)

LossInv ==
  /\ PassedIsSettled
  /\ \A w \in Workers : WorkerLoss(w)
  /\ RowLoss
  /\ CopyLoss

(* The feed only grows, and by no more than its end.                       *)
LEMMA FeedGrows ==
  ASSUME TypeInv, [Next]_vars
  PROVE  /\ Len(feed) \in Nat /\ Len(feed') \in Nat /\ Len(feed) <= Len(feed')
         /\ \A e \in 1 .. Len(feed) : feed'[e] = feed[e]
<1>1. CASE Publish
  BY <1>1 DEF Publish, TypeInv, TypeOK
<1>2. CASE UNCHANGED feed
  BY <1>2 DEF TypeInv, TypeOK
<1>3. QED
  BY <1>1, <1>2
  DEF Next, Meanwhile, Link, ReadRow, SaveRow, DropRow, vars, Run, Failure, StartSync,
      FetchPage, Lookup, LookupMiss, LookupError, SaveAccount, SaveError, Record,
      RecordError, PersistCursor, Abort

(* A worker's step leaves the other workers' program counters alone.       *)
LEMMA OthersUnchanged ==
  ASSUME TypeInv, NEW w \in Workers, Run(w) \/ Failure(w),
         NEW v \in Workers, v # w
  PROVE  /\ pc'[v] = pc[v] /\ next'[v] = next[v] /\ todo'[v] = todo[v]
         /\ pos'[v] = pos[v] /\ last'[v] = last[v]
  BY DEF TypeInv, TypeOK, Run, Failure, StartSync, FetchPage, Lookup, LookupMiss,
         LookupError, SaveAccount, SaveError, Record, RecordError, PersistCursor,
         OnToNextPage, EndRun, Abort, FinishEvent, MeterDone, Goto

(* An event that is settled stays settled.                                 *)
LEMMA SettledStable ==
  ASSUME TypeInv, [Next]_vars, NEW e \in 1 .. Len(feed), Settled(e)
  PROVE  Settled(e)'
<1>1. feed'[e] = feed[e] /\ feed[e] \in Event
  BY FeedGrows DEF TypeInv, TypeOK
<1>2. failed \subseteq failed' /\ skipped \subseteq skipped'
  BY DEF Next, Meanwhile, Link, ReadRow, SaveRow, DropRow, vars, Run, Failure, Publish, StartSync, FetchPage, Lookup, LookupMiss,
         LookupError, SaveAccount, SaveError, Record, RecordError, PersistCursor, Abort
<1>3. e \in Ids
  BY FundingSyncAssumption, FeedGrows DEF TypeInv, TypeOK, Ids
<1>4. ASSUME NEW m \in Meters, recorded[e][m] > 0 PROVE recorded'[e][m] > 0
  <2>1. ASSUME NEW w \in Workers, Record(w) PROVE recorded'[e][m] > 0
    BY <1>3, <1>4, <2>1 DEF Record, NextMeter, Meters, TypeInv, TypeOK
  <2>2. CASE UNCHANGED recorded
    BY <1>4, <2>2
  <2>3. QED
    BY <2>1, <2>2
    DEF Next, Meanwhile, Link, ReadRow, SaveRow, DropRow, vars, rows, Run, Failure, Publish, StartSync, FetchPage, Lookup, LookupMiss,
        LookupError, SaveAccount, SaveError, RecordError, PersistCursor, Abort
<1>5. ASSUME NEW m \in Meters, Recording(e, m)
      PROVE  Recording(e, m)' \/ recorded'[e][m] > 0 \/ e \in failed'
  <2>1. PICK w \in Workers : pc[w] = "record" /\ next[w] = e /\ m \in todo[w]
    BY <1>5 DEF Recording
  <2>2. CASE Record(w)
    <3>1. CASE m = NextMeter(w)
      BY <1>3, <2>1, <2>2, <3>1 DEF Record, TypeInv, TypeOK
    <3>2. CASE m # NextMeter(w)
      BY <2>1, <2>2, <3>2 DEF Record, MeterDone, Recording, TypeInv, TypeOK
    <3>3. QED
      BY <3>1, <3>2
  <2>3. CASE RecordError(w) \/ Abort(w)
    BY <2>1, <2>3 DEF RecordError, Abort
  <2>4. ASSUME NEW v \in Workers, v # w, Run(v) \/ Failure(v) PROVE Recording(e, m)'
    BY <2>1, <2>4, OthersUnchanged DEF Recording
  <2>5. CASE Meanwhile \/ UNCHANGED vars
    BY <2>1, <2>5 DEF Meanwhile, Publish, Link, ReadRow, SaveRow, DropRow, vars, local, Recording
  <2>6. QED
    BY <2>1, <2>2, <2>3, <2>4, <2>5
    DEF Next, Run, Failure, StartSync, FetchPage, Lookup, LookupMiss, LookupError,
        SaveAccount, SaveError, PersistCursor
<1>6. CASE e \in skipped
  BY <1>2, <1>6 DEF Settled
<1>7. CASE e \in failed
  BY <1>2, <1>7 DEF Settled
<1>8. CASE \A m \in feed[e].bytes : recorded[e][m] > 0 \/ Recording(e, m)
  <2>1. feed[e].bytes \subseteq Meters
    BY OwnerType
  <2>2. QED
    BY <1>1, <1>4, <1>5, <1>8, <2>1 DEF Settled
<1>9. QED
  BY <1>6, <1>7, <1>8 DEF Settled

LEMMA LossInit == Init => LossInv
  BY DEF Init, LossInv, PassedIsSettled, WorkerLoss, RowLoss, CopyLoss

(* What a step by another worker, by indexd or by nobody keeps.            *)
LEMMA WorkerLossStable ==
  ASSUME TypeInv, LossInv, [Next]_vars, NEW v \in Workers,
         pc'[v] = pc[v], next'[v] = next[v], pos'[v] = pos[v], last'[v] = last[v]
  PROVE  WorkerLoss(v)'
<1>1. /\ pos[v] \in 0 .. Len(feed) /\ next[v] \in 0 .. Len(feed)
      /\ last[v] \in 0 .. Len(feed) /\ Len(feed) \in Nat
  BY FeedGrows DEF TypeInv, TypeOK
<1>2. pc[v] \in InPage => next[v] \in 1 .. Len(feed)
  BY <1>1 DEF TypeInv, PageOK
<1>3. \A e \in 1 .. Len(feed) : Settled(e) => Settled(e)'
  BY SettledStable
<1>4. WorkerLoss(v)
  BY DEF LossInv
<1>5. QED
  BY <1>1, <1>2, <1>3, <1>4 DEF WorkerLoss, InPage

LEMMA RowLossStable ==
  ASSUME TypeInv, LossInv, [Next]_vars, UNCHANGED <<feed, lastEvent>>
  PROVE  RowLoss'
<1>1. \A e \in 1 .. Len(feed) : Settled(e) => Settled(e)'
  BY SettledStable
<1>2. QED
  BY <1>1 DEF LossInv, RowLoss, Owner

LEMMA CopyLossStable ==
  ASSUME TypeInv, LossInv, [Next]_vars, UNCHANGED <<feed, copy>>
  PROVE  CopyLoss'
<1>1. \A e \in 1 .. Len(feed) : Settled(e) => Settled(e)'
  BY SettledStable
<1>2. QED
  BY <1>1 DEF LossInv, CopyLoss, Owner

LEMMA PassedIsSettledStable ==
  ASSUME TypeInv, LossInv, [Next]_vars, UNCHANGED cursor
  PROVE  PassedIsSettled'
<1>1. \A e \in 1 .. Len(feed) : Settled(e) => Settled(e)'
  BY SettledStable
<1>2. 1 .. cursor \subseteq 1 .. Len(feed)
  BY FeedGrows DEF TypeInv, TypeOK
<1>3. QED
  BY <1>1, <1>2 DEF LossInv, PassedIsSettled

(* Ending the event in hand is sound once that event is settled.           *)
LEMMA FinishLoss ==
  ASSUME TypeInv, LossInv, [Next]_vars, NEW w \in Workers,
         pc[w] \in {"lookup", "save", "record"}, FinishEvent(w),
         UNCHANGED <<pos, last>>,
         NEW e \in 1 .. Len(feed), e = next[w], Settled(e)'
  PROVE  WorkerLoss(w)'
<1>1. /\ pos[w] \in 0 .. Len(feed) /\ next[w] \in 1 .. Len(feed)
      /\ last[w] \in 0 .. Len(feed) /\ Len(feed) \in Nat
  BY FeedGrows DEF TypeInv, TypeOK, PageOK, InPage
<1>2. \A d \in 1 .. Len(feed) : Settled(d) => Settled(d)'
  BY SettledStable
<1>3. WorkerLoss(w)
  BY DEF LossInv
<1>4. /\ \A d \in 1 .. pos[w] : Settled(d)'
      /\ \A d \in 1 .. e : Settled(d)'
  BY <1>1, <1>2, <1>3 DEF WorkerLoss
<1>5. /\ pc'[w] \in {"lookup", "persist"}
      /\ pc'[w] = "lookup" => next'[w] = next[w] + 1
      /\ pc'[w] = "persist" => next'[w] = next[w] /\ next[w] = last[w]
  BY FinishEventType DEF InPage
<1>6. QED
  BY <1>1, <1>4, <1>5 DEF WorkerLoss

LEMMA LossNext == TypeInv /\ LossInv /\ [Next]_vars => LossInv'
<1> SUFFICES ASSUME TypeInv, LossInv, [Next]_vars PROVE LossInv'
  OBVIOUS
<1>1. \A e \in 1 .. Len(feed) : Settled(e) => Settled(e)'
  BY SettledStable
<1>2. Len(feed) \in Nat
  BY FeedGrows
<1>3. CASE Meanwhile
  <2>1. UNCHANGED <<local, cursor>>
    BY <1>3 DEF Meanwhile, Publish, Link, ReadRow, SaveRow, DropRow
  <2>2. PassedIsSettled' /\ \A w \in Workers : WorkerLoss(w)'
    BY <2>1, WorkerLossStable, PassedIsSettledStable DEF local
  <2>3. CASE Publish
    <3>1. /\ Len(feed') = Len(feed) + 1 /\ lastEvent' = lastEvent /\ copy' = copy
          /\ lastEvent \in [Users -> 0 .. Len(feed)]
      BY <2>3 DEF Publish, rows, others, TypeInv, TypeOK
    <3>2. \A e \in 1 .. Len(feed) : Owner(e)' = Owner(e)
      BY FeedGrows DEF Owner
    <3>3. \A e \in 1 .. Len(feed') : Owner(e)' \in Users
      <4>1. TypeInv'
        BY TypeInvNext
      <4>2. \A e \in 1 .. Len(feed') : feed'[e].key \in Keys
        <5>1. feed' \in Seq(Event)
          BY <4>1 DEF TypeInv, TypeOK
        <5>2. \A e \in 1 .. Len(feed') : feed'[e] \in Event
          BY <5>1
        <5>3. QED
          BY <5>2 DEF Event
      <4>3. QED
        BY <4>2, FundingSyncAssumption DEF Owner
    <3>4. ASSUME NEW e \in 1 .. Len(feed'), e <= lastEvent[Owner(e)']
          PROVE  e \in 1 .. Len(feed)
      BY <1>2, <3>1, <3>3, <3>4
    <3>5. RowLoss'
      BY <1>1, <3>1, <3>2, <3>4 DEF RowLoss, LossInv
    <3>6. ASSUME NEW v \in Writers, NEW e \in 1 .. Len(feed'), copy[v] # None,
                 e <= copy[v].mark
          PROVE  e \in 1 .. Len(feed)
      <4>1. copy[v].mark \in Nat /\ copy[v].mark <= Len(feed)
        BY <3>6 DEF TypeInv, TypeOK, Row
      <4>2. QED
        BY <1>2, <3>1, <3>6, <4>1
    <3>7. CopyLoss'
      BY <1>1, <3>1, <3>2, <3>6 DEF CopyLoss, LossInv
    <3>8. QED
      BY <2>2, <3>5, <3>7 DEF LossInv
  <2>4. CASE Link
    BY <2>2, <2>4, RowLossStable, CopyLossStable DEF Link, rows, LossInv
  <2>5. ASSUME NEW v \in Writers, ReadRow(v) PROVE LossInv'
    <3>1. PICK u \in Users : copy' = [copy EXCEPT ![v] = [user |-> u, mark |-> lastEvent[u]]]
      BY <2>5 DEF ReadRow
    <3>2. feed' = feed /\ lastEvent' = lastEvent
      BY <2>5 DEF ReadRow, rows
    <3>3. CopyLoss'
      <4>1. SUFFICES ASSUME NEW x \in Writers, NEW e \in 1 .. Len(feed), copy'[x] # None,
                            Owner(e) = copy'[x].user, e <= copy'[x].mark
                     PROVE  Settled(e)
        BY <1>1, <3>2 DEF CopyLoss, Owner
      <4>2. CASE x = v
        BY <3>1, <4>1, <4>2 DEF LossInv, RowLoss, TypeInv, TypeOK
      <4>3. CASE x # v
        BY <3>1, <4>1, <4>3 DEF LossInv, CopyLoss, TypeInv, TypeOK
      <4>4. QED
        BY <4>2, <4>3
    <3>4. QED
      BY <2>2, <3>2, <3>3, RowLossStable DEF LossInv
  <2>6. ASSUME NEW v \in Writers, SaveRow(v) \/ DropRow(v) PROVE LossInv'
    <3>1. /\ feed' = feed /\ copy[v] # None /\ copy' = [copy EXCEPT ![v] = None]
          /\ copy[v] \in Row
      BY <2>6 DEF SaveRow, DropRow, TypeInv, TypeOK
    <3>2. CopyLoss'
      BY <1>1, <3>1 DEF CopyLoss, LossInv, Owner, TypeInv, TypeOK
    <3>3. RowLoss'
      <4>1. CASE lastEvent' = lastEvent
        BY <3>1, <4>1, RowLossStable
      <4>2. CASE lastEvent' = [lastEvent EXCEPT ![copy[v].user] = copy[v].mark]
        <5>1. SUFFICES ASSUME NEW e \in 1 .. Len(feed), e <= lastEvent'[Owner(e)]
                       PROVE  Settled(e)
          BY <1>1, <3>1 DEF RowLoss, Owner
        <5>2. Owner(e) \in Users
          BY OwnerType
        <5>3. CASE Owner(e) = copy[v].user
          BY <3>1, <4>2, <5>1, <5>2, <5>3 DEF LossInv, CopyLoss, TypeInv, TypeOK
        <5>4. CASE Owner(e) # copy[v].user
          BY <4>2, <5>1, <5>2, <5>4 DEF LossInv, RowLoss, TypeInv, TypeOK
        <5>5. QED
          BY <5>3, <5>4
      <4>3. QED
        BY <2>6, <4>1, <4>2 DEF SaveRow, DropRow, rows
    <3>4. QED
      BY <2>2, <3>2, <3>3 DEF LossInv
  <2>7. QED
    BY <1>3, <2>3, <2>4, <2>5, <2>6 DEF Meanwhile
<1>4. ASSUME NEW w \in Workers, Run(w) \/ Failure(w), UNCHANGED <<feed, lastEvent, cursor, copy>>,
             WorkerLoss(w)'
      PROVE  LossInv'
  BY <1>4, OthersUnchanged, WorkerLossStable, RowLossStable, CopyLossStable, PassedIsSettledStable
  DEF LossInv
<1>5. ASSUME NEW w \in Workers, StartSync(w) PROVE LossInv'
  <2>1. WorkerLoss(w)'
    BY <1>1, <1>2, <1>5
    DEF StartSync, Goto, WorkerLoss, LossInv, PassedIsSettled, TypeInv, TypeOK
  <2>2. QED
    BY <1>4, <1>5, <2>1 DEF StartSync, Run, rows, others
<1>6. ASSUME NEW w \in Workers, FetchPage(w) PROVE LossInv'
  <2>1. WorkerLoss(w)'
    <3>1. CASE EndRun(w)
      BY <1>2, <3>1, EndRunType DEF WorkerLoss
    <3>2. CASE Goto(w, "lookup") /\ next' = [next EXCEPT ![w] = pos[w] + 1] /\ UNCHANGED pos
      BY <1>1, <1>2, <1>6, <3>2 DEF FetchPage, Goto, WorkerLoss, LossInv, TypeInv, TypeOK
    <3>3. QED
      BY <1>6, <3>1, <3>2 DEF FetchPage
  <2>2. QED
    BY <1>4, <1>6, <2>1 DEF FetchPage, Run, rows, others
<1>7. ASSUME NEW w \in Workers, Lookup(w) PROVE LossInv'
  <2>1. next[w] \in 1 .. Len(feed) /\ pos[w] \in 0 .. Len(feed)
    BY <1>2, <1>7 DEF Lookup, TypeInv, TypeOK, PageOK, InPage
  <2>2. CASE AlreadyProcessed(next[w]) /\ FinishEvent(w)
    <3>1. Settled(next[w])
      BY <1>7, <2>1, <2>2 DEF Lookup, AlreadyProcessed, LossInv, RowLoss
    <3>2. WorkerLoss(w)'
      <4>1. PICK e \in 1 .. Len(feed) : e = next[w]
        BY <2>1
      <4>2. Settled(e)'
        BY <1>1, <3>1, <4>1
      <4>3. QED
        BY <1>7, <2>2, <4>1, <4>2, FinishLoss DEF Lookup
    <3>3. QED
      BY <1>4, <1>7, <3>2 DEF Lookup, Run, rows, others
  <2>3. CASE Goto(w, "save") /\ UNCHANGED next
    <3>1. WorkerLoss(w)'
      BY <1>1, <1>2, <1>7, <2>1, <2>3
      DEF Lookup, Goto, WorkerLoss, LossInv, TypeInv, TypeOK
    <3>2. QED
      BY <1>4, <1>7, <3>1 DEF Lookup, Run, rows, others
  <2>4. QED
    BY <1>7, <2>2, <2>3 DEF Lookup
<1>8. ASSUME NEW w \in Workers, LookupMiss(w) \/ LookupError(w) \/ SaveError(w) PROVE LossInv'
  <2>1. PICK e \in 1 .. Len(feed) : e = next[w]
    BY <1>2, <1>8
    DEF LookupMiss, LookupError, SaveError, TypeInv, TypeOK, PageOK, InPage
  <2>2. Settled(e)'
    BY <1>8, <2>1 DEF LookupMiss, LookupError, SaveError, Settled
  <2>3. WorkerLoss(w)'
    BY <1>8, <2>1, <2>2, FinishLoss DEF LookupMiss, LookupError, SaveError
  <2>4. QED
    BY <1>4, <1>8, <2>3 DEF LookupMiss, LookupError, SaveError, Run, Failure, rows, others
<1>9. ASSUME NEW w \in Workers, SaveAccount(w) PROVE LossInv'
  <2>0. PICK e \in 1 .. Len(feed) : e = next[w]
    BY <1>2, <1>9 DEF SaveAccount, TypeInv, TypeOK, PageOK, InPage
  <2>1. pos[w] \in 0 .. Len(feed) /\ \A d \in 1 .. Len(feed) : Owner(d) \in Users
    BY OwnerType DEF TypeInv, TypeOK
  <2>2. \A d \in 1 .. e - 1 : Settled(d)
    BY <1>9, <2>0 DEF SaveAccount, LossInv, WorkerLoss
  <2>3. Settled(e)'
    <3>1. CASE feed[e].bytes = {}
      BY <1>9, <2>0, <3>1 DEF SaveAccount, Settled
    <3>2. CASE feed[e].bytes # {}
      <4>1. /\ pc'[w] = "record" /\ next'[w] = e /\ todo'[w] = feed[e].bytes
            /\ feed' = feed
        BY <1>9, <2>0, <3>2 DEF SaveAccount, Goto, TypeInv, TypeOK
      <4>2. QED
        BY <4>1 DEF Settled, Recording
    <3>3. QED
      BY <3>1, <3>2
  <2>4. WorkerLoss(w)'
    <3>1. CASE FinishEvent(w)
      BY <1>9, <2>0, <2>3, <3>1, FinishLoss DEF SaveAccount
    <3>2. CASE Goto(w, "record") /\ UNCHANGED next
      BY <1>1, <1>2, <1>9, <2>0, <2>1, <2>2, <2>3, <3>2
      DEF SaveAccount, Goto, WorkerLoss, LossInv, TypeInv, TypeOK
    <3>3. QED
      BY <1>9, <3>1, <3>2 DEF SaveAccount
  <2>5. \A v \in Workers : WorkerLoss(v)'
    BY <1>9, <2>4, OthersUnchanged, WorkerLossStable DEF Run
  <2>6. RowLoss'
    <3>1. ASSUME NEW d \in 1 .. Len(feed), d <= lastEvent'[Owner(d)]
          PROVE  Settled(d)'
      <4>1. CASE Owner(d) = Owner(e)
        <5>1. lastEvent'[Owner(d)] = e
          BY <1>9, <2>0, <2>1, <4>1 DEF SaveAccount, TypeInv, TypeOK
        <5>2. d = e \/ d \in 1 .. e - 1
          BY <1>2, <3>1, <5>1
        <5>3. QED
          BY <1>1, <2>2, <2>3, <5>2
      <4>2. CASE Owner(d) # Owner(e)
        <5>1. lastEvent'[Owner(d)] = lastEvent[Owner(d)]
          BY <1>9, <2>0, <2>1, <4>2 DEF SaveAccount, TypeInv, TypeOK
        <5>2. QED
          BY <1>1, <3>1, <5>1 DEF LossInv, RowLoss
      <4>3. QED
        BY <4>1, <4>2
    <3>2. QED
      BY <1>9, <3>1 DEF SaveAccount, RowLoss, Owner
  <2>7. PassedIsSettled'
    BY <1>9, PassedIsSettledStable DEF SaveAccount
  <2>8. CopyLoss'
    BY <1>9, CopyLossStable DEF SaveAccount, others
  <2>9. QED
    BY <2>5, <2>6, <2>7, <2>8 DEF LossInv
<1>10. ASSUME NEW w \in Workers, Record(w) \/ RecordError(w) PROVE LossInv'
  <2>1. next[w] \in 1 .. Len(feed) /\ pos[w] \in 0 .. Len(feed)
    BY <1>2, <1>10 DEF Record, RecordError, TypeInv, TypeOK, PageOK, InPage
  <2>0. PICK e \in 1 .. Len(feed) : e = next[w]
    BY <2>1
  <2>2. Settled(e)'
    BY <1>1, <1>10, <2>0 DEF Record, RecordError, LossInv, WorkerLoss
  <2>3. WorkerLoss(w)'
    <3>1. CASE FinishEvent(w)
      BY <1>10, <2>0, <2>2, <3>1, FinishLoss DEF Record, RecordError
    <3>2. CASE UNCHANGED <<pc, next>>
      BY <1>10, <3>2, WorkerLossStable DEF Record, RecordError
    <3>3. QED
      BY <1>10, <3>1, <3>2 DEF Record, RecordError, MeterDone
  <2>4. QED
    BY <1>4, <1>10, <2>3 DEF Record, RecordError, Run, Failure, rows, others
<1>11. ASSUME NEW w \in Workers, PersistCursor(w) PROVE LossInv'
  <2>1. /\ cursor' = last[w] /\ pos'[w] \in {0, last[w]} /\ last[w] \in 0 .. Len(feed)
        /\ pc'[w] \in {"fetch", "idle"} /\ UNCHANGED <<feed, lastEvent, copy>>
    BY <1>11, EndRunType DEF PersistCursor, OnToNextPage, Goto, rows, others, TypeInv, TypeOK
  <2>2. \A e \in 1 .. last[w] : Settled(e)'
    BY <1>1, <1>2, <1>11, <2>1 DEF PersistCursor, LossInv, WorkerLoss
  <2>3. PassedIsSettled' /\ WorkerLoss(w)'
    BY <2>1, <2>2 DEF PassedIsSettled, WorkerLoss
  <2>4. QED
    BY <1>11, <2>1, <2>3, OthersUnchanged, WorkerLossStable, RowLossStable, CopyLossStable
    DEF LossInv, Run
<1>12. ASSUME NEW w \in Workers, Abort(w) PROVE LossInv'
  <2>1. WorkerLoss(w)'
    BY <1>2, <1>12, EndRunType DEF Abort, WorkerLoss
  <2>2. QED
    BY <1>4, <1>12, <2>1 DEF Abort, Failure, rows, others
<1>13. CASE UNCHANGED vars
  BY <1>13, WorkerLossStable, RowLossStable, CopyLossStable, PassedIsSettledStable
  DEF vars, rows, others, local, LossInv
<1>14. QED
  BY <1>3, <1>5, <1>6, <1>7, <1>8, <1>9, <1>10, <1>11, <1>12, <1>13 DEF Next, Run, Failure

(* However many runs overlap, wherever they fail and whatever the other    *)
(* writers save, an event the global cursor has passed was recorded, had   *)
(* no row when it was looked up, or a call made for it failed.             *)
THEOREM NothingPassedUnsettled == Spec => []PassedIsSettled
<1>1. LossInv => PassedIsSettled
  BY DEF LossInv
<1>2. QED
  BY <1>1, TypeInvInit, TypeInvNext, LossInit, LossNext, PTL DEF Spec
=============================================================================
