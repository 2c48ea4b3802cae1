-------------------------- MODULE FundingLedgerProofs --------------------------
(***************************************************************************)
(* However many runs of the sync overlap, whatever fails and whatever the  *)
(* other writers of the account rows save, an event is recorded no oftener *)
(* than it was opened.  While at most one run is in progress FundingSync   *)
(* implements FundingLedger.                                               *)
(***************************************************************************)
EXTENDS FundingSyncProofs, FiniteSetTheorems

(* The runs that are about to record e on m.                               *)
Holding(e, m) == {w \in Workers : pc[w] = "record" /\ next[w] = e /\ m \in todo[w]}

(* Whether the owner's row has reached e.                                  *)
Reached(e) == IF e <= lastEvent[Owner(e)] THEN 1 ELSE 0

(* Every record done or in hand is paid for: by an opening of the event, or *)
(* by the row having reached it.                                            *)
Paid ==
  \A e \in 1 .. Len(feed), m \in Meters :
    recorded[e][m] + Cardinality(Holding(e, m)) <= again[e] + Reached(e)

Unpublished == \A e \in Ids, m \in Meters : e > Len(feed) => recorded[e][m] = 0

InHand(w) ==
  /\ pc[w] = "save" => seen[w] < next[w]
  /\ pc[w] = "record" => todo[w] # {} /\ todo[w] \subseteq feed[next[w]].bytes

PaidInv ==
  /\ Paid
  /\ Unpublished
  /\ \A w \in Workers : InHand(w)

LEMMA ReachedType == \A e : Reached(e) \in {0, 1}
  BY DEF Reached

LEMMA HoldingType ==
  ASSUME IsFiniteSet(Workers)
  PROVE  \A e, m : IsFiniteSet(Holding(e, m)) /\ Cardinality(Holding(e, m)) \in Nat
<1>1. \A e, m : Holding(e, m) \subseteq Workers
  BY DEF Holding
<1>2. QED
  BY <1>1, FS_Subset, FS_CardinalityType

LEMMA PaidType ==
  ASSUME TypeInv, IsFiniteSet(Workers), NEW e \in 1 .. Len(feed), NEW m \in Meters
  PROVE  /\ e \in Ids /\ e \in Nat /\ recorded[e][m] \in Nat /\ again[e] \in Nat
         /\ Reached(e) \in {0, 1} /\ Cardinality(Holding(e, m)) \in Nat
         /\ Owner(e) \in Users /\ lastEvent[Owner(e)] \in Nat
<1>1. e \in Ids /\ Owner(e) \in Users
  BY OwnerType
<1>2. QED
  BY <1>1, ReachedType, HoldingType DEF TypeInv, TypeOK

(* Sums, and sets with an element more.                                    *)
LEMMA HoldsLess ==
  \A r, c, a, x, i, c2, r2 \in Nat :
    r + c <= a + x /\ c2 + i <= c /\ r2 = r + i => r2 + c2 <= a + x
  OBVIOUS

LEMMA SubsetCardinality ==
  \A S, T : IsFiniteSet(S) /\ T \subseteq S
            => Cardinality(T) \in Nat /\ Cardinality(T) <= Cardinality(S)
  BY FS_Subset, FS_CardinalityType

LEMMA OneMoreElement ==
  ASSUME NEW S, NEW x, IsFiniteSet(S)
  PROVE  /\ IsFiniteSet(S \cup {x}) /\ Cardinality(S \cup {x}) \in Nat
         /\ Cardinality(S \cup {x}) <= Cardinality(S) + 1
<1>1. Cardinality(S) \in Nat /\ IsFiniteSet(S \cup {x})
  BY FS_CardinalityType, FS_AddElement
<1>2. Cardinality(S \cup {x}) = Cardinality(S) \/ Cardinality(S \cup {x}) = Cardinality(S) + 1
  BY FS_AddElement
<1>3. QED
  BY <1>1, <1>2, FS_CardinalityType

LEMMA PaidInit == Init => PaidInv
  BY FundingSyncAssumption DEF Init, PaidInv, Paid, Unpublished, InHand, Ids

(* A step that records nothing, takes nothing more in hand and leaves the  *)
(* rows alone.                                                             *)
LEMMA PaidStable ==
  ASSUME TypeInv, PaidInv, IsFiniteSet(Workers), UNCHANGED <<feed, rows>>,
         \A e \in 1 .. Len(feed), m \in Meters : Holding(e, m)' \subseteq Holding(e, m)
  PROVE  Paid' /\ Unpublished'
<1>1. ASSUME NEW e \in 1 .. Len(feed), NEW m \in Meters
      PROVE  (recorded[e][m] + Cardinality(Holding(e, m)) <= again[e] + Reached(e))'
  <2>1. /\ Cardinality(Holding(e, m)') \in Nat
        /\ Cardinality(Holding(e, m)') <= Cardinality(Holding(e, m))
    <3>1. IsFiniteSet(Holding(e, m)) /\ Holding(e, m)' \subseteq Holding(e, m)
      BY HoldingType
    <3>2. QED
      BY <3>1, SubsetCardinality
  <2>2. Reached(e)' = Reached(e) /\ again' = again /\ recorded' = recorded
    BY DEF Reached, Owner, rows
  <2>3. recorded[e][m] + Cardinality(Holding(e, m)) <= again[e] + Reached(e)
    BY DEF PaidInv, Paid
  <2>4. recorded[e][m] \in Nat /\ again[e] \in Nat /\ Cardinality(Holding(e, m)) \in Nat
    BY PaidType
  <2>5. Reached(e) \in Nat
    BY PaidType
  <2>6. recorded[e][m] + Cardinality(Holding(e, m)') <= again[e] + Reached(e)
    BY <2>1, <2>3, <2>4, <2>5
  <2>7. QED
    BY <2>2, <2>6
<1>2. Paid'
  BY <1>1 DEF Paid
<1>3. QED
  BY <1>2 DEF PaidInv, Unpublished, rows

(* What a worker's step that ends or begins the work on an event means for *)
(* what is in hand.                                                        *)
LEMMA HoldingShrinks ==
  ASSUME TypeInv, NEW w \in Workers, Run(w) \/ Failure(w),
         pc'[w] = "record" => pc[w] = "record" /\ next'[w] = next[w] /\ todo'[w] \subseteq todo[w]
  PROVE  \A e, m : Holding(e, m)' \subseteq Holding(e, m)
  BY OthersUnchanged DEF Holding

(* A step of one run that neither saves a row nor records.                 *)
LEMMA PaidQuiet ==
  ASSUME TypeInv, PaidInv, IsFiniteSet(Workers), NEW w \in Workers,
         Run(w) \/ Failure(w), UNCHANGED <<feed, rows>>,
         pc'[w] # "record", pc'[w] = "save" => seen'[w] < next'[w],
         \A v \in Workers : v # w => seen'[v] = seen[v]
  PROVE  PaidInv'
<1>1. Paid' /\ Unpublished'
  BY HoldingShrinks, PaidStable
<1>2. ASSUME NEW v \in Workers PROVE InHand(v)'
  <2>1. CASE v = w
    BY <2>1 DEF InHand
  <2>2. CASE v # w
    BY <2>2, OthersUnchanged DEF PaidInv, InHand
  <2>3. QED
    BY <2>1, <2>2
<1>3. QED
  BY <1>1, <1>2 DEF PaidInv

(* Another writer's save pays for the events it takes the row back over.   *)
LEMMA SaveRowPays ==
  ASSUME TypeInv, NEW v \in Writers, SaveRow(v), NEW e \in 1 .. Len(feed)
  PROVE  /\ again'[e] \in Nat
         /\ again[e] + Reached(e) <= again'[e] + Reached(e)'
<1> DEFINE u == copy[v].user
           c == copy[v].mark
<1>1. copy[v] \in Row
  BY DEF SaveRow, TypeInv, TypeOK
<1>2. u \in Users /\ c \in Nat /\ e \in Ids /\ Owner(e) \in Users
  BY <1>1, OwnerType DEF Row
<1>3. again[e] \in Nat /\ again'[e] \in Nat /\ lastEvent[Owner(e)] \in Nat
  <2>1. CountAgain(Reopened(u, c, lastEvent[u]))
    BY DEF SaveRow
  <2>2. again' \in [Ids -> Nat]
    BY <2>1, CountAgainType
  <2>3. QED
    BY <1>2, <2>2 DEF TypeInv, TypeOK
<1>4. lastEvent'[Owner(e)] = IF Owner(e) = u THEN c ELSE lastEvent[Owner(e)]
  BY <1>2 DEF SaveRow, TypeInv, TypeOK
<1>5. again'[e] = IF Owner(e) = u /\ c < e /\ e <= lastEvent[u]
                  THEN again[e] + 1 ELSE again[e]
  <2>1. again' = [d \in Ids |-> IF d \in Reopened(u, c, lastEvent[u]) THEN again[d] + 1 ELSE again[d]]
    BY DEF SaveRow, CountAgain
  <2>2. e \in Reopened(u, c, lastEvent[u]) <=> Owner(e) = u /\ c < e /\ e <= lastEvent[u]
    BY DEF Reopened
  <2>3. QED
    BY <1>2, <2>1, <2>2
<1>6. Owner(e)' = Owner(e)
  BY DEF SaveRow, Owner
<1> HIDE DEF u, c
<1>7. QED
  BY <1>2, <1>3, <1>4, <1>5, <1>6 DEF Reached

(* So does the sync's own save, and it pays for the event it saves.        *)
LEMMA SaveAccountPays ==
  ASSUME TypeInv, NEW w \in Workers, SaveAccount(w), seen[w] < next[w],
         NEW e \in 1 .. Len(feed)
  PROVE  /\ again'[e] \in Nat
         /\ again[e] + Reached(e) + (IF e = next[w] THEN 1 ELSE 0) <= again'[e] + Reached(e)'
         /\ e > next[w] /\ Owner(e) = Owner(next[w]) => Reached(e)' = 0
<1> DEFINE d == next[w]
           u == Owner(d)
<1>1. d \in 1 .. Len(feed) /\ seen[w] \in Nat
  BY DEF SaveAccount, TypeInv, TypeOK, PageOK, InPage
<1>2. u \in Users /\ d \in Nat /\ e \in Nat /\ e \in Ids /\ Owner(e) \in Users
  BY <1>1, OwnerType
<1>3. again[e] \in Nat /\ again'[e] \in Nat /\ lastEvent[Owner(e)] \in Nat
  <2>1. CountAgain(Reopened(u, seen[w], lastEvent[u]) \ 1 .. d - 1)
    BY DEF SaveAccount
  <2>2. again' \in [Ids -> Nat]
    BY <2>1, CountAgainType
  <2>3. QED
    BY <1>2, <2>2 DEF TypeInv, TypeOK
<1>4. lastEvent'[Owner(e)] = IF Owner(e) = u THEN d ELSE lastEvent[Owner(e)]
  BY <1>2 DEF SaveAccount, TypeInv, TypeOK
<1>5. again'[e] = IF e \in Reopened(u, seen[w], lastEvent[u]) \ 1 .. d - 1
                  THEN again[e] + 1 ELSE again[e]
  <2>1. again' = [f \in Ids |-> IF f \in Reopened(u, seen[w], lastEvent[u]) \ 1 .. d - 1
                                THEN again[f] + 1 ELSE again[f]]
    BY DEF SaveAccount, CountAgain
  <2>2. QED
    BY <1>2, <2>1
<1>6. again'[e] = IF Owner(e) = u /\ d <= e /\ e <= lastEvent[u]
                  THEN again[e] + 1 ELSE again[e]
  BY <1>1, <1>2, <1>5 DEF Reopened
<1>7. Owner(e)' = Owner(e) /\ (e = d => Owner(e) = u)
  BY DEF SaveAccount, Owner
<1> HIDE DEF u
<1>8. QED
  BY <1>2, <1>3, <1>4, <1>6, <1>7 DEF Reached, u

LEMMA PaidMeanwhile ==
  ASSUME TypeInv, PaidInv, IsFiniteSet(Workers), Meanwhile
  PROVE  PaidInv'
<1>0. Len(feed) \in Nat /\ Meanwhile => [Next]_vars
  BY DEF TypeInv, TypeOK, Next
<1>1. UNCHANGED <<local, recorded>> /\ \A e, m : Holding(e, m)' = Holding(e, m)
  BY DEF Meanwhile, Publish, Link, ReadRow, SaveRow, DropRow, local, rows, Holding
<1>2. ASSUME NEW w \in Workers PROVE InHand(w)'
  <2>1. pc[w] = "record" => next[w] \in 1 .. Len(feed)
    BY <1>0 DEF TypeInv, TypeOK, PageOK, InPage
  <2>2. pc[w] = "record" => feed'[next[w]] = feed[next[w]]
    BY <1>0, <2>1, FeedGrows
  <2>3. QED
    BY <1>1, <2>2 DEF PaidInv, InHand, local
<1>3. CASE UNCHANGED <<feed, rows>>
  BY <1>1, <1>2, <1>3, PaidStable DEF PaidInv
<1>4. CASE Publish
  <2>1. /\ Len(feed') = Len(feed) + 1 /\ UNCHANGED rows
        /\ \A e \in 1 .. Len(feed) : feed'[e] = feed[e]
    BY <1>4 DEF Publish, TypeInv, TypeOK
  <2>2. TypeInv'
    BY <1>0, TypeInvNext
  <2>3. ASSUME NEW e \in 1 .. Len(feed'), NEW m \in Meters
        PROVE  (recorded[e][m] + Cardinality(Holding(e, m)) <= again[e] + Reached(e))'
    <3>1. CASE e \in 1 .. Len(feed)
      <4>1. Reached(e)' = Reached(e)
        BY <2>1, <3>1 DEF Reached, Owner, rows
      <4>2. QED
        BY <1>1, <2>1, <3>1, <4>1 DEF PaidInv, Paid, rows
    <3>2. CASE e \notin 1 .. Len(feed)
      <4>1. e \in Nat /\ e > Len(feed) /\ e \in Ids
        BY <1>0, <2>1, <2>2, <3>2 DEF TypeInv, TypeOK, Ids
      <4>2. recorded'[e][m] = 0 /\ again'[e] \in Nat
        <5>1. \A d \in Ids, n \in Meters : d > Len(feed) => recorded[d][n] = 0
          BY DEF PaidInv, Unpublished
        <5>2. recorded[e][m] = 0 /\ again[e] \in Nat
          BY <4>1, <5>1 DEF TypeInv, TypeOK
        <5>3. QED
          BY <2>1, <5>2 DEF rows
      <4>3. Holding(e, m)' = {}
        <5>1. \A w \in Workers : next[w] \in Nat /\ next[w] <= Len(feed)
          BY <1>0 DEF TypeInv, TypeOK
        <5>2. \A w \in Workers : next[w] # e
          BY <1>0, <4>1, <5>1
        <5>3. Holding(e, m) = {}
          BY <5>2 DEF Holding
        <5>4. QED
          BY <1>1, <5>3
      <4>4. Cardinality(Holding(e, m)') = 0 /\ Reached(e)' \in {0, 1}
        BY <4>3, FS_EmptySet DEF Reached
      <4>5. QED
        BY <4>2, <4>4
    <3>3. QED
      BY <3>1, <3>2
  <2>4. Unpublished'
    BY <1>0, <1>1, <2>1 DEF PaidInv, Unpublished, Ids
  <2>5. QED
    BY <1>2, <2>3, <2>4 DEF PaidInv, Paid
<1>5. ASSUME NEW v \in Writers, SaveRow(v) PROVE PaidInv'
  <2>1. feed' = feed
    BY <1>5 DEF SaveRow
  <2>2. ASSUME NEW e \in 1 .. Len(feed), NEW m \in Meters
        PROVE  (recorded[e][m] + Cardinality(Holding(e, m)) <= again[e] + Reached(e))'
    <3>1. /\ again'[e] \in Nat /\ Reached(e)' \in {0, 1}
          /\ again[e] + Reached(e) <= again'[e] + Reached(e)'
      BY <1>5, SaveRowPays DEF Reached
    <3>2. recorded[e][m] + Cardinality(Holding(e, m)) <= again[e] + Reached(e)
      BY DEF PaidInv, Paid
    <3>3. recorded[e][m] \in Nat /\ again[e] \in Nat /\ Cardinality(Holding(e, m)) \in Nat
      BY PaidType
    <3>4. Reached(e) \in Nat /\ Reached(e)' \in Nat
      BY PaidType, <3>1
    <3>5. recorded[e][m] + Cardinality(Holding(e, m)) <= again'[e] + Reached(e)'
      <4> DEFINE sum == recorded[e][m] + Cardinality(Holding(e, m))
                 a == again[e] + Reached(e)
                 b == again'[e] + Reached(e)'
      <4>1. sum <= a /\ a <= b /\ sum \in Nat /\ a \in Nat /\ b \in Nat
        BY <3>1, <3>2, <3>3, <3>4
      <4> HIDE DEF sum, a, b
      <4>2. sum <= b
        BY <4>1
      <4>3. QED
        BY <4>2 DEF sum, b
    <3>6. Holding(e, m)' = Holding(e, m) /\ recorded' = recorded
      BY <1>1
    <3>7. QED
      BY <3>5, <3>6
  <2>3. QED
    BY <1>1, <1>2, <2>1, <2>2 DEF PaidInv, Paid, Unpublished
<1>6. QED
  BY <1>3, <1>4, <1>5 DEF Meanwhile, Link, ReadRow, DropRow

LEMMA PaidSaveAccount ==
  ASSUME TypeInv, PaidInv, IsFiniteSet(Workers), NEW w \in Workers, SaveAccount(w)
  PROVE  PaidInv'
<1>1. PICK d \in 1 .. Len(feed) : d = next[w]
  BY DEF SaveAccount, TypeInv, TypeOK, PageOK, InPage
<1>2. /\ pc[w] = "save" /\ seen[w] < next[w] /\ UNCHANGED <<feed, recorded>>
      /\ todo'[w] = feed[d].bytes /\ seen' = [seen EXCEPT ![w] = 0]
  BY <1>1 DEF SaveAccount, PaidInv, InHand, TypeInv, TypeOK
<1>3. \/ pc'[w] \in {"lookup", "persist"}
      \/ pc'[w] = "record" /\ next'[w] = d /\ feed[d].bytes # {}
  <2>1. CASE FinishEvent(w)
    BY <1>2, <2>1, FinishEventType DEF InPage
  <2>2. CASE feed[d].bytes # {} /\ Goto(w, "record") /\ UNCHANGED next
    BY <1>1, <2>2 DEF Goto, TypeInv, TypeOK
  <2>3. QED
    BY <1>1, <2>1, <2>2 DEF SaveAccount
<1>4. ASSUME NEW e \in 1 .. Len(feed), NEW m \in Meters
      PROVE  (recorded[e][m] + Cardinality(Holding(e, m)) <= again[e] + Reached(e))'
  <2>1. /\ again'[e] \in Nat /\ Reached(e)' \in {0, 1}
        /\ again[e] + Reached(e) + (IF e = d THEN 1 ELSE 0) <= again'[e] + Reached(e)'
    BY <1>1, <1>2, SaveAccountPays DEF Reached
  <2>2. recorded[e][m] + Cardinality(Holding(e, m)) <= again[e] + Reached(e)
    BY DEF PaidInv, Paid
  <2>3. /\ Cardinality(Holding(e, m)') \in Nat
        /\ Cardinality(Holding(e, m)') <= Cardinality(Holding(e, m)) + (IF e = d THEN 1 ELSE 0)
    <3>1. Holding(e, m)' \subseteq (IF e = d THEN Holding(e, m) \cup {w} ELSE Holding(e, m))
      BY <1>1, <1>2, <1>3, OthersUnchanged DEF Holding, Run
    <3>2. /\ IsFiniteSet(Holding(e, m) \cup {w})
          /\ Cardinality(Holding(e, m) \cup {w}) \in Nat
          /\ Cardinality(Holding(e, m) \cup {w}) <= Cardinality(Holding(e, m)) + 1
      <4>1. IsFiniteSet(Holding(e, m)) /\ Cardinality(Holding(e, m)) \in Nat
        BY HoldingType
      <4>2. QED
        BY <4>1, OneMoreElement
    <3>3. CASE e = d
      <4>1. Holding(e, m)' \subseteq Holding(e, m) \cup {w}
        BY <3>1, <3>3
      <4>2. /\ Cardinality(Holding(e, m)') \in Nat
            /\ Cardinality(Holding(e, m)') <= Cardinality(Holding(e, m) \cup {w})
        BY <3>2, <4>1, SubsetCardinality
      <4>3. Cardinality(Holding(e, m)) \in Nat
        BY HoldingType
      <4>4. QED
        BY <3>2, <3>3, <4>2, <4>3
    <3>4. CASE e # d
      <4>1. Holding(e, m)' \subseteq Holding(e, m)
        BY <3>1, <3>4
      <4>2. IsFiniteSet(Holding(e, m)) /\ Cardinality(Holding(e, m)) \in Nat
        BY HoldingType
      <4>3. /\ Cardinality(Holding(e, m)') \in Nat
            /\ Cardinality(Holding(e, m)') <= Cardinality(Holding(e, m))
        BY <4>1, <4>2, SubsetCardinality
      <4>4. QED
        BY <3>4, <4>2, <4>3
    <3>5. QED
      BY <3>3, <3>4
  <2>4. recorded[e][m] \in Nat /\ again[e] \in Nat /\ Cardinality(Holding(e, m)) \in Nat
    BY PaidType
  <2>5. Reached(e) \in Nat /\ Reached(e)' \in Nat
    BY PaidType, <2>1
  <2>6. recorded[e][m] + Cardinality(Holding(e, m)') <= again'[e] + Reached(e)'
    <3> DEFINE i == IF e = d THEN 1 ELSE 0
               rec == recorded[e][m]
               c == Cardinality(Holding(e, m))
               h == Cardinality(Holding(e, m)')
               a == again[e] + Reached(e)
               b == again'[e] + Reached(e)'
    <3>1. /\ rec + c <= a /\ h <= c + i /\ a + i <= b
          /\ i \in Nat /\ rec \in Nat /\ c \in Nat /\ h \in Nat /\ a \in Nat /\ b \in Nat
      BY <2>1, <2>2, <2>3, <2>4, <2>5
    <3> HIDE DEF i, rec, c, h, a, b
    <3>2. rec + h <= b
      BY <3>1
    <3>3. QED
      BY <3>2 DEF rec, h, b
  <2>7. QED
    BY <1>2, <2>6
<1>5. ASSUME NEW v \in Workers PROVE InHand(v)'
  <2>1. CASE v = w
    BY <1>2, <1>3, <2>1 DEF InHand
  <2>2. CASE v # w
    BY <1>2, <2>2, OthersUnchanged DEF PaidInv, InHand, Run, TypeInv, TypeOK
  <2>3. QED
    BY <2>1, <2>2
<1>6. QED
  BY <1>2, <1>4, <1>5 DEF PaidInv, Paid, Unpublished

LEMMA PaidRecord ==
  ASSUME TypeInv, PaidInv, IsFiniteSet(Workers), NEW w \in Workers,
         Record(w) \/ RecordError(w)
  PROVE  PaidInv'
<1>1. PICK d \in 1 .. Len(feed) : d = next[w]
  BY DEF Record, RecordError, TypeInv, TypeOK, PageOK, InPage
<1>2. /\ pc[w] = "record" /\ MeterDone(w) /\ UNCHANGED <<feed, lastEvent, again, seen>>
      /\ todo[w] # {} /\ todo[w] \subseteq feed[d].bytes /\ todo[w] \subseteq {"upload", "download"}
  BY <1>1 DEF Record, RecordError, rows, PaidInv, InHand, TypeInv, TypeOK, Meters
<1>3. PICK k \in Meters : k = NextMeter(w) /\ k \in todo[w]
  BY <1>2 DEF NextMeter, Meters
<1>4. /\ todo'[w] = todo[w] \ {k}
      /\ \/ pc'[w] \in {"lookup", "persist"}
         \/ pc'[w] = "record" /\ next'[w] = d /\ todo'[w] # {}
  <2>1. todo'[w] = todo[w] \ {k}
    BY <1>2, <1>3 DEF MeterDone, TypeInv, TypeOK
  <2>2. CASE FinishEvent(w)
    BY <1>2, <2>1, <2>2, FinishEventType DEF InPage
  <2>3. CASE todo[w] # {k} /\ UNCHANGED <<pc, next>>
    BY <1>1, <1>2, <1>3, <2>1, <2>3
  <2>4. QED
    BY <1>2, <1>3, <2>1, <2>2, <2>3 DEF MeterDone
<1>5. \A e, m : Holding(e, m)' \subseteq Holding(e, m)
  BY <1>1, <1>2, <1>4, HoldingShrinks DEF Run, Failure
<1>6. ASSUME NEW v \in Workers PROVE InHand(v)'
  <2>1. CASE v = w
    BY <1>1, <1>2, <1>4, <2>1 DEF InHand
  <2>2. CASE v # w
    BY <1>2, <2>2, OthersUnchanged DEF PaidInv, InHand, Run, Failure
  <2>3. QED
    BY <2>1, <2>2
<1>7. CASE RecordError(w)
  BY <1>5, <1>6, <1>7, PaidStable DEF RecordError, PaidInv
<1>8. CASE Record(w)
  <2>1. d \in Ids /\ recorded' = [recorded EXCEPT ![d][k] = @ + 1]
    BY <1>1, <1>3, <1>8, OwnerType DEF Record
  <2>2. ASSUME NEW e \in 1 .. Len(feed), NEW m \in Meters
        PROVE  (recorded[e][m] + Cardinality(Holding(e, m)) <= again[e] + Reached(e))'
    <3>1. recorded'[e][m] = IF e = d /\ m = k THEN recorded[e][m] + 1 ELSE recorded[e][m]
      BY <2>1, PaidType DEF TypeInv, TypeOK
    <3>2. Reached(e)' = Reached(e) /\ again' = again
      BY <1>2 DEF Reached, Owner
    <3>3. recorded[e][m] + Cardinality(Holding(e, m)) <= again[e] + Reached(e)
      BY DEF PaidInv, Paid
    <3>4. /\ Cardinality(Holding(e, m)') \in Nat
          /\ Cardinality(Holding(e, m)') + (IF e = d /\ m = k THEN 1 ELSE 0)
               <= Cardinality(Holding(e, m))
      <4>1. IsFiniteSet(Holding(e, m)) /\ Cardinality(Holding(e, m)) \in Nat
        BY HoldingType
      <4>2. CASE e = d /\ m = k
        <5>1. w \in Holding(e, m) /\ Holding(e, m)' \subseteq Holding(e, m) \ {w}
          BY <1>1, <1>2, <1>3, <1>4, <1>5, <4>2 DEF Holding
        <5>2. /\ IsFiniteSet(Holding(e, m) \ {w})
              /\ Cardinality(Holding(e, m) \ {w}) = Cardinality(Holding(e, m)) - 1
          BY <4>1, <5>1, FS_RemoveElement
        <5>3. QED
          <6>1. /\ Cardinality(Holding(e, m)') \in Nat
                /\ Cardinality(Holding(e, m)') <= Cardinality(Holding(e, m) \ {w})
            BY <5>1, <5>2, SubsetCardinality
          <6>2. QED
            BY <4>1, <4>2, <5>2, <6>1
      <4>3. CASE ~(e = d /\ m = k)
        <5>1. /\ Cardinality(Holding(e, m)') \in Nat
              /\ Cardinality(Holding(e, m)') <= Cardinality(Holding(e, m))
          BY <1>5, <4>1, SubsetCardinality
        <5>2. QED
          BY <4>1, <4>3, <5>1
      <4>4. QED
        BY <4>2, <4>3
    <3>5. recorded[e][m] \in Nat /\ again[e] \in Nat /\ Cardinality(Holding(e, m)) \in Nat
      BY PaidType
    <3>6. Reached(e) \in Nat
      BY PaidType
    <3>7. recorded'[e][m] + Cardinality(Holding(e, m)') <= again[e] + Reached(e)
      <4>1. /\ (IF e = d /\ m = k THEN 1 ELSE 0) \in Nat
            /\ recorded'[e][m] = recorded[e][m] + (IF e = d /\ m = k THEN 1 ELSE 0)
        BY <3>1, <3>5
      <4>2. recorded'[e][m] \in Nat
        BY <3>5, <4>1
      <4>3. QED
        BY <3>3, <3>4, <3>5, <3>6, <4>1, <4>2, HoldsLess
    <3>8. QED
      BY <3>2, <3>7
  <2>3. Unpublished'
    BY <1>1, <1>2, <2>1 DEF PaidInv, Unpublished, TypeInv, TypeOK
  <2>4. QED
    BY <1>2, <1>6, <2>2, <2>3 DEF PaidInv, Paid
<1>9. QED
  BY <1>7, <1>8

LEMMA PaidNext == IsFiniteSet(Workers) /\ TypeInv /\ PaidInv /\ [Next]_vars => PaidInv'
<1> SUFFICES ASSUME IsFiniteSet(Workers), TypeInv, PaidInv, [Next]_vars PROVE PaidInv'
  OBVIOUS
<1>1. CASE Meanwhile
  BY <1>1, PaidMeanwhile
<1>2. ASSUME NEW w \in Workers, Lookup(w) PROVE PaidInv'
  <2>1. next[w] \in 1 .. Len(feed)
    BY <1>2 DEF Lookup, TypeInv, TypeOK, PageOK, InPage
  <2>2. /\ pc'[w] \in {"lookup", "persist", "save"}
        /\ pc'[w] = "save" => seen'[w] < next'[w]
        /\ \A v \in Workers : v # w => seen'[v] = seen[v]
    <3>1. CASE FinishEvent(w) /\ UNCHANGED seen
      BY <1>2, <3>1, FinishEventType DEF Lookup, InPage
    <3>2. CASE /\ ~AlreadyProcessed(next[w]) /\ Goto(w, "save") /\ UNCHANGED next
               /\ seen' = [seen EXCEPT ![w] = lastEvent[Owner(next[w])]]
      <4>1. lastEvent[Owner(next[w])] \in Nat
        BY <2>1, OwnerType DEF TypeInv, TypeOK
      <4>2. lastEvent[Owner(next[w])] < next[w]
        BY <2>1, <3>2, <4>1 DEF AlreadyProcessed
      <4>3. QED
        BY <3>2, <4>2 DEF Goto, TypeInv, TypeOK
    <3>3. QED
      BY <1>2, <3>1, <3>2 DEF Lookup
  <2>3. QED
    BY <1>2, <2>2, PaidQuiet DEF Lookup, Run
<1>3. ASSUME NEW w \in Workers,
             StartSync(w) \/ LookupMiss(w) \/ LookupError(w) \/ SaveError(w)
      PROVE  PaidInv'
  <2>1. pc'[w] \in {"fetch", "lookup", "persist"}
    BY <1>3, FinishEventType
    DEF StartSync, LookupMiss, LookupError, SaveError, Goto, InPage, TypeInv, TypeOK
  <2>2. UNCHANGED <<feed, rows>> /\ \A v \in Workers : v # w => seen'[v] = seen[v]
    BY <1>3 DEF StartSync, LookupMiss, LookupError, SaveError, TypeInv, TypeOK
  <2>3. QED
    BY <1>3, <2>1, <2>2, PaidQuiet DEF Run, Failure
<1>4. ASSUME NEW w \in Workers, FetchPage(w) \/ PersistCursor(w) \/ Abort(w) PROVE PaidInv'
  <2>1. pc'[w] \in {"idle", "fetch", "lookup"}
    BY <1>4 DEF FetchPage, PersistCursor, OnToNextPage, Abort, EndRun, Goto, TypeInv, TypeOK
  <2>2. UNCHANGED <<feed, rows>> /\ \A v \in Workers : v # w => seen'[v] = seen[v]
    BY <1>4 DEF FetchPage, PersistCursor, OnToNextPage, Abort, EndRun, TypeInv, TypeOK
  <2>3. QED
    BY <1>4, <2>1, <2>2, PaidQuiet DEF Run, Failure
<1>5. ASSUME NEW w \in Workers, SaveAccount(w) PROVE PaidInv'
  BY <1>5, PaidSaveAccount
<1>6. ASSUME NEW w \in Workers, Record(w) \/ RecordError(w) PROVE PaidInv'
  BY <1>6, PaidRecord
<1>7. CASE UNCHANGED vars
  BY <1>7, PaidStable DEF vars, rows, local, PaidInv, InHand, Holding
<1>8. QED
  BY <1>1, <1>2, <1>3, <1>4, <1>5, <1>6, <1>7 DEF Next, Run, Failure

(* An event is recorded once on a meter and once more for every time that  *)
(* a save of an older row opened it again, for any number of overlapping   *)
(* runs and other writers, whatever page a crash makes the next run repeat.*)
THEOREM RepeatsAreAccounted == ASSUME IsFiniteSet(Workers) PROVE Spec => []RepeatsAccounted
<1>1. TypeInv /\ PaidInv => RepeatsAccounted
  <2>1. SUFFICES ASSUME TypeInv, PaidInv, NEW e \in Ids, NEW m \in Meters
                 PROVE  recorded[e][m] <= 1 + again[e]
    BY DEF RepeatsAccounted
  <2>2. recorded[e][m] \in Nat /\ again[e] \in Nat /\ Len(feed) \in Nat
    BY <2>1 DEF TypeInv, TypeOK
  <2>a. e \in 1 .. MaxEvents
    BY DEF Ids
  <2>3. CASE e \in 1 .. Len(feed)
    <3>1. recorded[e][m] + Cardinality(Holding(e, m)) <= again[e] + Reached(e)
      BY <2>1, <2>3 DEF PaidInv, Paid
    <3>2. Reached(e) \in {0, 1} /\ Cardinality(Holding(e, m)) \in Nat
      BY ReachedType, HoldingType
    <3>3. QED
      BY <2>2, <3>1, <3>2
  <2>4. CASE e \notin 1 .. Len(feed)
    <3>1. e > Len(feed)
      BY <2>2, <2>a, <2>4
    <3>2. recorded[e][m] = 0
      BY <2>1, <3>1 DEF PaidInv, Unpublished
    <3>3. QED
      BY <2>2, <3>2
  <2>5. QED
    BY <2>3, <2>4
<1>2. IsFiniteSet(Workers)
  OBVIOUS
<1>3. TypeInv /\ PaidInv /\ [Next]_vars => PaidInv'
  BY <1>2, PaidNext
<1>4. QED
  BY <1>1, <1>3, TypeInvInit, TypeInvNext, PaidInit, PTL DEF Spec

-----------------------------------------------------------------------------
(* A single run's cursor in memory is the global one.                      *)
InStep == \A w \in Workers : pc[w] # "idle" => pos[w] = cursor

LEMMA InStepNext == OneAtATime /\ TypeInv /\ InStep /\ [Next]_vars => InStep'
<1> SUFFICES ASSUME OneAtATime, TypeInv, InStep, [Next]_vars PROVE InStep'
  OBVIOUS
<1>1. CASE Meanwhile \/ UNCHANGED vars
  BY <1>1 DEF Meanwhile, Publish, Link, ReadRow, SaveRow, DropRow, vars, local, InStep
<1>2. ASSUME NEW w \in Workers, pc'[w] # "idle" => pos'[w] = cursor' PROVE InStep'
  BY <1>2 DEF InStep, OneAtATime
<1>3. ASSUME NEW w \in Workers, StartSync(w) PROVE InStep'
  BY <1>2, <1>3 DEF StartSync, TypeInv, TypeOK
<1>4. ASSUME NEW w \in Workers, FetchPage(w) \/ Abort(w) PROVE InStep'
  BY <1>2, <1>4 DEF FetchPage, Abort, EndRun, Goto, InStep, TypeInv, TypeOK
<1>5. ASSUME NEW w \in Workers, PersistCursor(w) PROVE InStep'
  BY <1>2, <1>5 DEF PersistCursor, OnToNextPage, EndRun, Goto, TypeInv, TypeOK
<1>6. ASSUME NEW w \in Workers, pc[w] # "idle", UNCHANGED <<pos, cursor>> PROVE InStep'
  BY <1>2, <1>6 DEF InStep
<1>7. QED
  BY <1>1, <1>3, <1>4, <1>5, <1>6
  DEF Next, Run, Failure, Lookup, LookupMiss, LookupError, SaveAccount, SaveError, Record,
      RecordError

(* While runs do not overlap, the global cursor never moves back.          *)
THEOREM CursorNeverRegresses == ASSUME OneAtATime PROVE Spec => CursorAdvances
<1>1. TypeInv /\ InStep /\ [Next]_vars => [cursor' >= cursor]_vars
  <2>1. SUFFICES ASSUME TypeInv, InStep, [Next]_vars PROVE cursor' >= cursor
    OBVIOUS
  <2>2. cursor \in Nat /\ Len(feed) \in Nat
    BY <2>1 DEF TypeInv, TypeOK
  <2>3. ASSUME NEW w \in Workers, PersistCursor(w) PROVE cursor' >= cursor
    <3>1. pos[w] = cursor /\ cursor' = last[w]
      BY <2>1, <2>3 DEF PersistCursor, InStep
    <3>2. pos[w] < last[w] /\ last[w] \in Nat
      BY <2>1, <2>2, <2>3 DEF PersistCursor, TypeInv, TypeOK, PageOK, InPage
    <3>3. QED
      BY <2>2, <3>1, <3>2
  <2>4. CASE UNCHANGED cursor
    BY <2>2, <2>4
  <2>5. QED
    BY <2>1, <2>3, <2>4
    DEF Next, vars, Meanwhile, Publish, Link, ReadRow, SaveRow, DropRow, Run, Failure,
        StartSync, FetchPage, Lookup, LookupMiss, LookupError, SaveAccount, SaveError,
        Record, RecordError, Abort
<1>2. Init => InStep
  BY DEF Init, InStep
<1>3. TypeInv /\ InStep /\ [Next]_vars => InStep'
  BY InStepNext
<1>4. QED
  BY <1>1, <1>2, <1>3, TypeInvInit, TypeInvNext, PTL DEF Spec, CursorAdvances

-----------------------------------------------------------------------------
(* What a single run may count on when it records: the meters in hand are  *)
(* open, and so are the same user's later events.                          *)
Due(w) ==
  pc[w] = "record" =>
    /\ \A m \in todo[w] : recorded[next[w]][m] <= again[next[w]]
    /\ \A f \in 1 .. Len(feed), n \in Meters :
         f > next[w] /\ Owner(f) = Owner(next[w]) => recorded[f][n] <= again[f]

LedgerInv == PaidInv /\ InStep /\ \A w \in Workers : Due(w)

(* again only grows.                                                       *)
LEMMA AgainGrows ==
  ASSUME TypeInv, PaidInv, [Next]_vars, NEW e \in Ids
  PROVE  again[e] \in Nat /\ again'[e] \in Nat /\ again'[e] >= again[e]
<1>1. again[e] \in Nat
  BY DEF TypeInv, TypeOK
<1>2. CASE UNCHANGED again
  BY <1>1, <1>2
<1>3. ASSUME NEW events, CountAgain(events) PROVE again'[e] \in Nat /\ again'[e] >= again[e]
  BY <1>1, <1>3 DEF CountAgain
<1>4. QED
  BY <1>1, <1>2, <1>3
  DEF Next, vars, rows, Meanwhile, Publish, Link, ReadRow, SaveRow, DropRow, Run, Failure,
      StartSync, FetchPage, Lookup, LookupMiss, LookupError, SaveAccount, SaveError,
      Record, RecordError, PersistCursor, Abort

(* Right after the save, from what has been paid.                          *)
LEMMA DueAfterSave ==
  ASSUME TypeInv, TypeInv', PaidInv, PaidInv', IsFiniteSet(Workers),
         NEW w \in Workers, SaveAccount(w)
  PROVE  Due(w)'
<1>1. SUFFICES ASSUME pc'[w] = "record" PROVE Due(w)'
  BY DEF Due
<1>2. PICK d \in 1 .. Len(feed) : d = next[w]
  BY DEF SaveAccount, TypeInv, TypeOK, PageOK, InPage
<1>3. /\ pc[w] = "save" /\ next'[w] = d /\ todo'[w] = feed[d].bytes /\ feed' = feed
      /\ seen[w] < next[w]
  <2>1. pc[w] = "save" /\ todo'[w] = feed[d].bytes /\ feed' = feed /\ seen[w] < next[w]
    BY <1>2 DEF SaveAccount, PaidInv, InHand, TypeInv, TypeOK
  <2>2. ~FinishEvent(w)
    BY <1>1, <2>1, FinishEventType DEF InPage
  <2>3. QED
    BY <1>2, <2>1, <2>2 DEF SaveAccount
<1>4. ASSUME NEW m \in todo'[w] PROVE recorded'[d][m] <= again'[d]
  <2>1. m \in Meters
    BY <1>3, <1>4, OwnerType
  <2>2. /\ recorded'[d][m] \in Nat /\ again'[d] \in Nat
        /\ recorded'[d][m] + Cardinality(Holding(d, m)') <= again'[d] + Reached(d)'
    BY <1>3, <2>1, OwnerType DEF PaidInv, Paid, TypeInv, TypeOK
  <2>3. IsFiniteSet(Holding(d, m)') /\ w \in Holding(d, m)'
    <3>1. Holding(d, m)' \subseteq Workers /\ w \in Holding(d, m)'
      BY <1>1, <1>3, <1>4 DEF Holding
    <3>2. QED
      BY <3>1, FS_Subset
  <2>4. Cardinality(Holding(d, m)') \in Nat /\ Cardinality(Holding(d, m)') # 0
    BY <2>3, FS_CardinalityType, FS_EmptySet
  <2>5. Reached(d)' \in {0, 1}
    BY DEF Reached
  <2>6. QED
    BY <2>2, <2>4, <2>5
<1>5. ASSUME NEW f \in 1 .. Len(feed), NEW n \in Meters, f > d, Owner(f) = Owner(d)
      PROVE  recorded'[f][n] <= again'[f]
  <2>1. Reached(f)' = 0
    BY <1>2, <1>3, <1>5, SaveAccountPays
  <2>2. /\ recorded'[f][n] \in Nat /\ again'[f] \in Nat
        /\ recorded'[f][n] + Cardinality(Holding(f, n)') <= again'[f] + Reached(f)'
    BY <1>3, OwnerType DEF PaidInv, Paid, TypeInv, TypeOK
  <2>3. Cardinality(Holding(f, n)') \in Nat
    <3>1. Holding(f, n)' \subseteq Workers
      BY DEF Holding
    <3>2. QED
      BY <3>1, SubsetCardinality
  <2>4. QED
    BY <2>1, <2>2, <2>3
<1>6. QED
  BY <1>2, <1>3, <1>4, <1>5 DEF Due, Owner

(* Whatever else happens while the event is in hand keeps it due.          *)
LEMMA DueStable ==
  ASSUME TypeInv, PaidInv, [Next]_vars, UNCHANGED recorded,
         NEW w \in Workers, Due(w),
         pc'[w] = "record" => pc[w] = "record" /\ next'[w] = next[w] /\ todo'[w] \subseteq todo[w]
  PROVE  Due(w)'
<1>1. SUFFICES ASSUME pc'[w] = "record" PROVE Due(w)'
  BY DEF Due
<1>2. PICK d \in 1 .. Len(feed) : d = next[w]
  BY <1>1 DEF TypeInv, TypeOK, PageOK, InPage
<1>3. pc[w] = "record" /\ next'[w] = d /\ todo'[w] \subseteq todo[w] /\ todo[w] \subseteq Meters
  BY <1>1, <1>2 DEF TypeInv, TypeOK
<1>4. d \in Ids /\ \A f \in 1 .. Len(feed) : f \in Ids /\ feed'[f] = feed[f]
  BY FeedGrows, OwnerType
<1>5. ASSUME NEW e \in Ids, NEW m \in Meters, recorded[e][m] <= again[e]
      PROVE  recorded'[e][m] <= again'[e]
  <2>1. recorded[e][m] \in Nat
    BY DEF TypeInv, TypeOK
  <2>2. QED
    BY <1>5, <2>1, AgainGrows
<1>6. \A m \in todo'[w] : recorded'[d][m] <= again'[d]
  BY <1>2, <1>3, <1>4, <1>5 DEF Due
<1>7. ASSUME NEW f \in 1 .. Len(feed'), NEW n \in Meters, f > d, Owner(f)' = Owner(d)'
      PROVE  recorded'[f][n] <= again'[f]
  <2>1. CASE f \in 1 .. Len(feed)
    <3>1. Owner(f) = Owner(d)
      BY <1>4, <1>7, <2>1 DEF Owner
    <3>2. QED
      BY <1>2, <1>3, <1>4, <1>5, <1>7, <2>1, <3>1 DEF Due
  <2>2. CASE f \notin 1 .. Len(feed)
    <3>1. TypeInv'
      BY TypeInvNext
    <3>2. f \in Ids /\ f > Len(feed)
      BY <2>2, <3>1, FundingSyncAssumption, FeedGrows DEF TypeInv, TypeOK, Ids
    <3>3. recorded[f][n] = 0 /\ again'[f] \in Nat
      BY <3>2, AgainGrows DEF PaidInv, Unpublished
    <3>4. QED
      BY <3>3
  <2>3. QED
    BY <2>1, <2>2
<1>8. QED
  BY <1>3, <1>6, <1>7 DEF Due

LEMMA DueRecord ==
  ASSUME TypeInv, PaidInv, NEW w \in Workers, Due(w), Record(w)
  PROVE  Due(w)'
<1>1. SUFFICES ASSUME pc'[w] = "record" PROVE Due(w)'
  BY DEF Due
<1>2. PICK d \in 1 .. Len(feed) : d = next[w]
  BY DEF Record, TypeInv, TypeOK, PageOK, InPage
<1>3. /\ pc[w] = "record" /\ UNCHANGED <<feed, again>> /\ todo[w] # {}
      /\ todo[w] \subseteq {"upload", "download"}
  BY DEF Record, PaidInv, InHand, TypeInv, TypeOK, Meters
<1>4. PICK k \in Meters : k = NextMeter(w) /\ k \in todo[w]
  BY <1>3 DEF NextMeter, Meters
<1>5. todo'[w] = todo[w] \ {k} /\ next'[w] = d
  <2>1. ~FinishEvent(w)
    BY <1>1, <1>3, FinishEventType DEF InPage
  <2>2. QED
    BY <1>2, <1>4, <2>1 DEF Record, MeterDone, TypeInv, TypeOK
<1>6. d \in Ids /\ recorded' = [recorded EXCEPT ![d][k] = @ + 1]
  BY <1>2, <1>4, OwnerType DEF Record
<1>7. \A f \in Ids, n \in Meters : f # d \/ n # k => recorded'[f][n] = recorded[f][n]
  BY <1>6 DEF TypeInv, TypeOK
<1>8. \A m \in todo'[w] : recorded'[d][m] <= again'[d]
  BY <1>2, <1>3, <1>5, <1>6, <1>7 DEF Due, Meters
<1>9. ASSUME NEW f \in 1 .. Len(feed), NEW n \in Meters, f > d, Owner(f) = Owner(d)
      PROVE  recorded'[f][n] <= again'[f]
  <2>1. f # d /\ f \in Ids
    BY <1>2, <1>9, OwnerType
  <2>2. QED
    BY <1>2, <1>3, <1>7, <1>9, <2>1 DEF Due
<1>10. QED
  BY <1>3, <1>5, <1>8, <1>9 DEF Due, Owner

LEMMA OneIsFinite == OneAtATime => IsFiniteSet(Workers)
<1>1. SUFFICES ASSUME OneAtATime PROVE IsFiniteSet(Workers)
  OBVIOUS
<1>2. CASE Workers = {}
  BY <1>2, FS_EmptySet
<1>3. CASE Workers # {}
  <2>1. PICK w : Workers = {w}
    BY <1>1, <1>3 DEF OneAtATime
  <2>2. QED
    BY <2>1, FS_Singleton
<1>4. QED
  BY <1>2, <1>3

LEMMA LedgerInvNext == OneAtATime /\ TypeInv /\ LedgerInv /\ [Next]_vars => LedgerInv'
<1> SUFFICES ASSUME OneAtATime, TypeInv, LedgerInv, [Next]_vars PROVE LedgerInv'
  OBVIOUS
<1>1. PaidInv' /\ InStep' /\ TypeInv' /\ IsFiniteSet(Workers)
  BY OneIsFinite, PaidNext, InStepNext, TypeInvNext DEF LedgerInv
<1>2. ASSUME NEW w \in Workers, Due(w)' PROVE LedgerInv'
  BY <1>1, <1>2 DEF LedgerInv, OneAtATime
<1>3. PaidInv /\ \A w \in Workers : Due(w)
  BY DEF LedgerInv
<1>4. CASE Meanwhile \/ UNCHANGED vars
  <2>1. UNCHANGED <<local, recorded>>
    BY <1>4 DEF Meanwhile, Publish, Link, ReadRow, SaveRow, DropRow, rows, vars
  <2>2. \A w \in Workers : Due(w)'
    BY <1>3, <2>1, DueStable DEF local
  <2>3. QED
    BY <1>1, <2>2 DEF LedgerInv
<1>5. ASSUME NEW w \in Workers, SaveAccount(w) PROVE LedgerInv'
  BY <1>1, <1>2, <1>3, <1>5, DueAfterSave
<1>6. ASSUME NEW w \in Workers, Record(w) PROVE LedgerInv'
  BY <1>2, <1>3, <1>6, DueRecord
<1>7. ASSUME NEW w \in Workers, RecordError(w) PROVE LedgerInv'
  <2>1. /\ UNCHANGED recorded /\ pc[w] = "record"
        /\ pc'[w] = "record" => next'[w] = next[w] /\ todo'[w] \subseteq todo[w]
    <3>1. UNCHANGED recorded /\ pc[w] = "record" /\ todo'[w] \subseteq todo[w]
      BY <1>7 DEF RecordError, MeterDone, rows, TypeInv, TypeOK
    <3>2. CASE FinishEvent(w)
      BY <3>1, <3>2, FinishEventType DEF InPage
    <3>3. CASE UNCHANGED <<pc, next>>
      BY <3>1, <3>3
    <3>4. QED
      BY <1>7, <3>2, <3>3 DEF RecordError, MeterDone
  <2>2. QED
    BY <1>2, <1>3, <2>1, DueStable
<1>8. ASSUME NEW w \in Workers, pc'[w] # "record" PROVE LedgerInv'
  BY <1>2, <1>8 DEF Due
<1>9. ASSUME NEW w \in Workers,
             StartSync(w) \/ FetchPage(w) \/ PersistCursor(w) \/ Abort(w)
      PROVE  LedgerInv'
  BY <1>8, <1>9
  DEF StartSync, FetchPage, PersistCursor, OnToNextPage, Abort, EndRun, Goto, TypeInv, TypeOK
<1>10. ASSUME NEW w \in Workers,
              Lookup(w) \/ LookupMiss(w) \/ LookupError(w) \/ SaveError(w)
       PROVE  LedgerInv'
  <2>1. pc[w] \in InPage /\ (FinishEvent(w) \/ Goto(w, "save"))
    BY <1>10 DEF Lookup, LookupMiss, LookupError, SaveError, InPage
  <2>2. pc'[w] # "record"
    BY <2>1, FinishEventType DEF Goto, TypeInv, TypeOK
  <2>3. QED
    BY <1>8, <2>2
<1>11. QED
  BY <1>4, <1>5, <1>6, <1>7, <1>9, <1>10 DEF Next, Run, Failure

-----------------------------------------------------------------------------
(* A save that opens events again is the ledger's Reopen.                  *)
LEMMA ReopenStep ==
  ASSUME TypeInv, NEW u \in Users, NEW after \in 0 .. Len(feed), NEW upto \in 0 .. Len(feed),
         \A e \in Ids : again'[e] = IF e \in Reopened(u, after, upto)
                                    THEN again[e] + 1 ELSE again[e],
         again' \in [Ids -> Nat], UNCHANGED <<feed, cursor, recorded>>
  PROVE  Ledger!Reopen
<1>1. again' = [e \in Ids |-> IF e \in 1 .. Len(feed) /\ Owner(e) = u /\ after < e /\ e <= upto
                              THEN again[e] + 1 ELSE again[e]]
  BY DEF Reopened
<1>2. QED
  BY <1>1 DEF Ledger!Reopen, Ledger!Ids, Ledger!Owner, Ids, Owner

LEMMA LedgerStep ==
  ASSUME OneAtATime, TypeInv, LedgerInv, [Next]_vars
  PROVE  [Ledger!Next]_(Ledger!vars)
<1>0. Len(feed) \in Nat
  BY FeedGrows
<1>1. CASE Publish
  <2>1. Ledger!Publish
    BY <1>1 DEF Publish, rows, Ledger!Publish, Ledger!Event, Ledger!Meters, Event, Meters
  <2>2. QED
    BY <2>1 DEF Ledger!Next
<1>2. CASE UNCHANGED <<feed, cursor, recorded, again>>
  BY <1>2 DEF Ledger!vars
<1>3. ASSUME NEW v \in Writers, SaveRow(v) PROVE Ledger!Next
  <2>1. copy[v] \in Row /\ copy[v].mark <= Len(feed)
    BY <1>3 DEF SaveRow, TypeInv, TypeOK
  <2>2. copy[v].user \in Users /\ copy[v].mark \in 0 .. Len(feed)
    BY <1>0, <2>1 DEF Row
  <2>3. lastEvent[copy[v].user] \in 0 .. Len(feed)
    BY <2>2 DEF TypeInv, TypeOK
  <2>4. /\ CountAgain(Reopened(copy[v].user, copy[v].mark, lastEvent[copy[v].user]))
        /\ UNCHANGED <<feed, cursor, recorded>>
    BY <1>3 DEF SaveRow
  <2>5. again' \in [Ids -> Nat]
    BY <2>4, CountAgainType
  <2>6. Ledger!Reopen
    BY <2>2, <2>3, <2>4, <2>5, ReopenStep DEF CountAgain
  <2>7. QED
    BY <2>6 DEF Ledger!Next
<1>4. ASSUME NEW w \in Workers, SaveAccount(w) PROVE Ledger!Next
  <2> DEFINE d == next[w]
             u == Owner(d)
  <2>1. /\ d \in 1 .. Len(feed) /\ seen[w] \in Nat /\ seen[w] < d
    BY <1>4 DEF SaveAccount, LedgerInv, PaidInv, InHand, TypeInv, TypeOK, PageOK, InPage
  <2>2. u \in Users /\ d - 1 \in 0 .. Len(feed)
    BY <1>0, <2>1, OwnerType
  <2>3. lastEvent[u] \in 0 .. Len(feed)
    BY <2>2 DEF TypeInv, TypeOK
  <2>4. /\ CountAgain(Reopened(u, seen[w], lastEvent[u]) \ 1 .. d - 1)
        /\ UNCHANGED <<feed, cursor, recorded>>
    BY <1>4 DEF SaveAccount
  <2>5. again' \in [Ids -> Nat]
    BY <2>4, CountAgainType
  <2>6. Reopened(u, seen[w], lastEvent[u]) \ 1 .. d - 1 = Reopened(u, d - 1, lastEvent[u])
    BY <1>0, <2>1, <2>2, <2>3 DEF Reopened
  <2>7. Ledger!Reopen
    <3>1. \A e \in Ids : again'[e] = IF e \in Reopened(u, d - 1, lastEvent[u])
                                     THEN again[e] + 1 ELSE again[e]
      BY <2>4, <2>6 DEF CountAgain
    <3> HIDE DEF u, d
    <3>2. QED
      BY <2>2, <2>3, <2>4, <2>5, <3>1, ReopenStep
  <2>8. QED
    BY <2>7 DEF Ledger!Next
<1>5. ASSUME NEW w \in Workers, Record(w) PROVE Ledger!Next
  <2>1. PICK e \in 1 .. Len(feed) : e = next[w]
    BY <1>0, <1>5 DEF Record, TypeInv, TypeOK, PageOK, InPage
  <2>2. /\ pc[w] = "record" /\ todo[w] # {} /\ todo[w] \subseteq {"upload", "download"}
        /\ todo[w] \subseteq feed[e].bytes /\ pos[w] = cursor
    BY <1>5, <2>1 DEF Record, Meters, LedgerInv, InStep, PaidInv, InHand, TypeInv, TypeOK
  <2>3. PICK m \in Meters : m = NextMeter(w) /\ m \in todo[w]
    BY <2>2 DEF NextMeter, Meters
  <2>4. recorded' = [recorded EXCEPT ![e][m] = @ + 1] /\ UNCHANGED <<feed, cursor, again>>
    BY <1>5, <2>1, <2>3 DEF Record
  <2>5. cursor < e
    BY <2>1, <2>2 DEF TypeInv, PageOK, InPage
  <2>6. /\ recorded[e][m] <= again[e]
        /\ \A f \in e + 1 .. Len(feed), n \in Meters : Owner(f) = Owner(e) => recorded[f][n] <= again[f]
    BY <1>0, <2>1, <2>2, <2>3 DEF LedgerInv, Due
  <2>7. Ledger!Bill(e, m)
    BY <2>2, <2>3, <2>4, <2>5, <2>6
    DEF Ledger!Bill, Ledger!Open, Ledger!Owner, Ledger!Meters, Meters, Owner
  <2>8. QED
    BY <2>7 DEF Ledger!Next, Ledger!Meters, Meters
<1>6. ASSUME NEW w \in Workers, PersistCursor(w) PROVE Ledger!Next
  <2>1. pos[w] = cursor
    BY <1>6 DEF PersistCursor, LedgerInv, InStep
  <2>2. /\ pos[w] < last[w] /\ last[w] <= pos[w] + PageSize
        /\ last[w] \in 0 .. Len(feed) /\ cursor \in Nat
    BY <1>0, <1>6 DEF PersistCursor, TypeInv, TypeOK, PageOK, InPage
  <2>3. cursor' = last[w] /\ UNCHANGED <<feed, recorded, again>>
    BY <1>6 DEF PersistCursor, rows
  <2>4. Ledger!Advance
    BY <1>0, <2>1, <2>2, <2>3, FundingSyncAssumption DEF Ledger!Advance
  <2>5. QED
    BY <2>4 DEF Ledger!Next
<1>7. QED
  BY <1>1, <1>2, <1>3, <1>4, <1>5, <1>6
  DEF Next, Meanwhile, Link, ReadRow, DropRow, vars, rows, Run, Failure, StartSync, FetchPage,
      Lookup, LookupMiss, LookupError, SaveError, RecordError, Abort

(* While runs do not overlap, the sync implements the ledger, whatever the *)
(* other writers of the account rows do.                                   *)
THEOREM SyncImplementsLedger == ASSUME OneAtATime PROVE Spec => ImplementsLedger
<1>1. Init => Ledger!Init /\ LedgerInv
  <2>1. Init => Ledger!Init
    BY DEF Init, Ledger!Init, Ledger!Ids, Ledger!Meters, Ids, Meters
  <2>2. Init => InStep /\ \A w \in Workers : Due(w)
    BY DEF Init, InStep, Due
  <2>3. QED
    BY <2>1, <2>2, PaidInit DEF LedgerInv
<1>2. LedgerInv /\ TypeInv /\ [Next]_vars => LedgerInv'
  BY LedgerInvNext
<1>3. TypeInv /\ LedgerInv /\ [Next]_vars => [Ledger!Next]_(Ledger!vars)
  BY LedgerStep
<1>4. QED
  BY <1>1, <1>2, <1>3, TypeInvInit, TypeInvNext, PTL
  DEF Spec, ImplementsLedger, Ledger!Spec
=============================================================================
