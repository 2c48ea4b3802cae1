--------------------------- MODULE ReservationsProofs ---------------------------
(***************************************************************************)
(* Proofs about Reservations, for any number of overlapping pins and views *)
(* of the connect page, any prunes, limits, slabs, traffic and faults.     *)
(***************************************************************************)
EXTENDS Reservations, FiniteSetTheorems, TLAPS

FinitelyMany == IsFiniteSet(Procs)

(* What a request p at a step holds: reservations T, for slab s.           *)
LocalOK(p, step, T, s) ==
  /\ step = "idle" => T = {}
  /\ step \in {"proxy", "check", "upload", "pin"} =>
       p \in Pinners /\ T = {"storage"} /\ s \in Slabs
  /\ step = "download" => p \in Pages /\ T \subseteq {"upload"}
  /\ step = "answer" => p \in Pages /\ T \subseteq {"upload", "download"}

LocalsOK == \A p \in Procs : LocalOK(p, pc[p], tickets[p], slab[p])

(* Every pin is charged, or about to be, or its reservation was lost, or a *)
(* surplus unpinned event took its charge away; and what is charged and    *)
(* reserved stays within the limit.                                        *)
Covered ==
  /\ IsFiniteSet(pins)
  /\ Cardinality(pins) + refunds <= used["storage"] + owed + orphaned["storage"] + surplus
  /\ used["storage"] + reserved["storage"] <= Limit["storage"]

Inv == TypeOK /\ LocalsOK /\ ReservationsAccounted /\ Covered

RunsOK ==
  /\ pc \in [Procs -> Steps] /\ slab \in [Procs -> Slabs \cup {None}]
  /\ tickets \in [Procs -> SUBSET Kinds]
CountsOK ==
  /\ used \in [Kinds -> Nat] /\ reserved \in [Kinds -> Nat]
  /\ owed \in Nat /\ refunds \in Nat /\ orphaned \in [Kinds -> Nat]
PrunesOK ==
  victim \in [Prunes -> Slabs \cup {None, Gone}] /\ surplus \in 0 .. MaxSurplus

LEMMA TypeParts ==
  TypeOK <=> RunsOK /\ CountsOK /\ PrunesOK /\ pins \subseteq Slabs /\ faults \in 0 .. MaxFaults
BY DEF TypeOK, RunsOK, CountsOK, PrunesOK

LEMMA TypePartsNext ==
  TypeOK' <=> RunsOK' /\ CountsOK' /\ PrunesOK' /\ pins' \subseteq Slabs /\ faults' \in 0 .. MaxFaults
BY DEF TypeOK, RunsOK, CountsOK, PrunesOK

LEMMA SurplusTyped == Inv => surplus \in Nat
BY ReservationsAssumption DEF Inv, TypeOK

LEMMA FaultTyped == TypeOK /\ (Fault \/ UNCHANGED faults) => faults' \in 0 .. MaxFaults
BY ReservationsAssumption DEF TypeOK, Fault

One(b) == IF b THEN 1 ELSE 0

LEMMA HoldersFinite ==
  ASSUME FinitelyMany, NEW k
  PROVE  IsFiniteSet(HoldersOf(k)) /\ Cardinality(HoldersOf(k)) \in Nat
BY FS_Subset, FS_CardinalityType DEF HoldersOf, FinitelyMany

(* The step of one request changes who holds a reservation by that request.*)
LEMMA HoldersMove ==
  ASSUME FinitelyMany, TypeOK, NEW p \in Procs, NEW T \in SUBSET Kinds,
         tickets' = [tickets EXCEPT ![p] = T], NEW k \in Kinds
  PROVE  /\ IsFiniteSet(HoldersOf(k)) /\ Cardinality(HoldersOf(k)) \in Nat
         /\ Cardinality(HoldersOf(k)') \in Nat
         /\ Cardinality(HoldersOf(k)') =
              Cardinality(HoldersOf(k)) + One(k \in T) - One(k \in tickets[p])
<1>1. tickets \in [Procs -> SUBSET Kinds]
  BY DEF TypeOK
<1>2. IsFiniteSet(HoldersOf(k)) /\ Cardinality(HoldersOf(k)) \in Nat
  BY FS_Subset, FS_CardinalityType DEF HoldersOf, FinitelyMany
<1>3. p \in HoldersOf(k) <=> k \in tickets[p]
  BY DEF HoldersOf
<1> DEFINE H == HoldersOf(k)
           N == HoldersOf(k)'
<1>4. CASE k \in T
  <2>1. N = H \cup {p} /\ One(k \in T) = 1
    BY <1>1, <1>4 DEF HoldersOf, One
  <2>2. One(k \in tickets[p]) = IF p \in H THEN 1 ELSE 0
    BY <1>3 DEF One
  <2> HIDE DEF H, N, One
  <2>3. Cardinality(N) = IF p \in H THEN Cardinality(H) ELSE Cardinality(H) + 1
    BY <1>2, <2>1, FS_AddElement DEF H
  <2>4. Cardinality(N) \in Nat /\ Cardinality(N) = Cardinality(H) + One(k \in T) - One(k \in tickets[p])
    BY <1>2, <2>1, <2>2, <2>3 DEF H
  <2>5. QED
    BY <1>2, <2>4 DEF H, N
<1>5. CASE k \notin T
  <2>1. N = H \ {p} /\ One(k \in T) = 0
    BY <1>1, <1>5 DEF HoldersOf, One
  <2>2. One(k \in tickets[p]) = IF p \in H THEN 1 ELSE 0
    BY <1>3 DEF One
  <2> HIDE DEF H, N, One
  <2>3. /\ IsFiniteSet(N)
        /\ Cardinality(N) = IF p \in H THEN Cardinality(H) - 1 ELSE Cardinality(H)
    BY <1>2, <2>1, FS_RemoveElement DEF H
  <2>4. Cardinality(N) \in Nat /\ Cardinality(N) = Cardinality(H) + One(k \in T) - One(k \in tickets[p])
    BY <1>2, <2>1, <2>2, <2>3, FS_CardinalityType DEF H
  <2>5. QED
    BY <1>2, <2>4 DEF H, N
<1>6. QED
  BY <1>2, <1>4, <1>5

(* A step that keeps the books: what it adds to the reservations, less     *)
(* what goes to events and to nobody, is what the request takes up.        *)
LEMMA Books ==
  ASSUME FinitelyMany, Inv, NEW p \in Procs, NEW T \in SUBSET Kinds,
         tickets' = [tickets EXCEPT ![p] = T],
         NEW r \in [Kinds -> Int], reserved' = r,
         owed' \in Nat, orphaned' \in [Kinds -> Nat],
         \A k \in Kinds : r[k] - OwedOf(k)' - orphaned'[k] =
            reserved[k] - OwedOf(k) - orphaned[k] + One(k \in T) - One(k \in tickets[p])
  PROVE  ReservationsAccounted' /\ reserved' \in [Kinds -> Nat]
<1>1. ASSUME NEW k \in Kinds
      PROVE  /\ reserved'[k] = Cardinality(HoldersOf(k)') + OwedOf(k)' + orphaned'[k]
             /\ reserved'[k] \in Nat
  <2>1. /\ Cardinality(HoldersOf(k)) \in Nat /\ Cardinality(HoldersOf(k)') \in Nat
        /\ Cardinality(HoldersOf(k)') =
             Cardinality(HoldersOf(k)) + One(k \in T) - One(k \in tickets[p])
    BY HoldersMove DEF Inv
  <2>2. reserved[k] = Cardinality(HoldersOf(k)) + OwedOf(k) + orphaned[k]
    BY DEF Inv, ReservationsAccounted
  <2>3. OwedOf(k) \in Nat /\ OwedOf(k)' \in Nat /\ orphaned[k] \in Nat /\ orphaned'[k] \in Nat
    BY DEF OwedOf, Inv, TypeOK
  <2>4. One(k \in T) \in Nat /\ One(k \in tickets[p]) \in Nat /\ r[k] \in Int
    BY DEF One
  <2>5. reserved'[k] - OwedOf(k)' - orphaned'[k] =
          reserved[k] - OwedOf(k) - orphaned[k] + One(k \in T) - One(k \in tickets[p])
    OBVIOUS
  <2> HIDE DEF One, OwedOf
  <2>6. reserved'[k] = Cardinality(HoldersOf(k)') + OwedOf(k)' + orphaned'[k]
    BY <2>1, <2>2, <2>3, <2>4, <2>5
  <2>7. QED
    BY <2>1, <2>3, <2>6
<1>2. ReservationsAccounted'
  BY <1>1 DEF ReservationsAccounted
<1>3. QED
  BY <1>1, <1>2

LEMMA Locals ==
  ASSUME Inv, NEW p \in Procs, NEW step \in Steps, NEW T \in SUBSET Kinds,
         NEW s \in Slabs \cup {None},
         Goto(p, step), tickets' = [tickets EXCEPT ![p] = T],
         slab' = [slab EXCEPT ![p] = s], LocalOK(p, step, T, s)
  PROVE  LocalsOK' /\ RunsOK'
<1>1. /\ pc \in [Procs -> Steps] /\ slab \in [Procs -> Slabs \cup {None}]
      /\ tickets \in [Procs -> SUBSET Kinds]
  BY DEF Inv, TypeOK
<1>2. RunsOK'
  BY <1>1 DEF Goto, RunsOK
<1>3. ASSUME NEW x \in Procs PROVE LocalOK(x, pc'[x], tickets'[x], slab'[x])
  <2>1. CASE x = p
    BY <1>1, <2>1 DEF Goto
  <2>2. CASE x # p
    <3>1. pc'[x] = pc[x] /\ tickets'[x] = tickets[x] /\ slab'[x] = slab[x]
      BY <1>1, <2>2 DEF Goto
    <3>2. QED
      BY <3>1 DEF Inv, LocalsOK
  <2>3. QED
    BY <2>1, <2>2
<1>4. QED
  BY <1>2, <1>3 DEF LocalsOK

(* A step of one request that leaves pins and charges alone.               *)
LEMMA Quiet ==
  ASSUME FinitelyMany, Inv, NEW p \in Procs, NEW step \in Steps, NEW T \in SUBSET Kinds,
         NEW s \in Slabs \cup {None},
         Goto(p, step), tickets' = [tickets EXCEPT ![p] = T],
         slab' = [slab EXCEPT ![p] = s], LocalOK(p, step, T, s),
         UNCHANGED <<used, owed, refunds, pins, victim, surplus, orphaned>>,
         Fault \/ UNCHANGED faults,
         NEW r \in [Kinds -> Int], reserved' = r,
         \A k \in Kinds : r[k] = reserved[k] + One(k \in T) - One(k \in tickets[p]),
         used["storage"] + r["storage"] <= Limit["storage"]
  PROVE  Inv'
<1>1. LocalsOK' /\ RunsOK'
  BY Locals
<1>2. /\ used \in [Kinds -> Nat] /\ owed \in Nat /\ refunds \in Nat /\ pins \subseteq Slabs
      /\ orphaned \in [Kinds -> Nat] /\ reserved \in [Kinds -> Nat]
  BY DEF Inv, TypeOK
<1>3. \A k \in Kinds : One(k \in T) \in Nat /\ One(k \in tickets[p]) \in Nat
                       /\ OwedOf(k) \in Nat /\ OwedOf(k)' = OwedOf(k)
  BY <1>2 DEF One, OwedOf
<1>4. \A k \in Kinds : r[k] - OwedOf(k)' - orphaned'[k] =
         reserved[k] - OwedOf(k) - orphaned[k] + One(k \in T) - One(k \in tickets[p])
  <2> HIDE DEF One, OwedOf
  <2>1. QED
    BY <1>2, <1>3
<1>5. ReservationsAccounted' /\ reserved' \in [Kinds -> Nat]
  BY <1>2, <1>4, Books
<1>6. TypeOK'
  <2>1. PrunesOK'
    BY DEF Inv, TypeOK, PrunesOK
  <2>2. QED
    BY <1>1, <1>2, <1>5, <2>1, FaultTyped, TypePartsNext DEF CountsOK, Inv
<1>7. Covered'
  BY DEF Covered, Inv
<1>8. QED
  BY <1>1, <1>5, <1>6, <1>7 DEF Inv

LEMMA StorageKind == "storage" \in Kinds /\ "upload" \in Kinds /\ "download" \in Kinds
BY DEF Kinds

LEMMA ReserveStep ==
  ASSUME FinitelyMany, Inv, NEW p \in Procs, NEW k \in Kinds, NEW step \in Steps,
         NEW s \in Slabs \cup {None},
         Reserve(p, k), k \notin tickets[p], Goto(p, step), slab' = [slab EXCEPT ![p] = s],
         LocalOK(p, step, tickets[p] \cup {k}, s),
         UNCHANGED <<used, owed, refunds, pins, victim, surplus, orphaned, faults>>
  PROVE  Inv'
<1> DEFINE T == tickets[p] \cup {k}
           r == [reserved EXCEPT ![k] = reserved[k] + 1]
<1>1. reserved \in [Kinds -> Nat] /\ used \in [Kinds -> Nat] /\ tickets[p] \in SUBSET Kinds
      /\ Limit \in [Kinds -> Nat]
  BY ReservationsAssumption DEF Inv, TypeOK
<1>2. T \in SUBSET Kinds /\ r \in [Kinds -> Int]
  BY <1>1
<1>3. reserved' = r /\ tickets' = [tickets EXCEPT ![p] = T]
  BY DEF Reserve
<1>4. \A i \in Kinds : r[i] = reserved[i] + One(i \in T) - One(i \in tickets[p])
  BY <1>1 DEF One
<1>5. used["storage"] + r["storage"] <= Limit["storage"]
  <2>1. CASE k = "storage"
    BY <1>1, <2>1 DEF Reserve, Fits
  <2>2. CASE k # "storage"
    <3>1. r["storage"] = reserved["storage"]
      BY <1>1, <2>2, StorageKind
    <3>2. QED
      BY <3>1 DEF Inv, Covered
  <2>3. QED
    BY <2>1, <2>2
<1> HIDE DEF T, r
<1>6. LocalOK(p, step, T, s)
  BY DEF T
<1>7. QED
  BY <1>2, <1>3, <1>4, <1>5, <1>6, Quiet

(* Who holds a reservation is counted in it.                               *)
LEMMA HeldIsReserved ==
  ASSUME FinitelyMany, Inv, NEW p \in Procs, NEW k \in tickets[p]
  PROVE  reserved[k] >= 1
<1>1. k \in Kinds
  BY DEF Inv, TypeOK
<1>2. p \in HoldersOf(k) /\ IsFiniteSet(HoldersOf(k))
  BY FS_Subset DEF HoldersOf, FinitelyMany
<1>3. Cardinality(HoldersOf(k)) \in Nat /\ Cardinality(HoldersOf(k)) # 0
  BY <1>2, FS_CardinalityType, FS_EmptySet
<1>4. reserved[k] = Cardinality(HoldersOf(k)) + OwedOf(k) + orphaned[k]
  BY <1>1 DEF Inv, ReservationsAccounted
<1>5. OwedOf(k) \in Nat /\ orphaned[k] \in Nat
  BY <1>1 DEF Inv, TypeOK, OwedOf
<1>6. QED
  BY <1>3, <1>4, <1>5

LEMMA GiveUpStep ==
  ASSUME FinitelyMany, Inv, NEW p \in Procs, GiveUp(p),
         UNCHANGED <<used, owed, refunds, pins, victim, surplus, orphaned>>,
         Fault \/ UNCHANGED faults
  PROVE  Inv'
<1> DEFINE r == [k \in Kinds |-> IF k \in tickets[p] THEN reserved[k] - 1 ELSE reserved[k]]
<1>1. reserved \in [Kinds -> Nat] /\ used \in [Kinds -> Nat] /\ Limit \in [Kinds -> Nat]
  BY ReservationsAssumption DEF Inv, TypeOK
<1>2. r \in [Kinds -> Int]
  BY <1>1
<1>3. /\ reserved' = r /\ tickets' = [tickets EXCEPT ![p] = {}]
      /\ Goto(p, "idle") /\ slab' = [slab EXCEPT ![p] = None]
  BY DEF GiveUp, Release
<1>4. \A k \in Kinds : r[k] = reserved[k] + One(k \in {}) - One(k \in tickets[p])
  BY <1>1 DEF One
<1>5. r["storage"] <= reserved["storage"]
  BY <1>1, StorageKind
<1>6. used["storage"] + r["storage"] <= Limit["storage"]
  BY <1>1, <1>2, <1>5, StorageKind DEF Inv, Covered
<1>7. LocalOK(p, "idle", {}, None) /\ "idle" \in Steps
  BY DEF LocalOK, Steps
<1> HIDE DEF r
<1>8. QED
  BY <1>2, <1>3, <1>4, <1>6, <1>7, Quiet

(* A step that only moves the request.                                     *)
LEMMA MoveStep ==
  ASSUME FinitelyMany, Inv, NEW p \in Procs, NEW step \in Steps, Goto(p, step),
         LocalOK(p, step, tickets[p], slab[p]),
         UNCHANGED <<used, reserved, owed, refunds, pins, victim, surplus, slab, tickets, orphaned>>,
         Fault \/ UNCHANGED faults
  PROVE  Inv'
<1> DEFINE r == reserved
           T == tickets[p]
           s == slab[p]
<1>1. /\ reserved \in [Kinds -> Nat] /\ tickets \in [Procs -> SUBSET Kinds]
      /\ slab \in [Procs -> Slabs \cup {None}]
  BY DEF Inv, TypeOK
<1>2. /\ tickets' = [tickets EXCEPT ![p] = T] /\ slab' = [slab EXCEPT ![p] = s]
      /\ r \in [Kinds -> Int] /\ T \in SUBSET Kinds /\ s \in Slabs \cup {None}
      /\ reserved' = r
  BY <1>1
<1>3. \A k \in Kinds : r[k] = reserved[k] + One(k \in T) - One(k \in tickets[p])
  BY <1>1 DEF One
<1>4. used["storage"] + r["storage"] <= Limit["storage"]
  BY DEF Inv, Covered
<1>5. LocalOK(p, step, T, s)
  OBVIOUS
<1> HIDE DEF r, T, s
<1>6. QED
  BY <1>2, <1>3, <1>4, <1>5, Quiet

(* The end of pinAndRecord, with the pin or with the error of CreatePin.   *)
LEMMA PinEnds ==
  ASSUME FinitelyMany, Inv, NEW p \in Procs, pc[p] = "pin",
         \/ Orphan(p)
         \/ slab[p] \notin pins /\ Record(p),
         tickets' = [tickets EXCEPT ![p] = {}], Goto(p, "idle"),
         slab' = [slab EXCEPT ![p] = None], UNCHANGED <<used, refunds, victim, surplus>>,
         Fault \/ UNCHANGED faults
  PROVE  Inv'
<1>1. /\ used \in [Kinds -> Nat] /\ owed \in Nat /\ refunds \in Nat /\ pins \subseteq Slabs
      /\ orphaned \in [Kinds -> Nat] /\ reserved \in [Kinds -> Nat]
  BY DEF Inv, TypeOK
<1>2. tickets[p] = {"storage"} /\ slab[p] \in Slabs
  BY DEF Inv, LocalsOK, LocalOK
<1>3. LocalsOK' /\ RunsOK'
  <2>1. LocalOK(p, "idle", {}, None) /\ "idle" \in Steps
    BY DEF LocalOK, Steps
  <2>2. QED
    BY <2>1, Locals
<1>4. /\ reserved' = reserved /\ owed' \in Nat /\ orphaned' \in [Kinds -> Nat]
      /\ owed' + orphaned'["storage"] = owed + orphaned["storage"] + 1
      /\ \A k \in Kinds : k # "storage" => orphaned'[k] = orphaned[k]
  <2>1. CASE Orphan(p)
    <3>1. orphaned' = [k \in Kinds |-> IF k = "storage" THEN orphaned[k] + 1 ELSE orphaned[k]]
      BY <1>2, <2>1 DEF Orphan
    <3>2. reserved' = reserved /\ owed' = owed
      BY <2>1 DEF Orphan
    <3>3. QED
      BY <1>1, <3>1, <3>2, StorageKind
  <2>2. CASE Record(p)
    BY <1>1, <2>2, StorageKind DEF Record
  <2>3. QED
    BY <2>1, <2>2
<1>5. \A k \in Kinds : reserved[k] - OwedOf(k)' - orphaned'[k] =
         reserved[k] - OwedOf(k) - orphaned[k] + One(k \in {}) - One(k \in tickets[p])
  <2> SUFFICES ASSUME NEW k \in Kinds
               PROVE  reserved[k] - OwedOf(k)' - orphaned'[k] =
                        reserved[k] - OwedOf(k) - orphaned[k] + One(k \in {}) - One(k \in tickets[p])
    OBVIOUS
  <2>1. CASE k = "storage"
    <3>1. OwedOf(k) = owed /\ OwedOf(k)' = owed' /\ One(k \in {}) = 0 /\ One(k \in tickets[p]) = 1
      BY <1>2, <2>1 DEF OwedOf, One
    <3>2. QED
      BY <1>1, <1>4, <2>1, <3>1
  <2>2. CASE k # "storage"
    <3>1. OwedOf(k) = 0 /\ OwedOf(k)' = 0 /\ One(k \in {}) = 0 /\ One(k \in tickets[p]) = 0
      BY <1>2, <2>2 DEF OwedOf, One
    <3>2. QED
      BY <1>1, <1>4, <2>2, <3>1
  <2>3. QED
    BY <2>1, <2>2
<1>6. ReservationsAccounted'
  <2> DEFINE T == {}
             r == reserved
  <2>1. /\ T \in SUBSET Kinds /\ r \in [Kinds -> Int] /\ reserved' = r
        /\ tickets' = [tickets EXCEPT ![p] = T]
        /\ \A k \in Kinds : r[k] - OwedOf(k)' - orphaned'[k] =
              reserved[k] - OwedOf(k) - orphaned[k] + One(k \in T) - One(k \in tickets[p])
    BY <1>1, <1>4, <1>5
  <2> HIDE DEF T, r
  <2>2. QED
    BY <1>4, <2>1, Books
<1>7. pins' \subseteq Slabs /\ IsFiniteSet(pins') /\ Cardinality(pins') <= Cardinality(pins) + 1
      /\ Cardinality(pins) \in Nat /\ Cardinality(pins') \in Nat
  <2>1. IsFiniteSet(pins) /\ Cardinality(pins) \in Nat
    BY FS_CardinalityType DEF Inv, Covered
  <2>2. CASE Orphan(p)
    BY <1>1, <2>1, <2>2 DEF Orphan
  <2>3. CASE Record(p)
    <3>1. pins' = pins \cup {slab[p]}
      BY <2>3 DEF Record
    <3>2. /\ IsFiniteSet(pins')
          /\ Cardinality(pins') = Cardinality(pins) \/ Cardinality(pins') = Cardinality(pins) + 1
      BY <2>1, <3>1, FS_AddElement
    <3>3. QED
      BY <1>1, <1>2, <2>1, <3>1, <3>2
  <2>4. QED
    BY <2>2, <2>3
<1>8. Covered'
  <2>1. Cardinality(pins) + refunds <= used["storage"] + owed + orphaned["storage"] + surplus
    BY DEF Inv, Covered
  <2>2. used["storage"] \in Nat /\ orphaned["storage"] \in Nat /\ orphaned'["storage"] \in Nat
    BY <1>1, <1>4, StorageKind
  <2>3. Cardinality(pins') + refunds' <= used'["storage"] + owed' + orphaned'["storage"] + surplus'
    <3> DEFINE c == Cardinality(pins)
               d == Cardinality(pins')
               u == used["storage"]
               o == orphaned["storage"]
               n == orphaned'["storage"]
               a == owed
               b == owed'
               x == refunds
               m == surplus
    <3>1. c \in Nat /\ d \in Nat /\ u \in Nat /\ o \in Nat /\ n \in Nat
          /\ a \in Nat /\ b \in Nat /\ x \in Nat /\ m \in Nat
      BY <1>1, <1>4, <1>7, <2>2, SurplusTyped
    <3>2. c + x <= u + a + o + m /\ b + n = a + o + 1 /\ d <= c + 1
      BY <1>4, <1>7, <2>1
    <3>3. UNCHANGED <<used, refunds, surplus>>
      OBVIOUS
    <3> HIDE DEF c, d, u, o, n, a, b, x, m
    <3>4. d + x <= u + b + n + m
      BY <3>1, <3>2
    <3>5. QED
      BY <3>3, <3>4 DEF d, u, n, b, x, m
  <2>4. used'["storage"] + reserved'["storage"] <= Limit["storage"]
    BY <1>4 DEF Inv, Covered
  <2>5. QED
    BY <1>7, <2>3, <2>4 DEF Covered
<1>9. TypeOK'
  <2>1. PrunesOK'
    BY DEF Inv, TypeOK, PrunesOK
  <2>2. QED
    BY <1>1, <1>3, <1>4, <1>7, <2>1, FaultTyped, TypePartsNext DEF CountsOK, Inv
<1>10. QED
  BY <1>3, <1>6, <1>8, <1>9 DEF Inv

(* A step of the quota service, of an event or of an unpin: no request     *)
(* takes part.                                                             *)
LEMMA Books0 ==
  ASSUME FinitelyMany, Inv, UNCHANGED tickets, reserved' \in [Kinds -> Nat], owed' \in Nat,
         UNCHANGED orphaned,
         \A k \in Kinds : reserved'[k] - OwedOf(k)' = reserved[k] - OwedOf(k)
  PROVE  ReservationsAccounted'
<1>1. ASSUME NEW k \in Kinds
      PROVE  reserved'[k] = Cardinality(HoldersOf(k)') + OwedOf(k)' + orphaned'[k]
  <2>1. reserved[k] = Cardinality(HoldersOf(k)) + OwedOf(k) + orphaned[k]
    BY DEF Inv, ReservationsAccounted
  <2>2. HoldersOf(k)' = HoldersOf(k)
    BY DEF HoldersOf
  <2>3. OwedOf(k) \in Nat /\ OwedOf(k)' \in Nat /\ orphaned[k] \in Nat /\ reserved[k] \in Nat
        /\ reserved'[k] \in Nat
    BY DEF OwedOf, Inv, TypeOK
  <2>4. reserved'[k] - OwedOf(k)' = reserved[k] - OwedOf(k)
    OBVIOUS
  <2> DEFINE c == Cardinality(HoldersOf(k))
  <2>5. c = reserved[k] - OwedOf(k) - orphaned[k] /\ c \in Int
    <3>1. c \in Int
      BY HoldersFinite
    <3>2. QED
      BY <2>1, <2>3, <3>1
  <2> HIDE DEF c
  <2>6. reserved'[k] = c + OwedOf(k)' + orphaned[k]
    BY <2>3, <2>4, <2>5
  <2>7. QED
    BY <2>2, <2>6 DEF c
<1>2. QED
  BY <1>1 DEF ReservationsAccounted

LEMMA Sums ==
  ASSUME NEW c \in Nat, NEW d \in Nat, NEW u \in Nat, NEW v \in Nat, NEW o \in Nat,
         NEW a \in Nat, NEW b \in Nat, NEW x \in Nat, NEW y \in Nat,
         NEW p \in Nat, NEW q \in Nat,
         c + x <= u + a + o + p, d + y + u + a + p <= c + x + v + b + q
  PROVE  d + y <= v + b + o + q
OBVIOUS

LEMMA Below ==
  ASSUME NEW u \in Nat, NEW v \in Nat, NEW x \in Nat, NEW y \in Nat, NEW l \in Nat,
         v + y <= u + x, u + x <= l
  PROVE  v + y <= l
OBVIOUS

(* Such a step as a whole: requests stay as they are.                      *)
LEMMA Aside ==
  ASSUME FinitelyMany, Inv, UNCHANGED <<pc, slab, tickets, orphaned>>,
         CountsOK', PrunesOK', pins' \subseteq pins, Fault \/ UNCHANGED faults,
         \A k \in Kinds : reserved'[k] - OwedOf(k)' = reserved[k] - OwedOf(k),
         used'["storage"] + reserved'["storage"] <= used["storage"] + reserved["storage"],
         Cardinality(pins') + refunds' + used["storage"] + owed + surplus <=
           Cardinality(pins) + refunds + used'["storage"] + owed' + surplus'
  PROVE  Inv'
<1>1. RunsOK'
  BY DEF Inv, TypeOK, RunsOK
<1>2. LocalsOK'
  BY DEF Inv, LocalsOK
<1>3. ReservationsAccounted'
  BY Books0 DEF CountsOK
<1>4. TypeOK'
  BY <1>1, FaultTyped, TypePartsNext DEF Inv, TypeOK
<1>5. Covered'
  <2>1. IsFiniteSet(pins) /\ IsFiniteSet(pins')
    BY FS_Subset DEF Inv, Covered
  <2> DEFINE c == Cardinality(pins)
             d == Cardinality(pins')
             u == used["storage"]
             v == used'["storage"]
             r == reserved["storage"]
             t == reserved'["storage"]
             o == orphaned["storage"]
             l == Limit["storage"]
  <2>2. c \in Nat /\ d \in Nat
    BY <2>1, FS_CardinalityType
  <2>3. u \in Nat /\ v \in Nat /\ r \in Nat /\ t \in Nat /\ o \in Nat /\ l \in Nat
        /\ owed \in Nat /\ owed' \in Nat /\ refunds \in Nat /\ refunds' \in Nat
        /\ surplus \in Nat /\ surplus' \in Nat
    BY StorageKind, ReservationsAssumption DEF Inv, TypeOK, CountsOK, PrunesOK
  <2>4. c + refunds <= u + owed + o + surplus /\ u + r <= l
    BY DEF Inv, Covered
  <2>5. v + t <= u + r /\ d + refunds' + u + owed + surplus <= c + refunds + v + owed' + surplus'
    OBVIOUS
  <2> HIDE DEF c, d, u, v, r, t, o, l
  <2>6. d + refunds' <= v + owed' + o + surplus'
    <3> DEFINE a == owed
               b == owed'
               x == refunds
               y == refunds'
               m == surplus
               n == surplus'
    <3>1. a \in Nat /\ b \in Nat /\ x \in Nat /\ y \in Nat /\ m \in Nat /\ n \in Nat
      BY <2>3
    <3>2. c + x <= u + a + o + m /\ d + y + u + a + m <= c + x + v + b + n
      BY <2>4, <2>5
    <3> HIDE DEF a, b, x, y, m, n
    <3>3. d + y <= v + b + o + n
      BY <2>2, <2>3, <3>1, <3>2, Sums
    <3>4. QED
      BY <3>3 DEF b, y, n
  <2>7. v + t <= l
    BY <2>3, <2>4, <2>5, Below
  <2>8. orphaned'["storage"] = o
    BY DEF o
  <2>9. QED
    BY <2>1, <2>6, <2>7, <2>8 DEF d, v, t, l, Covered
<1>6. QED
  BY <1>2, <1>3, <1>4, <1>5 DEF Inv

LEMMA PinsCounted == Inv => Cardinality(pins) \in Nat
BY FS_CardinalityType DEF Inv, Covered

LEMMA VictimsTyped ==
  ASSUME TypeOK, NEW s, NEW done, DeletePin(s, done)
  PROVE  victim' \in [Prunes -> Slabs \cup {None, Gone}]
BY DEF TypeOK, DeletePin

(* A pin is deleted, with or without its event.                            *)
LEMMA PinDeleted ==
  ASSUME FinitelyMany, Inv, NEW s, NEW done, DeletePin(s, done),
         UNCHANGED <<used, reserved, owed, pc, slab, tickets, orphaned, surplus>>,
         Fault \/ UNCHANGED faults, refunds' = refunds \/ refunds' = refunds + 1
  PROVE  Inv'
<1>1. /\ used \in [Kinds -> Nat] /\ owed \in Nat /\ refunds \in Nat
      /\ orphaned \in [Kinds -> Nat] /\ reserved \in [Kinds -> Nat]
  BY DEF Inv, TypeOK
<1>2. s \in pins /\ pins' = pins \ {s} /\ pins' \subseteq pins
  BY DEF DeletePin
<1>3. CountsOK' /\ PrunesOK'
  BY <1>1, VictimsTyped DEF CountsOK, PrunesOK, Inv, TypeOK
<1>4. \A k \in Kinds : reserved'[k] - OwedOf(k)' = reserved[k] - OwedOf(k)
  BY DEF OwedOf
<1>5. Cardinality(pins) \in Nat /\ Cardinality(pins') = Cardinality(pins) - 1
  <2>1. IsFiniteSet(pins)
    BY DEF Inv, Covered
  <2>2. QED
    BY <1>2, <2>1, FS_RemoveElement, FS_CardinalityType
<1>6. used["storage"] \in Nat /\ reserved["storage"] \in Nat /\ surplus \in Nat
  BY <1>1, StorageKind, SurplusTyped
<1>7. Cardinality(pins') + refunds' + used["storage"] + owed + surplus <=
           Cardinality(pins) + refunds + used'["storage"] + owed' + surplus'
  BY <1>1, <1>5, <1>6
<1>8. used'["storage"] + reserved'["storage"] <= used["storage"] + reserved["storage"]
  BY <1>6
<1>9. QED
  BY <1>2, <1>3, <1>4, <1>7, <1>8, Aside

LEMMA Unpinned ==
  ASSUME FinitelyMany, Inv, NEW s \in Slabs, Unpin(s)
  PROVE  Inv'
BY PinDeleted DEF Unpin

(* The prune's event gives back what is pinned still: the surplus counts it.*)
LEMMA PrunedInVain ==
  ASSUME FinitelyMany, Inv, NEW q \in Prunes, PruneInVain(q)
  PROVE  Inv'
<1>1. /\ used \in [Kinds -> Nat] /\ owed \in Nat /\ refunds \in Nat
      /\ orphaned \in [Kinds -> Nat] /\ reserved \in [Kinds -> Nat]
      /\ surplus \in 0 .. MaxSurplus /\ victim \in [Prunes -> Slabs \cup {None, Gone}]
  BY DEF Inv, TypeOK
<1>2. /\ UNCHANGED <<used, reserved, owed, pins, pc, slab, tickets, orphaned>>
      /\ Fault \/ UNCHANGED faults
      /\ surplus' = surplus + 1 /\ surplus < MaxSurplus /\ refunds' = refunds + 1
      /\ victim' = [victim EXCEPT ![q] = None]
  BY DEF PruneInVain
<1>3. CountsOK' /\ PrunesOK'
  BY <1>1, <1>2, ReservationsAssumption DEF CountsOK, PrunesOK
<1>4. \A k \in Kinds : reserved'[k] - OwedOf(k)' = reserved[k] - OwedOf(k)
  BY <1>2 DEF OwedOf
<1>5. used["storage"] \in Nat /\ reserved["storage"] \in Nat /\ surplus \in Nat
  BY <1>1, StorageKind, SurplusTyped
<1>6. Cardinality(pins') + refunds' + used["storage"] + owed + surplus <=
           Cardinality(pins) + refunds + used'["storage"] + owed' + surplus'
  BY <1>1, <1>2, <1>5, PinsCounted
<1>7. used'["storage"] + reserved'["storage"] <= used["storage"] + reserved["storage"]
  BY <1>2, <1>5
<1>8. pins' \subseteq pins
  BY <1>2
<1>9. QED
  BY <1>2, <1>3, <1>4, <1>6, <1>7, <1>8, Aside

(* Listing a pin changes nothing the books are kept of.                    *)
LEMMA Listed ==
  ASSUME FinitelyMany, Inv, NEW q \in Prunes, ListPin(q)
  PROVE  Inv'
<1>1. /\ UNCHANGED <<used, reserved, owed, refunds, pins, pc, slab, tickets, surplus, orphaned, faults>>
      /\ \E s \in pins : victim' = [victim EXCEPT ![q] = s]
  BY DEF ListPin, events
<1>2. TypeOK'
  BY <1>1 DEF Inv, TypeOK
<1>3. LocalsOK' /\ ReservationsAccounted' /\ Covered'
  BY <1>1 DEF Inv, LocalsOK, ReservationsAccounted, HoldersOf, OwedOf, Covered
<1>4. QED
  BY <1>2, <1>3 DEF Inv

LEMMA PruneStepInv ==
  ASSUME FinitelyMany, Inv, NEW q \in Prunes, PruneStep(q)
  PROVE  Inv'
<1>1. CASE ListPin(q)
  BY <1>1, Listed
<1>2. CASE PrunePin(q)
  <2>1. DeletePin(victim[q], {q})
    BY <1>2 DEF PrunePin
  <2>2. QED
    BY <1>2, <2>1, PinDeleted DEF PrunePin
<1>3. CASE PruneInVain(q)
  BY <1>3, PrunedInVain
<1>4. QED
  BY <1>1, <1>2, <1>3 DEF PruneStep

LEMMA Charged ==
  ASSUME FinitelyMany, Inv, Charge
  PROVE  Inv'
<1>1. /\ used \in [Kinds -> Nat] /\ owed \in Nat /\ refunds \in Nat /\ pins \subseteq Slabs
      /\ orphaned \in [Kinds -> Nat] /\ reserved \in [Kinds -> Nat]
  BY DEF Inv, TypeOK
<1>2. reserved["storage"] >= 1
  <2>1. reserved["storage"] = Cardinality(HoldersOf("storage")) + owed + orphaned["storage"]
    <3>1. OwedOf("storage") = owed
      BY DEF OwedOf
    <3>2. QED
      BY <3>1, StorageKind DEF Inv, ReservationsAccounted
  <2>2. Cardinality(HoldersOf("storage")) \in Nat /\ owed \in Nat /\ owed > 0
        /\ orphaned["storage"] \in Nat
    BY <1>1, HoldersFinite, StorageKind DEF Charge
  <2>3. QED
    BY <2>1, <2>2
<1>3. /\ UNCHANGED <<refunds, pins, pc, slab, tickets, victim, surplus, orphaned, faults>>
      /\ owed' = owed - 1 /\ owed > 0
      /\ used' = [used EXCEPT !["storage"] = @ + 1]
      /\ reserved' = [reserved EXCEPT !["storage"] = @ - 1]
  BY DEF Charge, pruning
<1>4. /\ used' \in [Kinds -> Nat] /\ reserved' \in [Kinds -> Nat] /\ owed' \in Nat
      /\ used'["storage"] = used["storage"] + 1
      /\ reserved'["storage"] = reserved["storage"] - 1
      /\ used["storage"] \in Nat /\ reserved["storage"] \in Nat
  BY <1>1, <1>2, <1>3, StorageKind
<1>5. CountsOK' /\ PrunesOK'
  BY <1>1, <1>3, <1>4 DEF CountsOK, PrunesOK, Inv, TypeOK
<1>6. ASSUME NEW k \in Kinds PROVE reserved'[k] - OwedOf(k)' = reserved[k] - OwedOf(k)
  <2>1. CASE k = "storage"
    BY <1>1, <1>3, <1>4, <2>1 DEF OwedOf
  <2>2. CASE k # "storage"
    BY <1>1, <1>3, <2>2 DEF OwedOf
  <2>3. QED
    BY <2>1, <2>2
<1>7. Cardinality(pins') + refunds' + used["storage"] + owed + surplus <=
           Cardinality(pins) + refunds + used'["storage"] + owed' + surplus'
  BY <1>1, <1>3, <1>4, PinsCounted, SurplusTyped
<1>8. used'["storage"] + reserved'["storage"] <= used["storage"] + reserved["storage"]
  BY <1>4
<1>9. pins' \subseteq pins
  BY <1>3
<1>10. QED
  BY <1>3, <1>5, <1>6, <1>7, <1>8, <1>9, Aside

LEMMA Refunded ==
  ASSUME FinitelyMany, Inv, Refund
  PROVE  Inv'
<1>1. /\ used \in [Kinds -> Nat] /\ owed \in Nat /\ refunds \in Nat /\ pins \subseteq Slabs
      /\ orphaned \in [Kinds -> Nat] /\ reserved \in [Kinds -> Nat]
  BY DEF Inv, TypeOK
<1>2. /\ UNCHANGED <<reserved, owed, pins, pc, slab, tickets, victim, surplus, orphaned, faults>>
      /\ refunds > 0 /\ refunds' = refunds - 1
      /\ used' = [used EXCEPT !["storage"] = IF @ > 0 THEN @ - 1 ELSE 0]
  BY DEF Refund, pruning
<1>3. /\ used' \in [Kinds -> Nat] /\ refunds' \in Nat
      /\ used'["storage"] \in Nat /\ used'["storage"] <= used["storage"]
      /\ used["storage"] <= used'["storage"] + 1
      /\ used["storage"] \in Nat /\ reserved["storage"] \in Nat
  BY <1>1, <1>2, StorageKind
<1>4. CountsOK' /\ PrunesOK'
  BY <1>1, <1>2, <1>3 DEF CountsOK, PrunesOK, Inv, TypeOK
<1>5. \A k \in Kinds : reserved'[k] - OwedOf(k)' = reserved[k] - OwedOf(k)
  BY <1>2 DEF OwedOf
<1>6. Cardinality(pins') + refunds' + used["storage"] + owed + surplus <=
           Cardinality(pins) + refunds + used'["storage"] + owed' + surplus'
  BY <1>1, <1>2, <1>3, PinsCounted, SurplusTyped
<1>7. used'["storage"] + reserved'["storage"] <= used["storage"] + reserved["storage"]
  BY <1>2, <1>3
<1>8. pins' \subseteq pins
  BY <1>2
<1>9. QED
  BY <1>2, <1>4, <1>5, <1>6, <1>7, <1>8, Aside

LEMMA Trafficked ==
  ASSUME FinitelyMany, Inv, NEW k \in {"upload", "download"}, RecordTraffic(k)
  PROVE  Inv'
<1>1. /\ used \in [Kinds -> Nat] /\ owed \in Nat /\ refunds \in Nat /\ pins \subseteq Slabs
      /\ orphaned \in [Kinds -> Nat] /\ reserved \in [Kinds -> Nat]
  BY DEF Inv, TypeOK
<1>2. /\ UNCHANGED <<reserved, owed, refunds, pins, pc, slab, tickets, victim, surplus, orphaned, faults>>
      /\ used' = [used EXCEPT ![k] = @ + 1]
  BY DEF RecordTraffic, events, pruning
<1>3. used' \in [Kinds -> Nat] /\ used'["storage"] = used["storage"]
      /\ used["storage"] \in Nat /\ reserved["storage"] \in Nat
  BY <1>1, <1>2, StorageKind
<1>4. CountsOK' /\ PrunesOK'
  BY <1>1, <1>2, <1>3 DEF CountsOK, PrunesOK, Inv, TypeOK
<1>5. \A i \in Kinds : reserved'[i] - OwedOf(i)' = reserved[i] - OwedOf(i)
  BY <1>2 DEF OwedOf
<1>6. Cardinality(pins') + refunds' + used["storage"] + owed + surplus <=
           Cardinality(pins) + refunds + used'["storage"] + owed' + surplus'
  BY <1>1, <1>2, <1>3, PinsCounted, SurplusTyped
<1>7. used'["storage"] + reserved'["storage"] <= used["storage"] + reserved["storage"]
  BY <1>2, <1>3
<1>8. pins' \subseteq pins
  BY <1>2
<1>9. QED
  BY <1>2, <1>4, <1>5, <1>6, <1>7, <1>8, Aside

(* A restart: whatever was held or on its way is nobody's.                 *)
LEMMA Restarted ==
  ASSUME FinitelyMany, Inv, Restart
  PROVE  Inv'
<1>1. /\ used \in [Kinds -> Nat] /\ owed \in Nat /\ refunds \in Nat /\ pins \subseteq Slabs
      /\ orphaned \in [Kinds -> Nat] /\ reserved \in [Kinds -> Nat]
  BY DEF Inv, TypeOK
<1>2. /\ Fault /\ UNCHANGED <<used, reserved, pins, surplus>> /\ owed' = 0 /\ refunds' = 0
      /\ orphaned' = [k \in Kinds |-> orphaned[k] + Cardinality(HoldersOf(k)) + OwedOf(k)]
      /\ pc' = [p \in Procs |-> "idle"] /\ slab' = [p \in Procs |-> None]
      /\ tickets' = [p \in Procs |-> {}] /\ victim' = [q \in Prunes |-> None]
  BY DEF Restart
<1>3. \A k \in Kinds : /\ Cardinality(HoldersOf(k)) \in Nat
                       /\ OwedOf(k) \in Nat /\ OwedOf(k)' = 0
  BY <1>1, <1>2, HoldersFinite DEF OwedOf
<1>4. /\ orphaned' \in [Kinds -> Nat]
      /\ orphaned'["storage"] >= orphaned["storage"] + owed
  <2>1. orphaned' \in [Kinds -> Nat]
    BY <1>1, <1>2, <1>3
  <2>2. /\ orphaned'["storage"] =
             orphaned["storage"] + Cardinality(HoldersOf("storage")) + OwedOf("storage")
        /\ orphaned["storage"] \in Nat /\ Cardinality(HoldersOf("storage")) \in Nat
    BY <1>1, <1>2, <1>3, StorageKind
  <2>3. OwedOf("storage") = owed
    BY DEF OwedOf
  <2>4. QED
    BY <1>1, <2>1, <2>2, <2>3
<1>5. TypeOK'
  <2>1. RunsOK'
    BY <1>2 DEF RunsOK, Steps
  <2>2. CountsOK' /\ PrunesOK'
    BY <1>1, <1>2, <1>4 DEF CountsOK, PrunesOK, Inv, TypeOK
  <2>3. QED
    BY <1>1, <1>2, <2>1, <2>2, FaultTyped, TypePartsNext DEF Inv
<1>6. LocalsOK'
  BY <1>2 DEF LocalsOK, LocalOK
<1>7. ReservationsAccounted'
  <2> SUFFICES ASSUME NEW k \in Kinds
               PROVE  reserved'[k] = Cardinality(HoldersOf(k)') + OwedOf(k)' + orphaned'[k]
    BY DEF ReservationsAccounted
  <2>1. HoldersOf(k)' = {}
    BY <1>2 DEF HoldersOf
  <2>2. Cardinality(HoldersOf(k)') = 0
    BY <2>1, FS_EmptySet
  <2>3. reserved[k] = Cardinality(HoldersOf(k)) + OwedOf(k) + orphaned[k] /\ orphaned[k] \in Nat
    BY <1>1 DEF Inv, ReservationsAccounted
  <2>4. orphaned'[k] = orphaned[k] + Cardinality(HoldersOf(k)) + OwedOf(k)
    BY <1>2
  <2>5. QED
    BY <1>2, <1>3, <2>2, <2>3, <2>4
<1>8. Covered'
  <2>1. used["storage"] \in Nat /\ orphaned["storage"] \in Nat /\ orphaned'["storage"] \in Nat
        /\ surplus \in Nat
    BY <1>1, <1>4, StorageKind, SurplusTyped
  <2>2. Cardinality(pins) + refunds <= used["storage"] + owed + orphaned["storage"] + surplus
        /\ Cardinality(pins) \in Nat
    BY PinsCounted DEF Inv, Covered
  <2>3. Cardinality(pins') + refunds' <= used'["storage"] + owed' + orphaned'["storage"] + surplus'
    BY <1>1, <1>2, <1>4, <2>1, <2>2
  <2>4. QED
    BY <1>2, <2>3 DEF Covered, Inv
<1>9. QED
  BY <1>5, <1>6, <1>7, <1>8 DEF Inv

LEMMA InitInv ==
  ASSUME FinitelyMany, Init
  PROVE  Inv
<1>1. TypeOK
  BY ReservationsAssumption DEF Init, TypeOK, Steps
<1>2. LocalsOK
  BY DEF Init, LocalsOK, LocalOK
<1>3. ReservationsAccounted
  <2>1. \A k \in Kinds : HoldersOf(k) = {} /\ OwedOf(k) = 0
    BY DEF Init, HoldersOf, OwedOf
  <2>2. QED
    BY <2>1, FS_EmptySet DEF Init, ReservationsAccounted
<1>4. Covered
  BY FS_EmptySet, StorageKind, ReservationsAssumption DEF Init, Covered
<1>5. QED
  BY <1>1, <1>2, <1>3, <1>4 DEF Inv

LEMMA StepNames ==
  /\ "idle" \in Steps /\ "proxy" \in Steps /\ "check" \in Steps /\ "upload" \in Steps
  /\ "pin" \in Steps /\ "download" \in Steps /\ "answer" \in Steps
BY DEF Steps

(* A step of pinAndRecord.                                                 *)
LEMMA PinStepInv ==
  ASSUME FinitelyMany, Inv, NEW p \in Pinners, PinStep(p)
  PROVE  Inv'
<1>1. p \in Procs /\ LocalOK(p, pc[p], tickets[p], slab[p])
      /\ slab \in [Procs -> Slabs \cup {None}]
  BY DEF Procs, Inv, LocalsOK, TypeOK
<1>2. CASE BeginPin(p)
  <2>1. PICK s \in Slabs : slab' = [slab EXCEPT ![p] = s]
    BY <1>2 DEF BeginPin
  <2>2. tickets[p] = {}
    BY <1>1, <1>2 DEF BeginPin, LocalOK
  <2>3. LocalOK(p, "proxy", tickets[p] \cup {"storage"}, s) /\ "storage" \notin tickets[p]
    BY <2>2 DEF LocalOK
  <2>4. /\ Reserve(p, "storage") /\ Goto(p, "proxy")
        /\ UNCHANGED <<used, owed, refunds, pins, victim, surplus, orphaned, faults>>
    BY <1>2 DEF BeginPin, events, pruning
  <2>5. QED
    BY <1>1, <2>1, <2>3, <2>4, StorageKind, StepNames, ReserveStep
<1>3. CASE Proxy(p)
  <2>1. LocalOK(p, "check", tickets[p], slab[p])
    BY <1>1, <1>3 DEF Proxy, LocalOK
  <2>2. QED
    BY <1>1, <1>3, <2>1, StepNames, MoveStep DEF Proxy, events, pruning
<1>4. CASE ProxyFails(p)
  BY <1>1, <1>4, GiveUpStep DEF ProxyFails, events, pruning
<1>5. CASE AlreadyPinned(p)
  <2>1. CASE slab[p] \in pins
    BY <1>1, <1>5, <2>1, GiveUpStep DEF AlreadyPinned, events, pruning
  <2>2. CASE slab[p] \notin pins
    <3>1. LocalOK(p, "upload", tickets[p], slab[p])
      BY <1>1, <1>5 DEF AlreadyPinned, LocalOK
    <3>2. QED
      BY <1>1, <1>5, <2>2, <3>1, StepNames, MoveStep DEF AlreadyPinned, events, pruning
  <2>3. QED
    BY <2>1, <2>2
<1>6. CASE CheckFails(p)
  <2>1. LocalOK(p, "upload", tickets[p], slab[p])
    BY <1>1, <1>6 DEF CheckFails, LocalOK
  <2>2. QED
    BY <1>1, <1>6, <2>1, StepNames, MoveStep DEF CheckFails, events, pruning
<1>7. CASE SaveUpload(p)
  <2>1. LocalOK(p, "pin", tickets[p], slab[p])
    BY <1>1, <1>7 DEF SaveUpload, LocalOK
  <2>2. QED
    BY <1>1, <1>7, <2>1, StepNames, MoveStep DEF SaveUpload, events, pruning
<1>8. CASE SaveUploadFails(p)
  BY <1>1, <1>8, GiveUpStep DEF SaveUploadFails, events, pruning
<1>9. CASE CreatePin(p)
  <2>1. \/ Orphan(p)
        \/ slab[p] \notin pins /\ Record(p)
    BY <1>9 DEF CreatePin
  <2>2. QED
    BY <1>1, <1>9, <2>1, PinEnds DEF CreatePin, pruning
<1>10. CASE CreatePinFails(p)
  BY <1>1, <1>10, PinEnds DEF CreatePinFails, pruning
<1>11. QED
  BY <1>2, <1>3, <1>4, <1>5, <1>6, <1>7, <1>8, <1>9, <1>10 DEF PinStep

(* A step of ConnectQuotaCheck.                                            *)
LEMMA PageStepInv ==
  ASSUME FinitelyMany, Inv, NEW p \in Pages, PageStep(p)
  PROVE  Inv'
<1>1. /\ p \in Procs /\ LocalOK(p, pc[p], tickets[p], slab[p])
      /\ slab \in [Procs -> Slabs \cup {None}] /\ slab[p] \in Slabs \cup {None}
  BY DEF Procs, Inv, LocalsOK, TypeOK
<1>2. CASE ReserveUpload(p)
  <2>1. tickets[p] = {}
    BY <1>1, <1>2 DEF ReserveUpload, LocalOK
  <2>2. LocalOK(p, "download", tickets[p] \cup {"upload"}, slab[p]) /\ "upload" \notin tickets[p]
    BY <2>1 DEF LocalOK
  <2>3. /\ Reserve(p, "upload") /\ Goto(p, "download") /\ slab' = slab
        /\ UNCHANGED <<used, owed, refunds, pins, victim, surplus, orphaned, faults>>
    BY <1>2 DEF ReserveUpload, events, pruning
  <2> DEFINE s == slab[p]
  <2>4. slab' = [slab EXCEPT ![p] = s] /\ s \in Slabs \cup {None}
        /\ LocalOK(p, "download", tickets[p] \cup {"upload"}, s)
    BY <1>1, <2>2, <2>3
  <2> HIDE DEF s
  <2>5. QED
    BY <1>1, <2>2, <2>3, <2>4, StorageKind, StepNames, ReserveStep
<1>3. CASE UploadCheckFails(p)
  <2>1. LocalOK(p, "download", tickets[p], slab[p])
    BY <1>1, <1>3 DEF UploadCheckFails, LocalOK
  <2>2. QED
    BY <1>1, <1>3, <2>1, StepNames, MoveStep DEF UploadCheckFails, events, pruning
<1>4. CASE ReserveDownload(p)
  <2>1. tickets[p] \subseteq {"upload"}
    BY <1>1, <1>4 DEF ReserveDownload, LocalOK
  <2>2. LocalOK(p, "answer", tickets[p] \cup {"download"}, slab[p])
        /\ "download" \notin tickets[p]
    BY <2>1 DEF LocalOK
  <2>3. /\ Reserve(p, "download") /\ Goto(p, "answer") /\ slab' = slab
        /\ UNCHANGED <<used, owed, refunds, pins, victim, surplus, orphaned, faults>>
    BY <1>4 DEF ReserveDownload, events, pruning
  <2> DEFINE s == slab[p]
  <2>4. slab' = [slab EXCEPT ![p] = s] /\ s \in Slabs \cup {None}
        /\ LocalOK(p, "answer", tickets[p] \cup {"download"}, s)
    BY <1>1, <2>2, <2>3
  <2> HIDE DEF s
  <2>5. QED
    BY <1>1, <2>2, <2>3, <2>4, StorageKind, StepNames, ReserveStep
<1>5. CASE RefuseDownload(p)
  BY <1>1, <1>5, GiveUpStep DEF RefuseDownload, events, pruning
<1>6. CASE Answer(p)
  BY <1>1, <1>6, GiveUpStep DEF Answer, events, pruning
<1>7. QED
  BY <1>2, <1>3, <1>4, <1>5, <1>6 DEF PageStep

LEMMA Inductive ==
  ASSUME FinitelyMany
  PROVE  Inv /\ [Next]_vars => Inv'
<1> SUFFICES ASSUME Inv, [Next]_vars
             PROVE  Inv'
  OBVIOUS
<1>1. CASE \E p \in Pinners : PinStep(p)
  BY <1>1, PinStepInv
<1>2. CASE \E p \in Pages : PageStep(p)
  BY <1>2, PageStepInv
<1>3. CASE \E s \in Slabs : Unpin(s)
  BY <1>3, Unpinned
<1>4. CASE \E k \in {"upload", "download"} : RecordTraffic(k)
  BY <1>4, Trafficked
<1>10. CASE \E q \in Prunes : PruneStep(q)
  BY <1>10, PruneStepInv
<1>5. CASE Charge
  BY <1>5, Charged
<1>6. CASE Refund
  BY <1>6, Refunded
<1>7. CASE Restart
  BY <1>7, Restarted
<1>8. CASE UNCHANGED vars
  BY <1>8 DEF vars, events, pruning, Inv, TypeOK, LocalsOK, ReservationsAccounted, HoldersOf, OwedOf, Covered
<1>9. QED
  BY <1>1, <1>2, <1>3, <1>4, <1>5, <1>6, <1>7, <1>8, <1>10 DEF Next

LEMMA SpecInv ==
  ASSUME FinitelyMany
  PROVE  Spec => []Inv
<1>1. Init => Inv
  BY InitInv
<1>2. Inv /\ [Next]_vars => Inv'
  BY Inductive
<1>3. QED
  BY <1>1, <1>2, PTL DEF Spec

(* What is charged and reserved covers the pins and the requests that may  *)
(* still make one.                                                         *)
LEMMA RoomLeft ==
  ASSUME FinitelyMany, Inv
  PROVE  /\ Cardinality(pins) \in Nat /\ Cardinality(HoldersOf("storage")) \in Nat
         /\ Cardinality(pins) + Cardinality(HoldersOf("storage")) <=
              used["storage"] + reserved["storage"] + surplus
         /\ used["storage"] + reserved["storage"] <= Limit["storage"]
<1> DEFINE c == Cardinality(pins)
           h == Cardinality(HoldersOf("storage"))
           u == used["storage"]
           r == reserved["storage"]
           o == orphaned["storage"]
<1>1. c \in Nat /\ h \in Nat
  BY PinsCounted, HoldersFinite
<1>2. u \in Nat /\ r \in Nat /\ o \in Nat /\ owed \in Nat /\ refunds \in Nat
      /\ surplus \in Nat
  BY StorageKind, SurplusTyped DEF Inv, TypeOK
<1>3. OwedOf("storage") = owed
  BY DEF OwedOf
<1>4. r = h + owed + o
  BY <1>3, StorageKind DEF Inv, ReservationsAccounted
<1>5. c + refunds <= u + owed + o + surplus /\ u + r <= Limit["storage"]
  BY DEF Inv, Covered
<1> HIDE DEF c, h, u, r, o
<1>6. c <= u + owed + o + surplus
  BY <1>1, <1>2, <1>5
<1>7. c + h <= u + r + surplus
  BY <1>1, <1>2, <1>4, <1>6
<1>8. QED
  BY <1>1, <1>5, <1>7 DEF c, h, u, r

LEMMA InvWithinLimit ==
  ASSUME FinitelyMany, Inv
  PROVE  PinsWithinLimit
<1>1. used["storage"] \in Nat /\ reserved["storage"] \in Nat /\ Limit["storage"] \in Nat
  BY StorageKind, ReservationsAssumption DEF Inv, TypeOK
<1>2. QED
  BY <1>1, RoomLeft, SurplusTyped DEF PinsWithinLimit

-----------------------------------------------------------------------------
(* What a step is to the allowance.                                        *)
LEMMA Granted ==
  ASSUME FinitelyMany, Inv, NEW p \in Pinners, BeginPin(p)
  PROVE  Allowance!Grant(p)
<1>1. p \in Procs /\ tickets[p] = {} /\ tickets \in [Procs -> SUBSET Kinds]
  BY DEF Procs, Inv, TypeOK, LocalsOK, LocalOK, BeginPin
<1>2. UNCHANGED <<pins, surplus>> /\ tickets' = [tickets EXCEPT ![p] = @ \cup {"storage"}]
      /\ used["storage"] + reserved["storage"] + 1 <= Limit["storage"]
  BY DEF BeginPin, Reserve, Fits, pruning
<1>3. p \notin HoldersOf("storage") /\ HoldersOf("storage")' = HoldersOf("storage") \cup {p}
  BY <1>1, <1>2 DEF HoldersOf
<1>4. Cardinality(pins) + Cardinality(HoldersOf("storage")) < Limit["storage"] + surplus
  <2>1. used["storage"] \in Nat /\ reserved["storage"] \in Nat /\ Limit["storage"] \in Nat
    BY StorageKind, ReservationsAssumption DEF Inv, TypeOK
  <2>2. QED
    BY <1>2, <2>1, RoomLeft, SurplusTyped
<1>5. \A S : Allowance!Cardinality(S) = Cardinality(S)
  BY DEF Cardinality, IsFiniteSet, Allowance!Cardinality, Allowance!IsFiniteSet
<1>6. QED
  BY <1>2, <1>3, <1>4, <1>5 DEF Allowance!Grant

LEMMA Withdrawn ==
  ASSUME NEW p \in Procs, TypeOK, UNCHANGED <<pins, surplus>>,
         tickets' = [tickets EXCEPT ![p] = {}] \/ UNCHANGED tickets
  PROVE  Allowance!Withdraw
BY DEF TypeOK, HoldersOf, Allowance!Withdraw

LEMMA PinMaps ==
  ASSUME FinitelyMany, Inv, NEW p \in Pinners, PinStep(p)
  PROVE  Allowance!Next
<1>1. p \in Procs /\ TypeOK /\ slab[p] \in Slabs \cup {None}
      /\ LocalOK(p, pc[p], tickets[p], slab[p])
  BY DEF Procs, Inv, LocalsOK, TypeOK
<1>2. CASE BeginPin(p)
  BY <1>2, Granted DEF Allowance!Next
<1>3. CASE CreatePin(p) /\ slab[p] \notin pins
  <2>1. tickets[p] = {"storage"} /\ slab[p] \in Slabs /\ tickets \in [Procs -> SUBSET Kinds]
    BY <1>1, <1>3 DEF CreatePin, LocalOK, TypeOK
  <2>2. tickets' = [tickets EXCEPT ![p] = {}] /\ pins' = pins \cup {slab[p]} /\ UNCHANGED surplus
    BY <1>3 DEF CreatePin, Record, pruning
  <2>3. /\ p \in HoldersOf("storage") /\ slab[p] \notin pins
        /\ HoldersOf("storage")' = HoldersOf("storage") \ {p}
    BY <1>1, <1>3, <2>1, <2>2 DEF HoldersOf
  <2>4. Allowance!Pin(p, slab[p])
    BY <2>2, <2>3 DEF Allowance!Pin
  <2>5. QED
    BY <2>1, <2>4 DEF Allowance!Next
<1>4. CASE ~BeginPin(p) /\ ~(CreatePin(p) /\ slab[p] \notin pins)
  <2>1. UNCHANGED <<pins, surplus>>
    BY <1>4 DEF PinStep, Proxy, ProxyFails, AlreadyPinned, CheckFails, SaveUpload,
                SaveUploadFails, CreatePin, CreatePinFails, Orphan, pruning
  <2>2. tickets' = [tickets EXCEPT ![p] = {}] \/ UNCHANGED tickets
    BY <1>4 DEF PinStep, Proxy, ProxyFails, AlreadyPinned, CheckFails, SaveUpload,
                SaveUploadFails, CreatePin, CreatePinFails, GiveUp, Release
  <2>3. QED
    BY <1>1, <2>1, <2>2, Withdrawn DEF Allowance!Next
<1>5. QED
  BY <1>2, <1>3, <1>4

(* A page reserves no storage.                                             *)
LEMMA PageMaps ==
  ASSUME FinitelyMany, Inv, NEW p \in Pages, PageStep(p)
  PROVE  Allowance!Next
<1>1. p \in Procs /\ tickets \in [Procs -> SUBSET Kinds]
  BY DEF Procs, Inv, TypeOK
<1>2. UNCHANGED <<pins, surplus>>
  BY DEF PageStep, ReserveUpload, UploadCheckFails, ReserveDownload, RefuseDownload, Answer,
         pruning
<1>3. HoldersOf("storage")' \subseteq HoldersOf("storage")
  <2>1. \/ tickets' = [tickets EXCEPT ![p] = {}]
        \/ UNCHANGED tickets
        \/ \E k \in {"upload", "download"} : tickets' = [tickets EXCEPT ![p] = @ \cup {k}]
    BY DEF PageStep, ReserveUpload, UploadCheckFails, ReserveDownload, RefuseDownload, Answer,
           GiveUp, Release, Reserve
  <2>2. ASSUME NEW k \in {"upload", "download"}, tickets' = [tickets EXCEPT ![p] = @ \cup {k}]
        PROVE  HoldersOf("storage")' \subseteq HoldersOf("storage")
    BY <1>1, <2>2 DEF HoldersOf
  <2>3. CASE tickets' = [tickets EXCEPT ![p] = {}] \/ UNCHANGED tickets
    BY <1>1, <2>3 DEF HoldersOf
  <2>4. QED
    BY <2>1, <2>2, <2>3
<1>4. QED
  BY <1>2, <1>3 DEF Allowance!Withdraw, Allowance!Next

LEMMA StepMaps ==
  ASSUME FinitelyMany
  PROVE  Inv /\ [Next]_vars => [Allowance!Next]_(Allowance!vars)
<1> SUFFICES ASSUME Inv, [Next]_vars
             PROVE  [Allowance!Next]_(Allowance!vars)
  OBVIOUS
<1>1. CASE \E p \in Pinners : PinStep(p)
  BY <1>1, PinMaps
<1>2. CASE \E p \in Pages : PageStep(p)
  BY <1>2, PageMaps
<1>3. CASE \E s \in Slabs : Unpin(s)
  <2>1. PICK s \in Slabs : Unpin(s)
    BY <1>3
  <2>2. Allowance!Unpin(s)
    BY <2>1 DEF Unpin, DeletePin, HoldersOf, Allowance!Unpin
  <2>3. QED
    BY <2>1, <2>2 DEF Allowance!Next
<1>7. CASE \E q \in Prunes : PruneStep(q)
  <2>1. PICK q \in Prunes : PruneStep(q)
    BY <1>7
  <2>2. CASE ListPin(q)
    BY <2>2 DEF ListPin, HoldersOf, Allowance!vars
  <2>3. CASE PrunePin(q)
    <3>1. victim[q] \in Slabs
      BY <2>3 DEF PrunePin, DeletePin, Inv, TypeOK
    <3>2. Allowance!Unpin(victim[q])
      BY <2>3 DEF PrunePin, DeletePin, HoldersOf, Allowance!Unpin
    <3>3. QED
      BY <3>1, <3>2 DEF Allowance!Next
  <2>4. CASE PruneInVain(q)
    BY <2>4 DEF PruneInVain, HoldersOf, Allowance!Forgive, Allowance!Next
  <2>5. QED
    BY <2>1, <2>2, <2>3, <2>4 DEF PruneStep
<1>4. CASE \/ \E k \in {"upload", "download"} : RecordTraffic(k)
           \/ Charge \/ Refund \/ UNCHANGED vars
  <2>1. UNCHANGED <<pins, tickets, surplus>>
    BY <1>4 DEF RecordTraffic, Charge, Refund, vars, pruning
  <2>2. QED
    BY <2>1 DEF HoldersOf, Allowance!vars
<1>5. CASE Restart
  <2>1. UNCHANGED <<pins, surplus>> /\ HoldersOf("storage")' \subseteq HoldersOf("storage")
    BY <1>5 DEF Restart, HoldersOf
  <2>2. QED
    BY <2>1 DEF Allowance!Withdraw, Allowance!Next
<1>6. QED
  BY <1>1, <1>2, <1>3, <1>4, <1>5, <1>7 DEF Next

-----------------------------------------------------------------------------
(* The reservations and charges of the quota service are natural numbers:  *)
(* nothing is released or charged that was not reserved.                   *)
THEOREM TypeCorrect ==
  ASSUME FinitelyMany
  PROVE  Spec => []TypeOK
BY SpecInv, PTL DEF Inv

(* Every path of pinAndRecord and of ConnectQuotaCheck gives back what it  *)
(* reserved, but for the failed CreatePin and for a restart.               *)
THEOREM EveryReservationAccounted ==
  ASSUME FinitelyMany
  PROVE  Spec => []ReservationsAccounted
BY SpecInv, PTL DEF Inv

(* Overlapping pins, late events and failures get a user no more slabs     *)
(* than the plan allows, but for one per surplus unpinned event of a prune.*)
THEOREM NeverBeyondLimit ==
  ASSUME FinitelyMany
  PROVE  Spec => []PinsWithinLimit
<1>1. Inv => PinsWithinLimit
  BY InvWithinLimit
<1>2. QED
  BY <1>1, SpecInv, PTL

(* The check lets through only what the pins themselves leave room for,    *)
(* and the surplus unpinned events, which the allowance forgives.          *)
THEOREM ImplementsSlabAllowance ==
  ASSUME FinitelyMany
  PROVE  Spec => ImplementsAllowance
<1>1. Init => Allowance!Init
  BY DEF Init, HoldersOf, Allowance!Init
<1>2. Inv /\ [Next]_vars => [Allowance!Next]_(Allowance!vars)
  BY StepMaps
<1>3. QED
  BY <1>1, <1>2, SpecInv, PTL DEF Spec, ImplementsAllowance, Allowance!Spec
=============================================================================
