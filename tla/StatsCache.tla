------------------------------- MODULE StatsCache -------------------------------
(***************************************************************************)
(* SiaService.StorageStats: numbers for public reporting, made of two      *)
(* aggregate queries (the uploads of slabs, then the rows of sia_slabs),   *)
(* cached for statsCacheTTL.  Callers that find no valid value enter a     *)
(* singleflight group: the first leads and runs the queries, those that    *)
(* come while it does wait for its outcome.                                *)
(*                                                                         *)
(* A number is the version of the table it was counted in: how often the   *)
(* table had changed.                                                      *)
(***************************************************************************)
EXTENDS Naturals

CONSTANTS
  Callers,     \* requests for the statistics
  None,        \* no leader; not calling
  Failed,      \* the outcome of a refresh that failed
  TTL,         \* sia.go: const statsCacheTTL
  MaxTime,     \* bound: the clock
  MaxChanges,  \* bound: changes of each table
  MaxFaults    \* bound: failed queries

ASSUME StatsCacheAssumption ==
  /\ None \notin Callers
  /\ TTL \in Nat /\ MaxTime \in Nat /\ MaxChanges \in Nat /\ MaxFaults \in Nat

VARIABLES
  now,      \* the clock
  uploads, slabs,   \* versions of the two tables
  cache,    \* statsCache: the value stored last, and when it expires
  leader,   \* statsGroup: whose call is in flight
  pc,       \* where every caller is in StorageStats
  found,    \* what a caller has got so far, or from the group
  asked,    \* history: what had been given when a caller called
  given,    \* history: the newest numbers given to anybody
  last,     \* history: the numbers given last
  faults

db == <<uploads, slabs>>
history == <<asked, given, last>>
vars == <<now, db, cache, leader, pc, found, history, faults>>

Public == INSTANCE PublicStats

Versions == 0 .. MaxChanges
Stats == [uploads : Versions, slabs : Versions]
NoStats == [uploads |-> 0, slabs |-> 0]
Steps == {"idle", "enter", "wait", "recheck", "uploads", "slabs", "store", "finish", "return"}

ASSUME OutcomeAssumption == Failed \notin Stats /\ None \notin Stats

TypeOK ==
  /\ now \in 0 .. MaxTime
  /\ uploads \in Versions /\ slabs \in Versions
  /\ cache \in [set : BOOLEAN, stats : Stats, expires : 0 .. MaxTime + TTL]
  /\ leader \in Callers \cup {None}
  /\ pc \in [Callers -> Steps]
  /\ found \in [Callers -> Stats \cup {Failed}]
  /\ asked \in [Callers -> Stats \cup {None}]
  /\ given \in Stats /\ last \in Stats
  /\ faults \in 0 .. MaxFaults

Init ==
  /\ now = 0
  /\ uploads = 0 /\ slabs = 0
  /\ cache = [set |-> FALSE, stats |-> NoStats, expires |-> 0]
  /\ leader = None
  /\ pc = [c \in Callers |-> "idle"]
  /\ found = [c \in Callers |-> NoStats]
  /\ asked = [c \in Callers |-> None]
  /\ given = NoStats /\ last = NoStats
  /\ faults = 0

-----------------------------------------------------------------------------
Tick ==
  /\ now < MaxTime
  /\ now' = now + 1
  /\ UNCHANGED <<db, cache, leader, pc, found, history, faults>>

(* A pin or an unpin changes the tables one after the other.               *)
Change ==
  /\ \/ uploads < MaxChanges /\ uploads' = uploads + 1 /\ UNCHANGED slabs
     \/ slabs < MaxChanges /\ slabs' = slabs + 1 /\ UNCHANGED uploads
  /\ UNCHANGED <<now, cache, leader, pc, found, history, faults>>

(* cached != nil && time.Now().Before(cached.expiresAt)                    *)
Valid == cache.set /\ now < cache.expires

Goto(c, step) == pc' = [pc EXCEPT ![c] = step]

(* Take the cached value and go on to step, or else to another.            *)
TakeCached(c, step, otherwise) ==
  IF Valid
    THEN found' = [found EXCEPT ![c] = cache.stats] /\ Goto(c, step)
    ELSE UNCHANGED found /\ Goto(c, otherwise)

Load(c) ==
  /\ pc[c] = "idle"
  /\ TakeCached(c, "return", "enter")
  /\ asked' = [asked EXCEPT ![c] = given]
  /\ UNCHANGED <<now, db, cache, leader, given, last, faults>>

(* Mutant: no group, everybody queries.                                    *)
EnterAlone(c) ==
  /\ pc[c] = "enter"
  /\ leader' = c
  /\ Goto(c, "recheck")
  /\ UNCHANGED <<now, db, cache, found, history, faults>>

(* statsGroup.Do: lead, or wait for who does.                              *)
Enter(c) ==
  /\ pc[c] = "enter"
  /\ IF leader = None
       THEN leader' = c /\ Goto(c, "recheck")
       ELSE Goto(c, "wait") /\ UNCHANGED leader
  /\ UNCHANGED <<now, db, cache, found, history, faults>>

(* Mutant: no second look at the cache.                                    *)
RecheckSkipped(c) ==
  /\ pc[c] = "recheck"
  /\ Goto(c, "uploads")
  /\ UNCHANGED <<now, db, cache, leader, found, history, faults>>

(* Another leader may have refreshed the cache between Load and Do.        *)
Recheck(c) ==
  /\ pc[c] = "recheck"
  /\ TakeCached(c, "finish", "uploads")
  /\ UNCHANGED <<now, db, cache, leader, history, faults>>

(* queryStorageStats: two transactions, then the store.                    *)
QueryUploads(c) ==
  /\ pc[c] = "uploads"
  /\ found' = [found EXCEPT ![c] = [uploads |-> uploads, slabs |-> 0]]
  /\ Goto(c, "slabs")
  /\ UNCHANGED <<now, db, cache, leader, history, faults>>

QuerySlabs(c) ==
  /\ pc[c] = "slabs"
  /\ found' = [found EXCEPT ![c] = [uploads |-> found[c].uploads, slabs |-> slabs]]
  /\ Goto(c, "store")
  /\ UNCHANGED <<now, db, cache, leader, history, faults>>

(* A query fails; the leader's request may just have been given up, since  *)
(* its context is that of the queries.                                     *)
QueryFails(c) ==
  /\ pc[c] \in {"uploads", "slabs"}
  /\ faults < MaxFaults /\ faults' = faults + 1
  /\ found' = [found EXCEPT ![c] = Failed]
  /\ Goto(c, "finish")
  /\ UNCHANGED <<now, db, cache, leader, history>>

(* Mutant: the duration is added twice.                                    *)
StoreTwiceAsLong(c) ==
  /\ pc[c] = "store"
  /\ cache' = [set |-> TRUE, stats |-> found[c], expires |-> now + TTL + TTL]
  /\ Goto(c, "finish")
  /\ UNCHANGED <<now, db, leader, found, history, faults>>

Store(c) ==
  /\ pc[c] = "store"
  /\ cache' = [set |-> TRUE, stats |-> found[c], expires |-> now + TTL]
  /\ Goto(c, "finish")
  /\ UNCHANGED <<now, db, leader, found, history, faults>>

(* Mutant: the outcome of a failed refresh is not handed to who waits.     *)
FinishAlone(c) ==
  LET done == {c} \cup {d \in Callers : pc[d] = "wait" /\ found[c] # Failed} IN
  /\ pc[c] = "finish"
  /\ leader' = None
  /\ pc' = [d \in Callers |-> IF d \in done THEN "return" ELSE pc[d]]
  /\ found' = [d \in Callers |-> IF d \in done THEN found[c] ELSE found[d]]
  /\ UNCHANGED <<now, db, cache, history, faults>>

(* The group's call ends: whoever waits has the leader's outcome.          *)
Finish(c) ==
  LET done == {c} \cup {d \in Callers : pc[d] = "wait"} IN
  /\ pc[c] = "finish"
  /\ leader' = None
  /\ pc' = [d \in Callers |-> IF d \in done THEN "return" ELSE pc[d]]
  /\ found' = [d \in Callers |-> IF d \in done THEN found[c] ELSE found[d]]
  /\ UNCHANGED <<now, db, cache, history, faults>>

(* Callers return at their own pace: the error, or a copy of the numbers.  *)
Return(c) ==
  /\ pc[c] = "return"
  /\ IF found[c] = Failed
       THEN UNCHANGED <<given, last>>
       ELSE last' = found[c] /\ given' = Public!Newest(given, found[c])
  /\ asked' = [asked EXCEPT ![c] = None]
  /\ found' = [found EXCEPT ![c] = NoStats]
  /\ Goto(c, "idle")
  /\ UNCHANGED <<now, db, cache, leader, faults>>

Progress(c) ==
  \/ Enter(c) \/ Recheck(c)
  \/ QueryUploads(c) \/ QuerySlabs(c) \/ QueryFails(c) \/ Store(c)
  \/ Finish(c) \/ Return(c)

Call(c) == Load(c) \/ Progress(c)

Next == Tick \/ Change \/ \E c \in Callers : Call(c)

Spec == Init /\ [][Next]_vars

(* A goroutine that is not blocked runs on; nobody has to call.            *)
FairSpec == Spec /\ \A c \in Callers : WF_vars(Progress(c))

-----------------------------------------------------------------------------
(* Between the door of the group and its end.                              *)
Leading == {"recheck", "uploads", "slabs", "store", "finish"}

Refreshing == {c \in Callers : pc[c] \in {"uploads", "slabs", "store"}}

(* "Results are cached for statsCacheTTL to avoid unbounded aggregate      *)
(* scans", "only one goroutine runs the queries while the rest wait": no   *)
(* two callers refresh at once, and none while the cached value is valid,  *)
(* also not one who found it expired and was slow to enter the group.      *)
RefreshedWhenExpired ==
  /\ \A c, d \in Refreshing : c = d
  /\ Refreshing # {} => ~Valid

(* Whoever waits for the group has a leader that is on its way to the end  *)
(* of the call: nobody can come to wait after the leader has handed out    *)
(* the outcome, and no failure takes the leader away.                      *)
WaitersAreLed ==
  \A c \in Callers : pc[c] = "wait" =>
    leader # None /\ pc[leader] \in Leading

(* To its callers the service is one that counts: no answer is older than  *)
(* one that anybody had been given when the call was made, so no refresh   *)
(* that began earlier overwrites a later one, and no group's outcome is    *)
(* older than what its followers, or others before they called, had seen.  *)
ImplementsPublicStats == Public!Spec

(* Every caller is answered: one who waits for another's refresh is not    *)
(* left behind when that refresh fails, or finds that it need not be, or   *)
(* when others keep coming.                                                *)
EveryCallReturns == \A c \in Callers : pc[c] # "idle" ~> pc[c] = "idle"
=============================================================================
