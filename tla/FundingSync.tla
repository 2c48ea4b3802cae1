------------------------------ MODULE FundingSync ------------------------------
(***************************************************************************)
(* QuotaService.SyncFunding (src/internal/service/quota/quota.go): a cron  *)
(* run walks indexd's funding feed from the persisted global cursor, page  *)
(* by page.  For every event it reads the owner's sia_accounts row, skips  *)
(* the event when the row's LastFundingEventID has reached it, saves the   *)
(* row with the new LastFundingEventID and only then records the event's   *)
(* upload and download bytes with the portal's quota service.  After each  *)
(* page it saves the global cursor.                                        *)
(*                                                                         *)
(* An event's ID is its position in the feed; indexd serves the feed in    *)
(* that order.  The bytes of an event are the set of meters they go to.    *)
(* An event names its account by a key, a quota name or an app's public    *)
(* key, and whether that key finds a row is decided when the event is      *)
(* processed.  The row has other writers: UpdateFundTargetBytes and        *)
(* ProvisionAccount read it, call indexd and save all of its columns,      *)
(* LastFundingEventID included, at any time during a sync.                 *)
(***************************************************************************)
EXTENDS Naturals, Sequences

CONSTANTS
  Users,      \* owners of the sia_accounts rows
  Keys,       \* the quota names and app public keys that events carry
  UserOf,     \* the user whose row a key finds, while it finds one
  Loads,      \* the sets of meters that the bytes of an event go to
  Workers,    \* runs of the cron job that may be in progress at once
  Writers,    \* calls of the other writers that may be in progress at once
  None,       \* no row in hand
  PageSize,   \* quota.go: const pageSize = 500
  MaxEvents,  \* bound: length of the feed
  MaxChanges, \* bound: other writers' calls and keys that begin or cease to find a row
  MaxFaults   \* bound: failed calls and crashes of the sync

ASSUME FundingSyncAssumption ==
  /\ UserOf \in [Keys -> Users]
  /\ Loads \subseteq SUBSET {"upload", "download"}
  /\ None \notin [user : Users, mark : 0 .. MaxEvents]
  /\ PageSize \in Nat \ {0}
  /\ MaxEvents \in Nat
  /\ MaxChanges \in Nat
  /\ MaxFaults \in Nat

VARIABLES
  feed,       \* indexd: the funding events published so far
  cursor,     \* sia_funding_cursors row 1: LastFundingEventID
  lastEvent,  \* sia_accounts: LastFundingEventID of every user's row
  known,      \* the keys that find a row now
  changes,    \* number of other writers' calls and changes of known so far
  copy,       \* the row every other writer has read and will save
  recorded,   \* quota service: how often each event's bytes were recorded
  pc,         \* where every worker is in SyncFunding
  pos,        \* fundingCursor.ID, the worker's own copy of the cursor
  next,       \* the event of the page in hand that is being processed
  last,       \* the last event of the page in hand
  seen,       \* account.LastFundingEventID as the lookup read it
  todo,       \* meters the event in hand must still be recorded on
  faults,     \* number of failed calls and crashes so far
  failed,     \* history: events some call of whose processing failed
  skipped,    \* history: events whose key found no row when looked up
  again       \* history: how often a stale save took an event's owner back
              \*   to before the event

rows == <<lastEvent, recorded, again>>
others == <<known, copy, changes>>
local == <<pc, pos, next, last, seen, todo>>
vars == <<feed, cursor, rows, others, local, faults, failed, skipped>>

Meters == {"upload", "download"}
Ids == 1 .. MaxEvents
Event == [key : Keys, bytes : Loads]
Row == [user : Users, mark : 0 .. MaxEvents]
Steps == {"idle", "fetch", "lookup", "save", "record", "persist"}

Owner(e) == UserOf[feed[e].key]
Found(e) == feed[e].key \in known

TypeOK ==
  /\ feed \in Seq(Event) /\ Len(feed) <= MaxEvents
  /\ cursor \in 0 .. Len(feed)
  /\ lastEvent \in [Users -> 0 .. Len(feed)]
  /\ recorded \in [Ids -> [Meters -> Nat]]
  /\ again \in [Ids -> Nat]
  /\ known \subseteq Keys
  /\ changes \in 0 .. MaxChanges
  /\ copy \in [Writers -> Row \cup {None}]
  /\ \A v \in Writers : copy[v] # None => copy[v].mark <= Len(feed)
  /\ pc \in [Workers -> Steps]
  /\ pos \in [Workers -> 0 .. Len(feed)]
  /\ next \in [Workers -> 0 .. Len(feed)]
  /\ last \in [Workers -> 0 .. Len(feed)]
  /\ seen \in [Workers -> 0 .. Len(feed)]
  /\ todo \in [Workers -> SUBSET Meters]
  /\ faults \in 0 .. MaxFaults
  /\ failed \subseteq Ids
  /\ skipped \subseteq Ids

Init ==
  /\ feed = <<>>
  /\ cursor = 0
  /\ lastEvent = [u \in Users |-> 0]
  /\ recorded = [e \in Ids |-> [m \in Meters |-> 0]]
  /\ again = [e \in Ids |-> 0]
  /\ known \in SUBSET Keys
  /\ changes = 0
  /\ copy = [v \in Writers |-> None]
  /\ pc = [w \in Workers |-> "idle"]
  /\ pos = [w \in Workers |-> 0]
  /\ next = [w \in Workers |-> 0]
  /\ last = [w \in Workers |-> 0]
  /\ seen = [w \in Workers |-> 0]
  /\ todo = [w \in Workers |-> {}]
  /\ faults = 0
  /\ failed = {}
  /\ skipped = {}

-----------------------------------------------------------------------------
(* indexd funds a pool or an account and appends the event to its feed.    *)
Publish ==
  /\ Len(feed) < MaxEvents
  /\ \E ev \in Event : feed' = Append(feed, ev)
  /\ UNCHANGED <<cursor, rows, others, local, faults, failed, skipped>>

(* Something happens to the account rows: at most MaxChanges times.        *)
Change ==
  /\ changes < MaxChanges
  /\ changes' = changes + 1

(* An app connects or its account is removed, an account row is created:   *)
(* from now on the key finds a row, or finds none.                         *)
Link ==
  /\ Change
  /\ \E k \in Keys : known' = IF k \in known THEN known \ {k} ELSE known \cup {k}
  /\ UNCHANGED <<feed, cursor, rows, copy, local, faults, failed, skipped>>

(* A row saved with an older mark opens the events in between again: those *)
(* of user u with after < ID <= upto.                                      *)
Reopened(u, after, upto) == {e \in 1 .. Len(feed) : Owner(e) = u /\ after < e /\ e <= upto}
CountAgain(events) == again' = [e \in Ids |-> IF e \in events THEN again[e] + 1 ELSE again[e]]

(* UpdateFundTargetBytes (under a mutex the sync does not take) or         *)
(* ProvisionAccount (under none) reads the row, ...                        *)
ReadRow(v) ==
  /\ copy[v] = None
  /\ Change
  /\ \E u \in Users : copy' = [copy EXCEPT ![v] = [user |-> u, mark |-> lastEvent[u]]]
  /\ UNCHANGED <<feed, cursor, rows, known, local, faults, failed, skipped>>

(* ... and after its calls to indexd saves every column as it read it, ... *)
SaveRow(v) ==
  /\ copy[v] # None
  /\ lastEvent' = [lastEvent EXCEPT ![copy[v].user] = copy[v].mark]
  /\ CountAgain(Reopened(copy[v].user, copy[v].mark, lastEvent[copy[v].user]))
  /\ copy' = [copy EXCEPT ![v] = None]
  /\ UNCHANGED <<feed, cursor, recorded, known, changes, local, faults, failed, skipped>>

(* ... unless one of the calls fails.                                      *)
DropRow(v) ==
  /\ copy[v] # None
  /\ copy' = [copy EXCEPT ![v] = None]
  /\ UNCHANGED <<feed, cursor, rows, known, changes, local, faults, failed, skipped>>

-----------------------------------------------------------------------------
(* A call fails or the process dies: at most MaxFaults times.              *)
Fault ==
  /\ faults < MaxFaults
  /\ faults' = faults + 1

Goto(w, step) == pc' = [pc EXCEPT ![w] = step]

(* The run returns, and its variables are gone.                            *)
EndRun(w) ==
  /\ Goto(w, "idle")
  /\ pos' = [pos EXCEPT ![w] = 0]
  /\ next' = [next EXCEPT ![w] = 0]
  /\ last' = [last EXCEPT ![w] = 0]
  /\ seen' = [seen EXCEPT ![w] = 0]
  /\ todo' = [todo EXCEPT ![w] = {}]

(* The loop over the page: on to the next event, or to saving the cursor.  *)
FinishEvent(w) ==
  IF next[w] < last[w]
    THEN /\ next' = [next EXCEPT ![w] = @ + 1]
         /\ Goto(w, "lookup")
    ELSE /\ UNCHANGED next
         /\ Goto(w, "persist")

-----------------------------------------------------------------------------
(* Mutant: the run walks the feed from its beginning.                      *)
StartFromScratch(w) ==
  /\ pc[w] = "idle"
  /\ pos' = [pos EXCEPT ![w] = 0]
  /\ Goto(w, "fetch")
  /\ UNCHANGED <<feed, cursor, rows, others, next, last, seen, todo, faults, failed, skipped>>

(* The cron tick: GetFundingCursor.                                        *)
StartSync(w) ==
  /\ pc[w] = "idle"
  /\ pos' = [pos EXCEPT ![w] = cursor]
  /\ Goto(w, "fetch")
  /\ UNCHANGED <<feed, cursor, rows, others, next, last, seen, todo, faults, failed, skipped>>

(* FundingEvents answers with the first PageSize events after pos; an      *)
(* empty page ends the run.                                                *)
FetchPage(w) ==
  /\ pc[w] = "fetch"
  /\ IF pos[w] = Len(feed)
       THEN EndRun(w)
       ELSE /\ Goto(w, "lookup")
            /\ next' = [next EXCEPT ![w] = pos[w] + 1]
            /\ last' = [last EXCEPT ![w] = IF pos[w] + PageSize < Len(feed)
                                           THEN pos[w] + PageSize
                                           ELSE Len(feed)]
            /\ UNCHANGED <<pos, seen, todo>>
  /\ UNCHANGED <<feed, cursor, rows, others, faults, failed, skipped>>

(* Mutants of the dedup: left out, and off by one.                         *)
NoDedup(e) == FALSE
StrictDedup(e) == e < lastEvent[Owner(e)]

(* The row is found and read: an event the row has already reached is      *)
(* skipped.                                                                *)
AlreadyProcessed(e) == e <= lastEvent[Owner(e)]

Lookup(w) ==
  /\ pc[w] = "lookup"
  /\ Found(next[w])
  /\ IF AlreadyProcessed(next[w])
       THEN FinishEvent(w) /\ UNCHANGED seen
       ELSE /\ seen' = [seen EXCEPT ![w] = lastEvent[Owner(next[w])]]
            /\ Goto(w, "save")
            /\ UNCHANGED next
  /\ UNCHANGED <<feed, cursor, rows, others, pos, last, todo, faults, failed, skipped>>

(* A pool event without quota name, or a key that finds no row: the event  *)
(* is skipped for good, with a debug line or without any.                  *)
LookupMiss(w) ==
  /\ pc[w] = "lookup"
  /\ ~Found(next[w])
  /\ skipped' = skipped \cup {next[w]}
  /\ FinishEvent(w)
  /\ UNCHANGED <<feed, cursor, rows, others, pos, last, seen, todo, faults, failed>>

(* A lookup that fails skips the event just the same.                      *)
LookupError(w) ==
  /\ pc[w] = "lookup"
  /\ Fault
  /\ failed' = failed \cup {next[w]}
  /\ FinishEvent(w)
  /\ UNCHANGED <<feed, cursor, rows, others, pos, last, seen, todo, skipped>>

(* The row is saved with the event's ID before any byte is recorded.  What *)
(* the row reached since it was looked up is opened again.                 *)
SaveAccount(w) ==
  LET e == next[w] IN
  /\ pc[w] = "save"
  /\ lastEvent' = [lastEvent EXCEPT ![Owner(e)] = e]
  /\ CountAgain(Reopened(Owner(e), seen[w], lastEvent[Owner(e)]) \ 1 .. e - 1)
  /\ seen' = [seen EXCEPT ![w] = 0]
  /\ todo' = [todo EXCEPT ![w] = feed[e].bytes]
  /\ IF feed[e].bytes = {}
       THEN FinishEvent(w)
       ELSE Goto(w, "record") /\ UNCHANGED next
  /\ UNCHANGED <<feed, cursor, recorded, others, pos, last, faults, failed, skipped>>

SaveError(w) ==
  /\ pc[w] = "save"
  /\ Fault
  /\ failed' = failed \cup {next[w]}
  /\ seen' = [seen EXCEPT ![w] = 0]
  /\ FinishEvent(w)
  /\ UNCHANGED <<feed, cursor, rows, others, pos, last, todo, skipped>>

(* RecordUpload comes before RecordDownload.                               *)
NextMeter(w) == IF "upload" \in todo[w] THEN "upload" ELSE "download"

(* Mutant: "else if" between the two records.                              *)
FirstMeterOnly(w) ==
  /\ todo' = [todo EXCEPT ![w] = {}]
  /\ FinishEvent(w)

MeterDone(w) ==
  /\ todo' = [todo EXCEPT ![w] = @ \ {NextMeter(w)}]
  /\ IF todo[w] = {NextMeter(w)}
       THEN FinishEvent(w)
       ELSE UNCHANGED <<pc, next>>

Record(w) ==
  /\ pc[w] = "record"
  /\ recorded' = [recorded EXCEPT ![next[w]][NextMeter(w)] = @ + 1]
  /\ MeterDone(w)
  /\ UNCHANGED <<feed, cursor, lastEvent, again, others, pos, last, seen, faults, failed, skipped>>

(* A record call that fails is logged and not repeated.                    *)
RecordError(w) ==
  /\ pc[w] = "record"
  /\ Fault
  /\ failed' = failed \cup {next[w]}
  /\ MeterDone(w)
  /\ UNCHANGED <<feed, cursor, rows, others, pos, last, seen, skipped>>

(* A page shorter than PageSize was the last one.                          *)
OnToNextPage(w) ==
  IF last[w] - pos[w] = PageSize
    THEN /\ Goto(w, "fetch")
         /\ pos' = [pos EXCEPT ![w] = last[w]]
         /\ UNCHANGED <<next, last, seen, todo>>
    ELSE EndRun(w)

(* Mutants: the cursor moves by a full page; it moves in memory only.      *)
PersistFullPage(w) ==
  /\ pc[w] = "persist"
  /\ cursor' = pos[w] + PageSize
  /\ OnToNextPage(w)
  /\ UNCHANGED <<feed, rows, others, faults, failed, skipped>>

PersistNothing(w) ==
  /\ pc[w] = "persist"
  /\ OnToNextPage(w)
  /\ UNCHANGED <<feed, cursor, rows, others, faults, failed, skipped>>

(* The global cursor moves to the last event of the page.                  *)
PersistCursor(w) ==
  /\ pc[w] = "persist"
  /\ cursor' = last[w]
  /\ OnToNextPage(w)
  /\ UNCHANGED <<feed, rows, others, faults, failed, skipped>>

(* Fetching a page or saving the cursor fails (the run returns the error), *)
(* or the process dies: the run ends, and what it had still to record of   *)
(* the event in hand is never recorded.                                    *)
Abort(w) ==
  /\ pc[w] # "idle"
  /\ Fault
  /\ EndRun(w)
  /\ failed' = IF pc[w] = "record" THEN failed \cup {next[w]} ELSE failed
  /\ UNCHANGED <<feed, cursor, rows, others, skipped>>

-----------------------------------------------------------------------------
Run(w) ==
  \/ StartSync(w)
  \/ FetchPage(w)
  \/ Lookup(w)
  \/ LookupMiss(w)
  \/ SaveAccount(w)
  \/ Record(w)
  \/ PersistCursor(w)

Failure(w) ==
  \/ LookupError(w)
  \/ SaveError(w)
  \/ RecordError(w)
  \/ Abort(w)

(* What the rest of the program and indexd do meanwhile.                   *)
Meanwhile ==
  \/ Publish
  \/ Link
  \/ \E v \in Writers : ReadRow(v) \/ SaveRow(v) \/ DropRow(v)

Next ==
  \/ Meanwhile
  \/ \E w \in Workers : Run(w) \/ Failure(w)

Spec == Init /\ [][Next]_vars

(* The cron tick comes every five minutes and a run goes on until it       *)
(* returns; faults are not fair, and MaxFaults bounds them.                *)
FairSpec == Spec /\ \A w \in Workers : WF_vars(Run(w))

-----------------------------------------------------------------------------
(* At most one run is in progress.                                         *)
OneAtATime == \A v, w \in Workers : v = w

(* An event's bytes are recorded on a meter once, and once more only for   *)
(* every time that a save of an older copy of the row opened the event     *)
(* again ("Dedup: skip events we've already processed for this account",   *)
(* quota.go:544): a crash or a failed cursor save, after which a run walks *)
(* the same page again, is never a reason.                                 *)
RepeatsAccounted == \A e \in Ids, m \in Meters : recorded[e][m] <= 1 + again[e]

Recording(e, m) == \E w \in Workers : pc[w] = "record" /\ next[w] = e /\ m \in todo[w]

Settled(e) ==
  \/ e \in skipped
  \/ e \in failed
  \/ \A m \in feed[e].bytes : recorded[e][m] > 0 \/ Recording(e, m)

(* Every event the global cursor has passed had its bytes recorded, unless *)
(* its key found no row when it was looked up or a call made for it        *)
(* failed: neither the per-account dedup, nor a mark that another writer   *)
(* puts back or forth, nor the page arithmetic loses an event.             *)
PassedIsSettled == \A e \in 1 .. cursor : Settled(e)

(* The global cursor never moves back, so a restarted run repeats at most  *)
(* the page that was in hand.                                              *)
CursorAdvances == [][cursor' >= cursor]_vars

(* The whole of it refines the ledger: billing once per opening of an      *)
(* event, in feed order per user, never behind the cursor, which moves by  *)
(* at most a page.                                                         *)
Ledger == INSTANCE FundingLedger
            WITH watermark <- cursor, billed <- recorded, reopened <- again
ImplementsLedger == Ledger!Spec

(* Once the faults stop, every published event is passed by the cursor.    *)
CatchesUp == \A e \in Ids : Len(feed) >= e ~> cursor >= e
=============================================================================
