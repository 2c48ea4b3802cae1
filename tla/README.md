# Specifications of portal-plugin-sia

TLA+ specifications of the Sia plugin of the LumeWeb portal. The plugin stands
between apps that store data on Sia and *indexd*, the service that keeps the
slabs, the accounts and the quotas. It forwards most requests to indexd and
keeps rows of its own beside them: who connected which app, which account has
which slab, what a user may be funded with, and how far the billing of funded
bytes has come. indexd, the portal's pins, uploads and quotas, and the plugin's
own tables are changed by separate calls, one after the other, from requests
and cron jobs that run side by side. What these specifications are about is
what is left when such a chain of calls is interleaved, fails or stops.

Module names below are files of this directory; paths are of the repository.

## The system

| Part | Source | State | Operations | Specification |
|---|---|---|---|---|
| Funding sync | `internal/service/quota/quota.go` (`SyncFunding`), `internal/cron` | `sia_funding_cursors` (one row), `sia_accounts.last_funding_event_id` | a cron run walks indexd's funding feed page by page and records bytes with the portal's quota service | `FundingSync`, `FundingLedger` |
| Slab and object registry | `internal/service/sia/sia.go`, `internal/api/indexd.go` | `sia_slabs`, `sia_objects`, `sia_object_slabs`; the portal's pins and uploads; storage events | pin and unpin a slab or object, prune slabs, disconnect an app, prune an account | `SlabRegistry` |
| Sia account and fund target | `internal/service/quota/quota.go`, `internal/service/sia/sia.go`, `internal/cron/funding_sync.go`, `internal/api/connect_ui.go` | `sia_accounts`; a mutex per user; the cached number of active contracts; the quota at indexd | provision, count the apps and enforce the funding target, check the quota on the connect page | `SiaAccount` |
| App connection | `internal/api/connect*.go`, `internal/api/apps.go`, `internal/service/sia/sia.go` | `sia_auth_requests`, `sia_app_accounts`; request status and app accounts at indexd | open, approve, reject, register, disconnect, clean up | `Connect`, `Delegation` |
| Storage statistics | `internal/service/sia/sia.go` (`StorageStats`) | a cached value with an expiry, a singleflight group | read through the cache | `StatsCache`, `PublicStats` |
| Quota reservations | `internal/quota/quota.go`, `internal/api/indexd.go`, `internal/service/quota/quota.go` (`ConnectQuotaCheck`) | reservations in the portal's quota service | reserve before a pin or a connect, release when it ends otherwise | `Reservations`, `SlabAllowance` |
| Signed-URL verification | `internal/api/sia_auth_middleware.go` | none | parse, verify, look the key up | only its last lookup, `Connect!ActsAs` |
| App list, connect page | `internal/api/apps.go`, `connect_ui.go` | none | read-only queries, HTML | not modelled |
| Proxy, routing, protocol adapter, hashes | `internal/api/api.go`, `proxy.go`, `internal/protocol` | none | transport and delegation | not modelled |
| Rows and migrations | `internal/db` | the tables | soft delete, unique indexes | in the module of each table |
| Cron jobs | `internal/cron` | none | start a sync and the enforcements; clean up auth rows | actions, and the fairness |
| Configuration, metrics, events, info | `internal/config`, `internal/events`, `internal/info` | settings, counters | registration | not modelled |

How they interact. An app *connects*: it opens a request, the user approves it
on the connect page, which provisions the user's Sia account if need be; then
the app registers its key, and the portal links the key to the user. From then
on a request signed with the key reaches the *registry*, which asks the quota
service, forwards to indexd and writes its rows, pin, upload and storage event.
Pins, unpins, changes of plan and the cron job start *enforcements* of the
user's fund target. The cron job also starts the *funding sync*, which shares
the `sia_accounts` row with the provisioning and the enforcements. Removing an
app deletes its account at indexd and its row.

What is hard here:

- **No transaction spans two systems.** A row is written before or after a call
  to indexd or to the quota service, and either may fail.
- **Rows are read whole and saved whole** (`tx.Save`) by three pieces of code,
  of which one takes the mutex.
- **Rows are deleted softly and the unique indexes cover the deleted rows**, so
  that a second insert meets a row no query shows.
- **Cron runs overlap** when one takes longer than five minutes.
- **Slabs are shared**: several accounts have rows of one slab, and a pin per
  user, but the upload is one.
- **Errors are logged and the request goes on** at many steps.

### What makes each part correct

- Funding sync: no event billed twice on a meter but for a stale save of its
  owner's row; none lost but those whose owner has no row when they are looked up,
  and those some call of whose processing failed; the global cursor never back;
  the whole feed passed in the end.
- Registry: every pin can be found by somebody who will remove it; a prune spares
  the slabs others use; a user is charged for exactly the slabs pinned, but for
  what three steps that get it wrong have done.
- Account: the row agrees with indexd when nobody is midway, except after three
  kinds of accident; keys, once there, stay and are real; the target settles on what plan and usage call for; who is
  entitled gets in, and who is not is not funded; what has settled stays settled
  until something changes or fails; no connect keys are issued
  beyond those of racing or failed provisionings.
- Connection: a key acts only for a user who approved it, and is not taken from
  one user by another's registration; the portal and indexd agree whose it is;
  rows of requests do not stay for ever.
- Statistics: counted by one caller at a time and only when the cached numbers
  have expired; nobody gets older numbers than anybody had been given when they
  asked; everybody is answered, and waits only for somebody at work.
- Reservations: every reservation is consumed or released, except where a pin
  could not be created; of the slabs pinned, no more are beyond the plan than
  prunes have given back without deleting a pin.

## Plan

| Order | Module | Builds on | State |
|---|---|---|---|
| 1 | `FundingSync`, abstract `FundingLedger`, proofs | | done |
| 2 | `SlabRegistry`, proofs | | done |
| 3 | `SiaAccount`, proofs | | done |
| 4 | `Connect`, proofs | | done |
| 5 | `StatsCache`, proofs | | done |
| 6 | `Reservations`, abstract `SlabAllowance`, proofs | pin chain of `SlabRegistry` | done |
| 7 | The removed app: `DeleteAppAccount` together with the slab rows it leaves live; `PruneAccount` | `Connect`, `SlabRegistry` | done |
| 8 | The fund target by apps, usage and contracts; app counts taken earlier | `SiaAccount` | done |
| 9 | More proofs: `KeysAccounted`; `UsageMatchesPins` for one request at a time; the invariants and the refinement of 6 | | done |
| 10 | Abstract `PublicStats` and `Delegation` with their refinements proved; the safety half of `Converges`; overlapping removals of an app; storage charged under any overlap and failure | 2, 3, 4, 5 | done |
| 11 | The other writers of the row and late account rows beside the sync; what prunes give back beside the reservations; the checks of an enforcement one by one, and when row and indexd drift apart | 1, 3, 6 | done |

Every module is written to be proved about: parameters are constants with named
assumptions, an action per operation, no recursive operator. Each `MC...` module
only holds model values, maps and symmetry sets; each `...Proofs` module extends
the module it is about.

## The modules

Common conventions. `Fault` is the guard of every failing call, cut-off request
and crash, and `MaxFaults` bounds them. A process is a program counter and a
record of locals; an action is what the code does between two points where
another process can see or change something it uses: one database transaction,
one call to indexd or to a portal service, one acquisition of the mutex.
Definitions with a comment that begins with "Mutant:" are deliberately wrong
variants of the definition that follows. No specification uses them; replacing
the definition by its variant breaks the property `PROJECT.json` names, which
shows that the property depends on that code.

### FundingSync and FundingLedger

`feed` is indexd's list of funding events (an event's ID is its position),
`cursor` the global cursor row, `lastEvent` the mark in every account's row,
`recorded` what the quota service has been told. Each worker is a run of
`SyncFunding`: `StartSync` reads the cursor, `FetchPage` gets up to `PageSize`
events, `Lookup` / `LookupMiss` look the owner up by the event's key and apply the
dedup, `SaveAccount` saves the mark, `Record` records one meter after the other,
`PersistCursor` saves the cursor and ends the run after a short page.
`LookupError`, `SaveError`, `RecordError` go on with the next event, as the loop
does; `Abort` ends the run at any step and stands for the calls whose error the
run returns as well as for a crash. The bytes of an event are the set of meters
they go to, since the code tells only zero from non-zero.

Two things happen beside a sync. `Link`: the row an event's key should find may not
be there yet, or no longer, when the event is processed (`known` are the keys that
find one). The event is then skipped, with a debug line or none, and the cursor
passes it. `ReadRow` and `SaveRow`: `UpdateFundTargetBytes` and `ProvisionAccount`
read the row, call indexd and save all its columns, the mark with them
(`Writers`, `copy`; the rest of the row is in `SiaAccount`). `DropRow` is such a
call that fails.

Three history variables keep the account. `failed` has the events some call of whose
processing failed, `skipped` those that found no row. `again` counts for every event
how often a save took its owner's mark from the event or beyond it to before it
(`Reopened`): the old copy of another writer, or, with two syncs at a time, the
sync's own. `RepeatsAccounted` says that only these make an event recorded again,
`PassedIsSettled` that only `failed` and `skipped` events go unrecorded.

`FundingLedger` is the promise: events are billed at most once per meter and
opening, in feed order per user, never at or behind the watermark; the watermark
moves forward by at most a page. `FundingSync!ImplementsLedger` maps `cursor` to
the watermark, `recorded` to what is billed, `again` to what was reopened. A ledger
step may leave an event unbilled; what the sync owes the events it passes is
`PassedIsSettled`.

### SlabRegistry

`slabRow`, `objRow`, `refs` are the three tables (`none`, `live` or `gone`),
`pins`, `uploads` and `usage` the portal's side, `apps`, `held` and `stored`
indexd's. Every request is a chain of actions named after the calls: `Begin...`
is the proxied call indexd accepted, then for a pin `CheckKnown`, `Proxy`,
`RegisterSlab` / `RegisterObject`, `Check`, `SaveUpload`, `CreatePin`; for an
unpin `DeleteSlab` / `DeleteObject`, `ReadPin`, `DeletePin`, `DeleteUpload`; for
a prune `DeleteObjects`, `FindOrphans` and for every orphan `PruneDeleteSlab`,
`CheckInUse`, `GetPins`, `PruneDeletePin` for each, `PruneDeleteUpload`. The
failure actions differ by what the code does with the error: swallow it
(`CheckFails`), log it and go on (`RegisterFails`, `RowFails`, `PruneRowFails`,
`PruneSkipsSlab`, `PruneDeletePinFails`) or return it (`CutOff`, which also
stands for a client that leaves and a server that stops).

Two requests of the portal's account page make one call to indexd each and leave
the rows, pins and uploads alone. `Disconnect` is `DeleteAppAccount`: indexd
forgets the app account with what it held, and nobody can sign for it any more;
its slab rows stay live (what happens to the app's own row is in `Connect`).
`PruneAccount` is one turn of the loop of the service's `PruneAccount`: indexd
drops what no object of that account is made of, and nothing changes here.

`excused` is a history variable. It collects the pins for which the code has no
keeper by construction, each at the step that makes it so: a pin created while no
row is live (after an unpin and a pin of the same slab, the soft-deleted row
absorbs the insert), a pin left when an unpin deleted the last live row or the
last app with one was disconnected, a pin a prune passed by only for the row of a
disconnected app, a pin a prune had in hand when it failed. A live row counts as
a keeper only while its app is connected (`InUse`). `EveryPinHasKeeper` is about
all the others, and it is the interplay of racing prunes that could break it.

`missed` and `surplus` are history too: they count, by user and slab, the slab
pins that went without their unpinned event and the events of pins that did not
go. Three steps count in them: an unpin that finds the upload gone or is cut off
before the event (`missed`), a prune that emits the event of a pin another
request has deleted, and one that emits it after `DeletePin` has failed
(`surplus`). `ChargesAccounted` says that storage charged and slabs pinned differ
by these and by the unpins under way, and by nothing else: it is
`UsageMatchesPins` for any number of overlapping requests and any failures.

A pin is known by its user and hash. The code deletes it by the ID it has read; a
pin deleted and made again in between is taken for the one that was read.

### SiaAccount

One user's row, quota and keys. *Enforcers* are runs of `enforceFundingTarget`,
of two kinds. Those of the cron job are given the number of apps, which the job
counted for all accounts before the first enforcement: `CountApps`, and later
`GetAccount`. Those of pins, unpins and changes of plan count themselves:
`StartEnforce`. Both go on to read what the target depends on, one thing after the
other, `ResolveLimits`, `LoadContracts`, `ListApps`, `CheckStorage`,
`CheckBandwidth`, each of which may also fail and pass, or end in a target of 0;
then `UpdateFundTargetBytes` under the mutex: `Lock`, `Reread`, `ReadQuota`, `PutQuota`, `SaveTarget`. *Provisioners* are
browser tabs: `ViewPage` (with `ConnectQuotaCheck`), `Approve`, then
`ProvisionAccount`: `RegisterAccount`, `LoadAccount`, `ResolveTarget`,
`PutProvision`, `AddKey`, `SaveProvision`. *Syncs* are the part of `SyncFunding`
that saves the same row. `Change` is the rest of the system: the plan, the usage
checks, the apps that connect and disconnect, and the number of active contracts.
`Restart` loses runs, mutexes and the contract count.

Every writer replaces the quota at indexd and then saves the row; `MidwayRuns` are
those between the two. `enforceFundingTarget` believes the row ("Skip update if
unchanged"), so that it matters whether the two agree while nobody is midway. They
need not, and `adrift` is the history variable that knows why: a `PutQuota` was made
while another run was midway (two tabs, or a tab and an update: only updates take the
mutex), a run failed or died midway, or a sync saved an older target over a newer
one. The next `PutQuota` that no other run overlaps clears it. `DriftAccounted` says
that row and quota differ only then; in particular, two updates alone never part
them. It is checked with two updates and no failure, and with two tabs, an update, a
sync and a failure.

`Settled` says when there is nothing left to do: row and quota carry what is
wanted now, and so does whatever any run has in hand and may still write
(`UpToDate`). `SettledStays` is the safety half of `Converges`: no enforcement,
tab or sync that begins then, however they overlap, undoes it.

A fund target is the number of apps it is meant for, because the formula is
linear in it (`BandwidthBytesPerInterval * n / contracts`), and 0 without a plan,
without contracts, or when a usage check refuses what that many apps may use.
`space` and `room` say for how many apps the storage check, and the upload and
download checks, still pass: the enforcement asks all three for the apps
connected, the connect page the latter two for one app more, and provisioning
none. `AppsOf` is the default of one app, `AppsFail` its use when the query fails.

Abstractions: the number of contracts is zero or not, so rounding in the division
is not here, and multiplication does not overflow for any number of apps a user
can have. The page is approved from only where it was shown, and users whose
e-mail address is unverified do not get further: both are checked by the handler
or by the page before `Approve`.

### Reservations and SlabAllowance

One user's quota, in units: a slab; what one more app may upload or download.
`used` and `reserved` are the quota service's numbers, `owed` and `refunds` the
pinned and unpinned events it has not handled yet, `pins` the portal's pins,
`tickets` the reservations a request has in its variables. *Pinners* are runs of
`pinAndRecord`: `BeginPin` checks and reserves in one call of the quota service,
then `Proxy`, `AlreadyPinned`, `SaveUpload`, `CreatePin`. Every early return goes
through `GiveUp`, except that of a failed or refused `CreatePin`, whose reservation
`Orphan` counts as left behind. *Pages* are views of the connect page:
`ReserveUpload`, `ReserveDownload`, `Answer`, and the two ways to refuse.
`Charge` and `Refund` are the quota service handling an event, at any later time;
`RecordTraffic` is the funding sync. `Restart` loses the requests and the events.

What is pinned goes away by `Unpin` (`deletePinAndUpload`) and by prunes. A prune
lists the pins of a slab (`ListPin`, into `victim`) and deletes them later; it emits
the unpinned event for each, also when another request has deleted the pin meanwhile
(`Gone`) or the deletion fails: `PruneInVain`. `surplus` counts these events, and
`MaxSurplus` bounds them. Each makes room at the quota service that is not there, and
lets one pin more through than the plan allows: `PinsWithinLimit` says that nothing
else does. Why a slab is an orphan is the business of `SlabRegistry`; here a prune may
come upon any pin.

`SlabAllowance` is the promise of the storage check, in terms of the pins alone:
a request is let through only when there is room for its pin beside the pins
there are and those of the requests let through before, a slab for every surplus
event forgiven (`Forgive`). `ImplementsAllowance` maps the pins, the requests that
hold a storage reservation, and `surplus`. The quota service's numbers run behind the
pins, and that they let none through beyond these is what the refinement says.

### Connect

`status`, `approver`, `account` are indexd's requests and app accounts;
`authRow`, `authUser`, `expired` and `appRow`, `appUser` the portal's rows. The
handlers are `OpenRequest`; `Answer`, `StoreAuthRequest` or `DeleteRejected`;
`Register`, `LookupAuthRequest`, `RegisterAppAccount`, `DeleteAuthRequest`;
`FindApp`, `UnregisterApp` or `AlreadyUnregistered`, `ForgetApp`; and the cron
job `CleanupExpired`. *Removals* are runs of `deleteAppHandler`, which may
overlap, of the same app too (two tabs, a retry): the second may find the row
before the first deletes it, and indexd's account deleted already, or, by then,
registered by another user. `halfway` is a history variable: the keys whose
removal failed between its two halves. An answer or a registration that indexd takes and whose reply is lost is
`AnswerLost` and `RegisterLost`. `ActsAs(k)` is what the signed-URL middleware
looks up once a signature has been verified.

`ServedAsRegistered` relates the two databases: whom the portal serves a key as,
and whose account indexd has it under. `Delegation` is the promise to the user: a
key acts for nobody but a user who granted it, by a registration not used yet;
while it acts for one user it is not handed to another. `ImplementsDelegation`
maps indexd's registered requests to grants, registrations being handled to
open ones, and `ActsAs` to whom a key acts for.

### StatsCache

`StorageStats` with the two aggregate queries behind it. `cache` is `statsCache`
with its expiry, `leader` is the caller whose function `statsGroup.Do` runs, and
a caller's `pc` follows it through the first look at the cache, the group, the
second look, the two transactions, the store and the return. Callers who meet a
leader wait and share its outcome, its error included: the queries run with the
context of the leader's request. The numbers are abstracted to the version of the
table they were counted in, since the properties are about their age; the two
tables change one after the other, so that the two numbers of one answer may be
of different moments, as in the code. `Tick` may come between any two steps.
`EveryCallReturns` is about the callers who wait: whatever becomes of the leader's
queries, `Finish` hands its outcome on; `WaitersAreLed` is its safety side.

`asked`, `given` and `last` are history variables: what had been given to anybody
when a caller called, the newest numbers given so far, and the numbers given last.
With them `PublicStats` is the promise: a service without cache or group that
answers every call with numbers between what had been given when it was made and
what the tables hold now, or with an error. `ImplementsPublicStats` says that
nothing cached, shared or raced for shows.

### What is assumed of what is outside

- gorm: `Delete` of a row with `DeletedAt` sets it; queries do not see such rows;
  unique indexes do. `ON CONFLICT DO NOTHING` then inserts nothing.
- indexd: serves the feed in the order of the IDs, and funds nobody who was not
  provisioned; takes one answer to a request and one registration of an approved
  request; refuses an object with a slab the account does not hold; keeps a slab
  an object is made of; `PutQuota` creates or replaces; `AddAppConnectKey` always
  issues a new key; deleting an account drops its slabs and objects.
- The portal: one pin per user and hash, one upload per hash; deleting an upload
  that is not there is an error.
- The quota service: a check that allows also reserves, in one step; a pinned
  event turns its reservation into usage; an unpinned event handled before the
  pinned one waits for it. Where the quota plugin is not installed every check
  passes and nothing is reserved.

## The runs

`pass` runs are complete explorations. All have `CHECK_DEADLOCK FALSE` except
those of the funding sync and of the statistics (where a worker or a caller can
always start again): a bounded number of requests, changes and keys is used up in
the end, and then nothing is left to do.

| Run | Bounds | What it shows | Distinct states |
|---|---|---|---|
| `funding_sync` | 2 users, 1 worker, 1 other writer, 1 change of rows, pages of 2, 3 events, 1 fault | `TypeOK`, `RepeatsAccounted`, `PassedIsSettled`, `CursorAdvances`, `ImplementsLedger`, `CatchesUp` | 439 000 |
| `slab_registry` | 2 accounts of 2 users, 1 slab, 1 object, 2 requests at a time, 5 in all, 1 fault | `TypeOK`, `EveryPinHasKeeper`, `PruneSparesSharers`, `ChargesAccounted` | 1 118 000 |
| `slab_registry_seq` | 2 accounts, 2 slabs, 1 object, 5 requests one after the other | `UsageMatchesPins` | 102 000 |
| `reservations` | 3 pins, 2 prunes and 2 pages at a time, 3 slabs, a limit of 2, 1 surplus event, 1 fault | `TypeOK`, `ReservationsAccounted`, `PinsWithinLimit`, `ImplementsAllowance` | 88 000 |
| `slab_registry_double_refund` | 2 prunes and a pin | `UsageMatchesPins` is violated | |
| `slab_registry_prune_referenced` | 3 requests one after the other | `PruneSparesReferenced` is violated | |
| `sia_account` | 2 enforcements, 1 tab, up to 2 apps, 3 changes, no fault | `TypeOK`, `DriftAccounted`, `Converges`, `EntitledGetsIn` | 313 000 |
| `sia_account_faults` | 1 enforcement, 2 tabs, 1 sync, 1 app, 1 change, 1 event, 1 fault | `KeyBacked`, `KeysAccounted`, `DriftAccounted`, `KeysStay`, `SettledStays` | 1 691 000 |
| `sia_account_stale_sync` | 1 of each, 2 changes, 1 event, no fault | `NoAccessWithoutLimit` is violated | |
| `connect` | 2 users, 2 requests for one key, 2 removals at a time, 2 faults | `TypeOK`, `ActsForApprover`, `ServedAsRegistered`, `ImplementsDelegation`, `AuthRowsExpire` | 199 000 |
| `stats_cache` | 3 callers, TTL 1, 2 ticks, 1 change per table, 1 failed query | `TypeOK`, `RefreshedWhenExpired`, `WaitersAreLed`, `ImplementsPublicStats`, `EveryCallReturns` | 204 000 |
| `connect_early_register` | 1 request, no fault | `RegisteredAppActs` is violated | |

Why these bounds are enough to be interesting. Three events and pages of two give
a full page, a short page, an empty page and a page that is fetched again; two
users give an event that is deduplicated next to one that is not; one change is a row
read before and saved after any steps of the sync, or a key that begins or ceases to
find its row at any of them (at first any set of keys does); one fault is
enough for every single failing call and crash, and the theorems hold for any
number. One slab and two accounts are all a race of prunes needs, and five
requests allow pin, pin, disconnect, prune, prune and every mixture with unpins
and objects. Two slabs in `slab_registry_seq` give batches, and objects made of
several slabs. Two enforcements contend for the mutex, and either may decide on an
older row, older limits or an older count of apps while the other writes; two apps
are one more than the default, and of three changes one lets a plan be, one makes a
decision old and one makes it wrong. Three pins against a limit of two, with three
slabs, are one more than fits, with events late and reservations lost; two prunes may
list one pin, which takes no failure to make a surplus event, and one such event is
enough to let the third pin through; two pages are enough to be in each other's way. Two requests for one key allow connect, disconnect, connect again
and two users approving the same app; different keys share no state. Two removals
at a time are one that finds what the other leaves. Two ticks
let the cached value expire twice; a third caller comes while one leads and one
waits. There is no symmetry in `stats_cache`, which would not be sound for its
liveness property.

Fairness. `FundingSync!FairSpec`: the cron tick comes every five minutes, a run
that has begun goes on; faults are not fair and bounded. `SiaAccount!FairSpec`:
the cron job counts the apps and enforces again and again (`CountApps`), a run
that has begun goes on to its end, Go's mutexes do not starve a waiter (strong
fairness of `Lock`); nothing makes the user open a page, and `Change` is not
fair. `Connect!FairSpec`: ten minutes pass, and the cleanup job runs; no handler
is assumed to get anywhere, because a handler may be cut off.
`StatsCache!FairSpec`: a goroutine that is not blocked runs on, to the end of its
call; nobody has to make one.

`funding_sync` has one run of the sync at a time. With two, `CursorAdvances` and the
refinement do not hold, and the code does not say they do: either run may save the
cursor after the other. `RepeatsAccounted` and `PassedIsSettled` hold then too; both
are theorems for any number of runs and of other writers, and explored for two runs
in `FundingSyncOverlap.cfg`.

`sia_account` has no fault, no sync and one tab because `Converges` and
`EntitledGetsIn` are violated with them: one failed `Save` (`SiaAccountLostSave.cfg`),
one failed provisioning (`SiaAccountShutOut.cfg`) and one stale sync
(`sia_account_stale_sync`) are enough. `sia_account_faults` has all three, and two
tabs. "Per-user lock to prevent TOCTOU race between Quota read and PutQuota write"
(`sia.go:486`) is true of updates only: with two tabs and no failure the second
provisioning replaces the quota in between (`SiaAccountTwoTabs.cfg`), which
`DriftAccounted` allows for. `slab_registry_seq` has one request at a time and no fault for a like
reason: what races and failures do to the storage charged is
told by the violation run and the scenarios, and bounded by `ChargesAccounted` in
`slab_registry`. The theorem `ChargedForPins` has the same two assumptions,
`ChargesAreAccounted` neither.

### What the violation runs show

- **Double refund** (`sia.go:768`). Two prunes of one account list the same pin before
  either deletes it. One deletes it, the other's `DeletePin` fails, and both emit the
  unpinned event: one pin, given back twice. "Storage is tracked via the slab pin"
  (`indexd.go:59`).
- **Prune of referenced slabs** (`sia.go:692`). `PruneSlabs` deletes all the
  account's objects before it looks for orphans; the route is documented to unpin
  "all slabs not referenced by any pinned object" (`api.go:655`).
- **Stale sync** (`quota.go:554`). Without any failure: a tab provisions the account
  while the user has no plan, with target 0. The user gets a plan, and a sync reads
  the row for an event; an enforcement puts the funded target at indexd and into the
  row; the sync saves the row it read, with target 0. Then the plan goes. From now on
  every enforcement wants 0, finds 0 in the row and returns ("Skip update if
  unchanged", `quota.go:333`), and the quota stays funded. "No storage limit means no
  Sia access" (`quota.go:229`).
- **Early registration** (`connect.go:77`). The app learns of the approval from
  indexd and registers before the portal has stored who approved. It is
  registered at indexd and unknown to the portal, which answers 204. "On success
  from indexd, create the app account record" (`connect_register.go:44`).

### Further scenarios

Configurations beside the runs, for use when the code around them is changed; run
them with `tlc -config <file> <module>`. TLC finds a violation under each of
these:

| Configuration | Violated | What happens |
|---|---|---|
| `SlabRegistryUnpinRace.cfg` | `UsageMatchesPins` | An unpin that finds the upload gone, deleted by another user's unpin, returns before the event that gives the storage back (`indexd.go:434`). |
| `SlabRegistryLateSharer.cfg` | `PruneSparesLiveRows` | An account registers and pins between a prune's count and its deletions and loses its pin (`sia.go:736`). |
| `SlabRegistryRepin.cfg` | `RegisterObjectRegisters` | Pinning an unpinned object again finds the soft-deleted row, inserts nothing and returns no error (`sia.go:592`). |
| `SlabRegistryGoneApp.cfg` | `PruneSkipsForTheConnected` | The row of an app that was disconnected keeps the pins of a slab from every later prune (`sia.go:256`). |
| `SlabRegistryPruneAccount.cfg` | `ChargedIsHeld` | `PruneAccount` lets go of slabs at indexd, and the user is charged for them on (`sia.go:908`). |
| `ReservationsPruneRefund.cfg` | `PinsWithinPlan` | Without any failure: a prune and another request delete the same pin, both give it back, and the user pins one slab more than the plan allows (`sia.go:768`). |
| `ReservationsTwoPages.cfg` | `RefusedForUse` | A view of the connect page is refused because another view holds, for a moment, the last of the downloads (`quota.go:424`). |
| `ReservationsSameSlab.cfg` | `NothingOrphaned` | Two pins of one slab pass the check for a pin; the second `CreatePin` is refused and its reservation stays (`indexd.go:124`). |
| `SiaAccountTwoTabs.cfg` | `QuotaReadStaysCurrent` | Two tabs provision; the second one's `PutQuota` comes between an update's read of the quota and its write (`quota.go:142`). |
| `SiaAccountLostSave.cfg` | `NoAccessWithoutLimit` | `PutQuota` succeeds, `Save` fails; the "unchanged" check then trusts the row (`sia.go:514`). |
| `SiaAccountDoubleRecord.cfg` | `RecordedOnce` | An enforcement saves a row it read before the sync moved the last event; after a failed save of the cursor the event is recorded again (`sia.go:521`). |
| `SiaAccountShutOut.cfg` | `EntitledGetsIn` | A provisioning that fails after `RegisterAccount` leaves target 0, which shuts the page that would repeat it (`quota.go:378`). |
| `SiaAccountNoContracts.cfg` | `NoContractsSkips` | "no active contracts, skipping" returns from the callback only; the target 0 is written (`quota.go:242`). |
| `ConnectReconnect.cfg` | `RegisterAppAccountLinks` | A key that was disconnected once is never linked again: its soft-deleted row blocks the insert (`sia.go:160`). |

and these hold, at bounds the runs do not have:

| Configuration | Holds | What it adds |
|---|---|---|
| `FundingSyncOverlap.cfg` | `TypeOK`, `RepeatsAccounted`, `PassedIsSettled` | Two overlapping sync runs, another writer and a failure (1 299 000 states). |
| `StatsCacheLarger.cfg` | `TypeOK`, `RefreshedWhenExpired`, `WaitersAreLed`, `ImplementsPublicStats` | Two changes of each table, with symmetry (425 000 states). |

## What is proved

`tlapm` checks every proof. The theorems hold for all values of the constants
under each module's assumption (`FundingSyncAssumption`,
`SlabRegistryAssumption`, `SiaAccountAssumption`, `ConnectAssumption`,
`ReservationsAssumption`, `StatsCacheAssumption` and `OutcomeAssumption`): sets of
any size, any bounds.

| Theorem | States | Inductive invariant and why it is needed |
|---|---|---|
| `FundingSyncProofs!TypeCorrect` | `[]TypeOK` | `TypeInv` adds that a worker's page lies inside the feed and that `next` is in the page while it is processed; without it `feed[next[w]]` has no type. |
| `FundingSyncProofs!NothingPassedUnsettled` | `[]PassedIsSettled`, any number of overlapping runs and other writers | `LossInv`: every position from which a later run may skip events (the cursor row, cursors in memory, the place in a page, the marks of the rows and of the copies other writers will save) has only settled events before it. |
| `FundingLedgerProofs!RepeatsAreAccounted` | `[]RepeatsAccounted`, finitely many overlapping runs, any number of other writers | `PaidInv`: an event's records done, and the runs about to make one, are no more than the times it was opened again, and one more when its owner's row has reached it. A record is thus paid for by the save that let it through. |
| `FundingLedgerProofs!CursorNeverRegresses` | `CursorAdvances`, one run at a time | `InStep`: a run's copy of the cursor is the row's. |
| `FundingLedgerProofs!SyncImplementsLedger` | `ImplementsLedger`, one run at a time, any number of other writers | `LedgerInv` adds to these that what is in hand, and the same user's later events, are open (`Due`). `SaveRow` is `Reopen`, `Record` is `Bill`, `PersistCursor` is `Advance`, all else a stutter or `Publish`. |
| `SlabRegistryProofs!TypeCorrect` | `[]TypeOK` | adds which requests are at which step, and that a hash in hand is a slab or an object accordingly. |
| `SlabRegistryProofs!PrunesSpareSharers` | `[]PruneSparesSharers` | `SharersInv`: a prune at `inUse` has the accounts live then among its sharers, or they are gone; a row that is gone never comes back. |
| `SlabRegistryProofs!PinsHaveKeepers` | `[]EveryPinHasKeeper` | `KeeperInv`: `EveryPinHasKeeper` with the types. The prune deletes its own row before it counts the others', so the last of them sees zero. |
| `SlabRegistryProofs!ChargedForPins` | `[]UsageMatchesPins`, one request at a time, no failure | `UsageInv`: usage is the pin, and one more for the slab whose pin an unpin has just deleted and whose event is still to come; the pins and the upload a request has found are still there when it deletes them. |
| `SlabRegistryProofs!ChargesAreAccounted` | `[]ChargesAccounted`, finitely many requests | inductive with `TypeInv`. A step of one request changes nobody else's part in `Unpinning`, so that the unpins at work on a slab change by one at most, with the pin, the charge or a count. |
| `SlabRegistryProofs!OnlyPrunesUndercharge` | without prunes no user is ever charged for less than what is pinned, finitely many requests | `KindsOK`: a request is of one of the kinds in `Ops` to its end, so that nobody is at `deletePins` and `surplus` stays 0. |
| `SlabRegistryProofs!OnlyUnpinsOvercharge` | without slab unpins no user is ever charged for more than what is pinned, finitely many requests | `KindsOK`: whoever is between pin and event then has an object in hand, which has no size; `missed` stays 0 and `Unpinning` empty. |
| `SiaAccountProofs!TypeCorrect` | `[]TypeOK` | `Inv` adds what each step's copy and key hold. |
| `SiaAccountProofs!KeysAreBacked` | `[]KeyBacked` | every copy in hand that has keys has issued ones, since a copy saved later replaces the row. |
| `SiaAccountProofs!KeysAreKept` | `KeysStay` | a copy that lacks the keys is only held by a step that puts new ones in. |
| `SiaAccountProofs!SettledIsKept` | `SettledStays`, any number of runs of each kind | `Inv`, and `IdleRunsAreClean`: a run that has not begun has no count from an earlier one, so that what it starts with is what there is now. |
| `SiaAccountTabsProofs!KeysAreAccounted` | `[]KeysAccounted`, finitely many tabs | `KeyInv`: the keys issued, and the tabs that may still issue one, together are no more than a key per tab and fault allows; a tab gets in again only through a fault, since the row keeps its keys. |
| `SiaAccountTabsProofs!DriftIsAccounted` | `[]DriftAccounted`, any numbers of runs of each kind | `DriftInv`: an update at work has the mutex (`Held`); and unless the row is adrift, nobody is midway and row and quota agree, or one run is and the quota is what that run will save (`Follows`). |
| `ReservationsProofs!TypeCorrect`, `EveryReservationAccounted` | `[]TypeOK`, `[]ReservationsAccounted`, finitely many requests | `Inv`: which reservations a request holds at each step. That `reserved` stays a natural number needs the accounting: only what is held is released. |
| `ReservationsProofs!NeverBeyondLimit` | `[]PinsWithinLimit`, finitely many requests | `Covered`: pins and refunds on their way are no more than what is charged, owed, left behind or surplus; and what is charged and reserved is within the limit. |
| `ReservationsProofs!ImplementsSlabAllowance` | `ImplementsAllowance`, finitely many requests | `BeginPin` is `Grant`, by `Covered`; `CreatePin` is `Pin`; `PruneInVain` is `Forgive`; the ways out are `Withdraw`. |
| `ConnectProofs!TypeCorrect` | `[]TypeOK` | |
| `ConnectProofs!AppsActForApprovers` | `[]ActsForApprover` | `Inv`: whatever holds a user (auth row, `linkUser`, app row) names one who approved a request of that key which indexd took; indexd never takes that back. |
| `ConnectProofs!ServedAsIndexdHasIt` | `[]ServedAsRegistered` | `Backed`: a live row's key, and one about to be linked, is under its user at indexd, unless a removal of that key has done its first half or failed after it. |
| `ConnectProofs!ConnectImplementsDelegation` | `ImplementsDelegation` | from `Inv`: the user in hand is the one who approved. `Register` is `Grant`; `RegisterAppAccount` is `Link` or, on a conflict, `Lapse`; `ForgetApp` is `Unlink`. |
| `StatsCacheProofs!TypeCorrect`, `OneRefreshWhenExpired` | `[]TypeOK`, `[]RefreshedWhenExpired` | only the leader is past the group's door, and who queries saw the value expired; the clock does not run back and nobody else stores. |
| `StatsCacheProofs!NoWaiterIsForgotten` | `[]WaitersAreLed` | the leader is the one caller between the group's door and its end, and `Finish`, which takes the leader away, leaves nobody waiting. |
| `StatsCacheProofs!ImplementsPublic` | `ImplementsPublicStats` | every number in hand, in the cache or given lies between what had been given when its reader called and the tables: what is given is never newer than the cache, and the cache never goes back. `Return` is `Give` or `Fail`, `Load` is `Ask`. |

"One run at a time" is the assumption `OneAtATime`, that there is one worker: cron
runs do overlap when one takes longer than five minutes, and then these two do not
hold. "One request at a time" is `OneRequest` (the set of requests has one member),
"finitely many" is `FinitelyMany`, or that the set is finite, which counting its
members needs. Where no failure is excluded by name the theorems say more than the
runs: they hold for any number of faults.

## What is only model-checked

- `CatchesUp`, `Converges`, `EntitledGetsIn`, `AuthRowsExpire`, `EveryCallReturns`:
  liveness under fairness is beyond the proof system.
- The violation runs and the scenarios: counterexamples.
- How the parts beside `FundingSync` and `Reservations` come to do what those modules
  let them do at any time: that the other writers of the row follow `SiaAccount`, and
  that prunes follow `SlabRegistry`, is the reader's comparison.

## What is not modelled, and why

- Parsing, HTML, templates, proxy URLs and headers, signature verification,
  metrics, events, configuration: they keep no state that a property here is
  about. Outcomes the handlers tell apart are branches of actions.
- The division of the fund target among contracts and its rounding: no property
  here tells two positive targets for the same number of apps apart.
- `DeleteAccount` of the service and the `Validate...` functions of
  `internal/quota` have no caller in the plugin.
- Migration of the schema: it runs before any request and once.
- Sizes: a slab counts one, an event's bytes count by meter.
- Transport failures in the middle of one database transaction: a transaction
  takes place or it does not.
