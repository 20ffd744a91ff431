# Odograph in TLA+

Odograph records where a phone has been, turns the fixes into stays and trips,
lets the user correct them, and serves several accounts from one small server
process and one PostgreSQL database.  This directory holds TLA+ models of its
core logic, translated from the source in `app/`, the TLC configurations that
check them and TLAPS proofs about them.  `PROJECT.json` lists the components,
runs, hazards and theorems, a mutated definition for every property, and for every
definition the lines it stands for.

```
tlc -workers 2 -config Serving.cfg MCServing      # any run of PROJECT.json
tlapm AccountsProofs.tla                          # any module *Proofs
```

## 1. Inventory

One asyncio process serves HTTP and runs the background workers; blocking work
goes to threads, untrusted or heavy formatting to child processes.  All durable
state is in PostgreSQL, under row-level security by account.  Reprocessing and
maintenance commands are further processes on the same database.

| Component (code) | State it keeps | Operations | What makes it hard | What makes it correct |
|---|---|---|---|---|
| Serving admission (`capacity.py`, `account_work.py`) | per lane: owners, FIFO of tickets with a deadline; per owner: borrow, lease, threads; drained event | `operation`, nested borrows, `lease`, `owned_thread`, `shutdown` | a ticket settled, timed out and cancelled in the same turn of the loop; threads that outlive their caller; a lost lease | limits, FIFO, one operation per account, no leaked slot, shutdown returns and only when nothing is left |
| Background turns (`worker.py`, `account_workers.py`, wiring in `main.py`) | poke deadline, account rotation, continuations, the queue of worker types; all in memory | poke, sweep, `run_turn`, `_advance`, `stop` | rounds cut short, failures before a turn, cancellation in the queue, restart | nobody starves, no lost wake-up, the turn is never stuck |
| Trip detection (`detector/core.py`, `reconcile.py`) | none (pure) | filter, stationary and on-foot ranges, arrival, splitting, overrides | greedy stages whose result depends on where a window starts | incremental equals complete |
| Detector windows and edits (`detector/runner.py`, `ui/merge_split.py`, `trip_writes.py`) | points with `trip_id`, stays, trips, boundary overrides | run a window, tag, merge, split, delete, full reprocess | windows open at persisted stays; late fixes; edits between runs | edits last, rows are matched in place, the batches do not matter |
| Detector checkpoints and locks (`runner.py`, `lock.py`, `reprocess_detector.py`) | `detector_state`, deferrals, two advisory keys | background turn, operator command, merge/split, legacy holder | commit order differs from `now()` order; `detect()` runs in a thread between read and write | no fix skipped, no edit overwritten, one writer |
| Ingest (`ingest.py`, `tracking.py`, `storage_format.py`, `retention.py`) | credentials, devices, points, replay receipts, failed-authentication counts | authenticate, admit, store, poke; rotate, revoke, convert, create | repeated requests, a credential that changes while its password is checked, a poke only after the commit, checks that outlive their caller | each message once, only under a live credential, failures bounded per address |
| Map matching (`snap.py`, `resnap.py`, `account_jobs.py`) | snap state and geometry per trip | read, ask OSRM without a transaction, write if unchanged | the trip is rewritten, split, deleted or the device regenerated while OSRM works | no stale geometry stored, every trip reaches a terminal state |
| Geocoding, pacing (`geocode.py`, `provider_pacing.py`, migrations 041 and 042) | queue of coordinates, discovery cursor, cache, FIFO of tickets | page, look up, store, discard, retry; acquire, reserve, cancel | the trip changes under a lookup; cancellation of the turn that holds the pacer; one pace for all accounts | no address of a trip that has gone, no end forgotten, every caller gets its turn |
| Reminders and digests (`email_digest.py`, `nudge.py`, `odometer_reminder.py`, `notification_preparation.py`, `ntfy_preparation.py`) | rotation over kinds, ledgers of what was sent | capture, compare, prepare, send, enter | a crash or a lost answer between send and entry; replicas; settings that change | once per period (or the repeat the code accepts), from current settings, no kind forgotten |
| Helper processes and spool (`preparation*.py`, `smtp_supervisor.py`, `ntfy_supervisor.py`) | directories, file locks shared by processes, the failure lock | reserve, sweep, prepare, serve, send, release | a process dies while its helper lives; a cleanup that fails; cancellation against completion | bounded directories, none cleared under its user, only finished work leaves, every operation ends |
| Trips and their records (`trip_writes.py`, `ui/`, `api_trips.py`, `expense_ledger.py`, `autotag.py`, `vehicles.py`) | categories, rules, places; idempotency keys, links, default vehicle | choose, apply rules, create once, link, delete, set default | rules applied again over choices; repeated and concurrent requests; deletes beside links | a choice stands, every other trip shows today's rules, one record per key, one default in use |
| Accounts, lifecycle (`auth.py`, `admin.py`, `account_lifecycle.py`) | account rows with a version, sessions, account leases | bootstrap, disable, enable, delete, purge | administrators who act on each other; purge against work in flight | an administrator who can sign in remains; no work outlives its account |
| Sign-in, tokens and grants (`auth.py`, `password_reset.py`, `invitations.py`, `email_challenges.py`, `oidc_*.py`, `mobile_*.py`, `api_grants.py`) | sessions, single-use secrets, pending requests, codes, grants and their token pairs | issue, redeem, supersede, expire, exchange, refresh | two redemptions, a secret in a mail that was superseded, a lost answer to a refresh | used at most once, ended sessions stay ended, copies of a grant part |
| Storage accounting (`storage.py`, `storage_limits.py`) | usage counters | reserve, release | concurrent writers at the limit | counters equal rows |
| Portable import and export (`portable/`) | everything an account owns | edit, export, edit by hand, normalise, import, roll back | the account changes under its export; a file edited by hand; an import among other writers | a file comes back whole, an import removes nothing, only a value beyond its column slips through |
| Migrations (`db.py`) | schema version, migration lock | migrate, wait, refuse | two servers start; an old server on a new schema | one migrator, ceiling respected |
| Statistics, reports, exports, pages (`report_*.py`, `stats.py`, `exports.py`, `week_dashboard.py`, `odometer_coverage.py`, …) | – (a snapshot) | select, fold, stream to a helper | the same figure computed by many codes at period edges; edits during a report | all figures of an account agree, a report shows one moment |
| Routes, settings, configuration, diagnosis | – | queries and formatting | – | – |

Interactions: ingest stores a point and pokes the detector worker; a detector turn
pokes the snap and geocode workers (`after_detection`); every turn and request
first takes a slot from admission; merge, split, import and the operator's
reprocess take the detector's advisory keys as a turn does; mails and reports hold
an account lease, which a purge waits for.

## 2. Modules

| Subsystem | Modules | Proofs |
|---|---|---|
| Serving | `Admission`, `BackgroundTurns` | `AdmissionProofs`, `BackgroundProofs` |
| Detection | `TripDetector` → `DetectorWindow`; `DetectorCheckpoint` | `ApiProofs`; `DetectorCheckpointProofs` |
| Receiving | `Ingest`, `IngestLimiter` | `ReceivingProofs` |
| Trips and records | `Trips`, `Ledger` | `ApiProofs` |
| Accounts | `OneShot` (abstract) ← `Accounts`; `Grants` | `AccountsProofs`; `ApiProofs` |
| Workers with a provider | `SnapWorker`, `Geocode`, `ProviderPacer` | `SnapWorkerProofs`, `PreparationProofs` |
| Messages and files | `Spool`, `Digest` | `PreparationProofs` |
| Figures and archives | `Figures` → `ReportStream`; `Portable` | `BackgroundProofs` (`Portable`) |

A module `M` is checked through `MCM`, or together with others through a root that puts
several subsystems side by side: `MCServing`, `MCTimeline`, `MCTurns`, `MCRounds`, `MCWorkers`,
`MCIngest`, `MCAccounts`.  The modules of a root share constants and no variable.  A
variable `part`, chosen once, says which of them moves in a behaviour while the others rest in
their initial states, so the reachable states are the union of those of the parts, not
their product; each property speaks of the variables of one part, and a temporal one has the
fairness of its own part.  `AdministratorRemains` of the accounts and `RecordsStand` of the ledger are thus
independent questions that share one configuration.  What one part assumes of another is named in
the modules (`DetectorWindow` assumes the one writer that `DetectorCheckpoint` shows).

### Admission

One operation `o` is one coroutine inside `async with operation(...)`; an action is
the code between two awaits.  `active`, `pending`, `stale` are the manager's
queues (`stale[l]` counts the tickets of a queue whose deadline has passed: in one
lane every wait has the same length, so they are a prefix), `pc` says whether the
ticket is queued, settled but not yet seen by its coroutine, or the body runs.
`interrupted` is a cancellation or a timer that the coroutine has not received
yet; this gap between "the ticket's future has a result" and "the coroutine resumes" is
where a slot could leak.  `Acquire`, `Abandon` and `Release` contain the whole of
`_promote` and `_update_drained`, which the code calls inside them.  A nested
borrow is an operation with a `parent`.  `Strand` is the wait for ever of
`account_work.py` after the session of a lease is lost.

### BackgroundTurns

`Wake`, `Enumerate`, `Register`, `BeginTurn` and `FinishTurn`/`DeferTurn`/`FailTurn`
are the segments of `_loop` and `run_turn` between awaits; the scheduler's FIFO
and its owner are `queue` and `owner`, and `Advance` is `_advance`.  The durable work of
an account is a number of turns.  `Cancel` and `Unwind` separate the
cancellation of a task from its delivery.  `faulted` and `bypassed` are history
variables.

### TripDetector and DetectorWindow

`TripDetector` is `detect()` on a line: filtering, stationary and on-foot ranges,
their union, arrivals, assembly and the three kinds of override, one operator per
function.  A loop over the fixes is a recursive function or the set it selects, so that
nothing takes an operator as an argument and the whole can be proved about.  Positions are whole grid steps, so that
distances add exactly; what the second dimension could add is
only more ways to be near or far.

`DetectorWindow` is one device in the database.  `Deliver` and `DeliverLate` store
a fix, `Run` is `_process_device` on the window that opens at `RewindStart`,
`Merge`, `Split`, `Delete` and `Tag` are the user's transactions.  Where SQL
leaves an order open (ties of the greedy matching, which of two trips writes
`trip_id` last) every outcome is a step.

### DetectorCheckpoint

Which fixes a run looks at.  The time of a row is the `now()` of its transaction,
and it becomes visible at its commit (`OpenIngest`, `EndIngest`).  Sessions (the
background turn, the operator's command, an editor) go through `lock_detector` or
`try_lock_detector`, load, compute in a thread and commit; an older
process or `cleanup_test_device.sql` takes the global key exclusively.  The turn's
cursor and deferrals are memory, and `Restart` loses them, perhaps with a
new `DETECTOR_VERSION`.

`DetectorWindow` assumes what `DetectorCheckpoint` shows (one writer, no fix
missed), and `DetectorCheckpoint` abstracts a run to the set of fixes it covers and
the edits it saw.

### SnapWorker

One account's `SnapWorker.run_turn`.  A turn is five or six short transactions around a
provider call that holds none, and each of them is an action: `Pick` (`_next_trip`), `Load`,
`CheckRoom`, `Admit` (the attempt is recorded before the call), `Answer`, `Store`, with `Pause` and
`FailSparse` for the other ends.  `w` holds the locals.  A version number of a trip's inputs
(`fixes`) stands for its points and figures, and `path` is the version a stored path and distance come from.  A result
whose matchings carry no coordinates is stored with a NULL path and takes no room: `drawn` names the trips that have one.
Between the actions others move: the detector rewrites or deletes the trip (`Rewrite`, `Delete`), an
edit bumps `updated_at` (`Touch`), an operator requeues split paths (`Resnap`), the device is switched,
the allowance changes, the process stops.  The queue is a sequence by
`COALESCE(snap_attempted_at, created_at)`; a requeued trip, which goes back to its creation time, may land
anywhere in it.  `BackgroundTurns` models who gets a turn; here the rotation is the variable `turn`.

### Ingest and IngestLimiter

A request of a phone runs from `Deliver` to its answer in the steps between two waits of `app/ingest.py`: read the
credential, check the password in a thread, lock and compare, store the message with its receipt
and its points, commit, poke.  What its transaction writes is kept in the request until `Commit`.  The settings
page rotates, revokes, converts and creates credentials under it.  `IngestLimiter` is `FailedAuthLimiter`: a sliding window per address, the slots for
checks, and a check that finishes after its caller has gone.

### OneShot, Accounts and Grants

`OneShot` promises that a secret is used at most once and never after it was used or could not be used.  `Accounts`
implements it for invitations, resets, e-mail challenges, provider attempts and proofs; an action is the transaction
a handler commits after having authenticated at any earlier time, so `sessions` keeps every session ever given.  Work admitted under the
account (transactions, reports, mails with their lease) is a unit that a purge has to wait for.  `Grants` is the app's
sign-in: request, approval, code, grant, and the refreshes that rotate a pair of tokens.

### Trips and Ledger

`Trips` has every writer of a category, purpose or place: the list, the review card, the API, manual
trips, merges and splits, runs of the detector, imports, and changes of places and rules, each with the autotag pass its transaction
ends with.  `Ledger` is one layer lower, a step a statement at READ COMMITTED: creation under an
idempotency key with its retries, links to trips, deletes, and two people who change the default vehicle.

### Spool and Digest

`Spool` follows one directory from its reservation to its removal through the process that
owns it, its helper, and a sweep by another process.  A file lock goes with the last process that holds it: a
helper inherits the guard, and outlives its parent until its pipe closes.  `Digest` is the rotation over
the kinds of mail in each replica, with the comparison of settings and period under the advisory lock and an
answer or an entry that may be lost.

### Geocode and ProviderPacer

`Geocode` has the triggers that queue a coordinate or mark an account for discovery, and the turns
that scan a page or complete one coordinate with a lookup outside every transaction.  Identities that are only compared are kept as
"is still what it was when the turn read it".  `ProviderPacer` is the FIFO that the turns and the address
searches share: a caller sleeps, waits for the interval, is ready or calls, and a ticket that is closed wakes the others
(`Woken`, `_changed`).

### Figures, ReportStream and Portable

`Figures` computes each figure the way its own page, file or message does, from the same rows on a
miniature calendar; `ReportStream` makes the report row by row from a snapshot while the
owner edits.  `Portable` has the edits of every exported table with the checks that guard them, export,
hand-edited files, `normalize_bundle`, and an import among other writers.

## 3. Runs

| Run | What it shows | Bounds, and why they are enough |
|---|---|---|
| `Serving.cfg` (`MCServing`) | *Admission*: no slot or ticket leaks or is taken twice; one operation per account over the shared lanes; no idle slot beside a queue; pools suffice; when shutdown returns nothing is left. *Portable*: a file comes back whole, an import removes nothing that was stored, and what the checks let through fits the tables but for values beyond their column (`OnlyValuesSlipThrough`) | four operations, two accounts, two shared lanes and a control lane of one slot and one place each: a full queue, a nested borrow from a full lane, a promotion and a refusal by account all occur. A furnished account with one row of every table, two revisions, two imports, one field of a file edited by hand, six other writers: each check and each reference is met |
| `AdmissionLive.cfg` (`MCAdmission`) | slots go out in arrival order; every ask is answered, also behind an owner that never leaves; shutdown returns unless an owner is stranded (`WaitsEnd`) | one lane with two places: a wait behind a wait, deadlines in the queue's order |
| `BackgroundTurns.cfg` (`MCBackgroundTurns`) | registrations are served and continuations armed (`WorkIsRemembered`), bypass bounded, through cancellation and restart | two worker types and two accounts give every order of the scheduler and a round that is cut short; one restart |
| `BackgroundTurnsLive.cfg` | pokes reach accounts and work gets turns (`AccountsGetTurns`) in spite of failing enumerations, pacers and turns | one worker (the other types only delay it, and the safety run shows they leave), an account that comes and goes |
| `Timeline.cfg` (`MCTimeline`) | *DetectorWindow*: batches, a late fix and one edit give what a complete reprocess gives, on tracks without a brisk leg and for devices without splits (`UnsplitWindowsAgree`); trips do not overlap and keep their fixes (`TripsOwnTheirFixes`); edits last; settled trips keep row and tag. *ReportStream*: a report shows one moment, and all figures of an account agree (`ReportsAgree`) | eight fixes over two drives, with a premature arrival, a way back, a jump, a gap and a poor fix (a brisk leg is finding 1 and § 6), on the default parameters in steps of 50 s and 50 m. Some 456 accounts of one or two trips on edges of years, half-years and weeks, four rate tables, five shapes of tags, 28 odometer histories; an annual report and a range of two days over a change of rate; one edit meanwhile; looked at in the year and two years later |
| `DetectorSplitWindow.cfg` (`MCDetectorWindow`) | finding 1 | one split in a drive with a brisk walk |
| `DetectorSharedFix.cfg` (`MCDetectorWindow`) | finding 2 | a split and a deletion |
| `Turns.cfg` (`MCTurns`) | *DetectorCheckpoint*: no fix skipped, no edit overwritten, one writer. *Spool*: files outlive their users and stay within the allowance. *Digest*: a digest once per period, from current settings. *Geocode*: queue and cache follow the trips | two fixes of one phone, three sessions and the legacy holder, one upgrade, one restart; a margin of two against transactions of one. Three operations on two processes, two directories of three names. Two replicas and two kinds, one boundary, one lost answer. Two servers, two trips (one entered by hand), two coordinates, pages of one, three changes, one crash |
| `Rounds.cfg` (`MCRounds`) | a stored fix is processed; every trip end that needs an address is asked about; every caller of the pacer gets its turn (`NothingStarves`). *ProviderPacer*: a ready turn stays first, and the head of the queue is never left asleep (`TicketsKeepOrder`) | two phones, so that the round's cursor and one device's deferral matter to the other; one server; one worker between two searches |
| `Workers.cfg` (`MCWorkers`) | *SnapWorker*: no stale path and no result of a switched device is stored; every pending trip that may fit is put to the provider, again after each retry period. *Spool*, *Digest*: every preparation ends, the rotation gets to its last kind (`NothingHangs`) | three trips of two devices: two whose paths do not fit together, one with a path in several parts, one with too few fixes; one snapped state, as `ok` and `low_confidence` are written and read alike (the proofs take any set of them); two changes by others, any number of restarts inside calls. Two operations on two processes; one replica |
| `Ingest.cfg` (`MCIngest`) | *Ingest*: each message stored once, under a live credential. *IngestLimiter*: failures bounded. *Trips*: categories agree with choices and rules | two requests of three phones, five messages, three credentials, two devices, three deliveries, one change of settings, one crash. Three callers, two addresses, two failures per window, two checks at once. Two neighbouring drives, a manual and an imported trip, one place, two rules out of three |
| `Accounts.cfg` (`MCAccounts`) | *Accounts*: secrets are one-shot, ended sessions stay ended, an administrator remains, no work without its account. *Grants*: copies of a grant part, limits hold. *Ledger*: one record per key, the default is in use (`RecordsStand`) | two accounts that act on each other, two secrets out at once, three addresses, three versions, one unit of work. Two browsers, apps, requests, codes and grants, four pairs. Three rows, four requests that repeat each other, three vehicles, two setters, two attempts |

`WorkIsRemembered`, `AccountsGetTurns`, `WaitsEnd`, `RecordsStand`, `NothingHangs`, `NothingStarves`, `TicketsKeepOrder`, `ReportsAgree`, `CategoriesAgree`,
`DigestsOncePerPeriod` and `FilesOutliveTheirUsers` are conjunctions of properties named in their modules.
`CHECK_DEADLOCK FALSE` everywhere but in `Workers.cfg`: callers may never ask, workers may all be
stopped, and clocks, tracks, changes and secrets are bounded.

### Fairness

*Admission.* The event loop resumes what is ready, timers run out, threads return,
and a body ends whatever number of nested borrows it makes (strong fairness of `EndBody`:
each borrow disables it for a while).  Nothing obliges a caller to ask, to be
cancelled or to take a lease, and no fairness ends a stranded owner.
*BackgroundTurns.* Timers and ready coroutines proceed; a debounce or continuation that
stays due is eventually the reason of a wake (strong, since a run in
between disables the loop).  `PokeReachesAccounts` needs no sweep and excludes rounds with a failure
before the turn; `WorkGetsATurn` adds the sweep timer and failures that do not
recur for ever.
*DetectorCheckpoint.* Sessions end; PostgreSQL grants a lock it keeps releasing (strong);
a device does not fail for ever.  `StoredIsServed` excludes turns that find the lock busy
for ever, since a turn only tries.
*SnapWorker.* A turn that has begun goes on, a call ends (it has a timeout) or the process dies in it, and the wake,
deferral and retry timers fire.  The provider need never give an answer.  `EveryTripTried` promises nothing to a trip
whose device is off or that does not fit the allowance.  The model lets no retry period end for the trip of the running
turn: a turn takes less than `retry_s` (300 s) by the timeout of its call.
*Spool.* Threads and helpers run, deadlines fire; nothing obliges a client to read, and a process may die at
any time.
*Digest.* The rotation gives turns (`BackgroundTurns` shows it) and a preparation has a deadline.  A turn whose capture fails
before the settings are loaded keeps its cursor and does not count as taken.
*Geocode.* Turns come, the provider answers or its call times out, time passes.  The provider need never find anything.
*ProviderPacer.* The loop resumes what is ready, turns end, the interval passes.  Cancellation is not fair.

## 4. Findings

1. *A split changes what later windows see* (`FullReprocessChangesNothing`).  A split
   persists a forced stay in the middle of a drive.  `_rewind_start` opens the
   next window there, the on-foot detection's trailing window starts short, and a
   brisk walk later in the window is judged differently than by a full pass: a trip disappears
   that the next merge or split of the device brings back.  The test of
   `tests/test_detector_on_foot.py:259` makes the demand of every stay
   start.  For devices without splits it holds in
   the checked instance, whose tracks have no brisk leg; with one, a split is not even needed (§ 6).
2. *Deleting half of a split takes a fix from the other half* (`TripFixesRecovered`).
   `load_trip_points` recovers shared fixes by time, if `trip_id IS NOT NULL`; the
   deletion nulls the shared fix.  What of it holds always is `TripsOwnTheirFixes`; § 6 has the one other
   way for two trips to share a fix.

## 5. Proofs

TLAPS proves properties of sixteen modules, in eight modules of proofs, for every value of their constants: any number of operations, accounts,
sessions, requests, trips, replicas and fixes, any limits, and without the bounds of the runs (a bound that a guard names
stays in the guard, but has no value).  `tlapm` proves every leaf of every `*Proofs` module from the assumptions named
below.  Each module has one inductive invariant, its lemmas follow the actions, and the theorems a reader should know of are
listed in `PROJECT.json` with the run's property they state.

**`DetectorCheckpointProofs`.**  Assumptions: `MarginAssumption` (an ingest transaction takes less than the margin) and
`DeviceAssumption`.  The inductive invariant is `IInv == Shape /\ Times /\ OneWriter /\ LoadCovers /\
LoadIsFresh /\ NoFixLost /\ EditsSurvive`.  No property is inductive alone:

* `Times` ties checkpoints and loads to the clock (a checkpoint is a margin behind, an open ingest is a
  recent one), so a fix that commits later is newer than the checkpoint (`OpenIsNew`);
* `LoadCovers` says of a run between its load and its write which fixes it may have missed: only those the margin
  still covers;
* `LoadIsFresh` says that the overrides in its memory are current, which holds because `OneWriter` keeps an editor
  out until the run commits.

Theorems: `Invariance`, `Exclusion` (`OneWriter`), `FixesKept` (`NoFixLost`), `EditsKept` (`EditsSurvive`).

**`AdmissionProofs`.**  Assumptions: `OpAssumption` (finitely many operations), `LaneAssumption`,
`LimitAssumption` (every lane has a slot) and `SharedAssumption`.  A handler of the manager changes the queues more than once
(leave, then promote; promote, then enter), so the invariant of the queues is stated as an operator on *any* queues,
`Consistent(active, pending, stale, pc, lane)`, and the proof follows the order of the code:

1. `Suffix`, `Removal`, `Distinguished`: sequences without repetition, what `SubSeq` and `RemoveFirst`
   make of them, and how many elements they have.
2. `LiveTickets`, `PromoteLane`, `Promotion`: `_promote` on one lane and on the lanes of an exclusion domain.  The
   winners fit in the free slots, the losers are the stale prefix, and tickets stay queued only when the lane is full.
3. `Relabel`, `OwnerMoves`, `SlotTaken`, `TicketQueued`, `Departure`: the other single changes.
4. `AcquireIInv`, `LeaveIInv`, `OwnerIInv`, `AsideIInv`, `ShutdownIInv`, and `NextIInv` with one step per action.

`IInv` joins to it `OneOperationPerAccount` (the check is made once, on entry; that it lasts needs `Consistent`, which
places every operation of the account in the queues the check reads), `NoIdleSlotWhileWaiting`,
`DrainedMeansEmpty`, `StoppedMeansEmpty` and `HeldByOwners` (borrows, leases and threads belong to
operations between the start of the body and its end).  Theorems: `Invariance`, `TypeCorrect`, `LimitsKept`, `SlotsKept`, `OneOperation`,
`NoIdleSlot`, `DrainedRight`, `ThreadsKept`, `ShutdownQuiet`.  `PoolsAlwaysSuffice` (property `PoolsSuffice`) adds `BorrowsMatchLanes` and seats the owners of each lane in the lane's slots:
an injection from borrowers to `SlotsOf(lanes)`, whose number `PoolAssumption` bounds by the pool, as
`validate_capacity_config` (`capacity.py`) does at start-up.  `NobodyBarges` (property
`NoBarging`) needs of a step only that whoever is left in a queue stood behind whoever was let in (`Behind`): a promotion lets in a
front of the queue (`PromotedFront`), the other changes keep its order (`WithoutKeepsOrder`), and who enters directly found it empty.

**`BackgroundProofs`.**  Assumptions: `WorkerAssumption`, `AccountAssumption`, `DownstreamAssumption`, `FaultsAssumption`.  `IInv ==
Tasks /\ EnumerationsStartEmpty /\ Scheduled /\ ("enumeration" \notin Faults => ContinuationArmed)`.  `Scheduled` is
about the queue, its owner and the workers' positions: the queue has each worker at most once (`Sound`), the owner is in a turn, every live
registration is queued, and a free turn has no queue (`FreeMeansEmpty`).  What `_advance` does depends on the first registration in
the queue that is still live, so its lemma (`Advances`) needs the least index of a set, and that needs
induction over natural numbers.  The library's rule takes an operator; `Induction` here takes a set,
`0 \in S /\ (\A i \in S : i + 1 \in S)`, and is proved from the pigeonhole principle (`FS_Injection`).  Theorems: `RegistrationsAreServed`
and `WorkStaysRemembered`, which says `WorkIsRemembered` for loops whose reading of the accounts does not fail: after such a failure the
code sets no timer and relies on the next poke or sweep (§ 6).  The run excludes only rounds with that failure.
`BypassStaysBounded` (property `BoundedBypass`) holds of a loop in which nothing fails between the choice of an account and its turn; a
failure there costs the account its place, and TLC finds the bound exceeded (§ 6).  `RoundOfAll` shows that a rotation
names each account once, in an order with the last served at its end.  The invariant is `Patience`: who still has a turn in the round counts the turns
ahead of it (`Ahead`), and who has not keeps a full round to spare (`Spared`).
Of `Portable` the module proves all three properties, from `PortableAssumption`: the account that exports holds at first rows the forms and
the API let in (`AccountBook`) that the tables store (`Storable`).

* `StoredWritesAlwaysStand` (`StoredWritesStand`) does not need it.  `ImportIInv` adds `AloneInThere` (while an import holds the account alone
  every other writer is idle or done) and `FreshWhileClean` (an import that has found the account clean still finds it so): the
  two together say that what the import replaces was nobody's work.
* `OnlyValuesAlwaysSlipThrough` (`OnlyValuesSlipThrough`).  `AcceptedIsStorable` sets each check of `normalize_bundle` against each
  constraint of the tables, for any bundle whose tables are lists and whose values fit their columns one by one (`ColumnsHold`, which
  `ColumnsFit` carries through the renumbering): `PlacesFit`, `RulesFit` and so on, one per table, through the
  renumbering (`RenumberedRefers`, `RenumberedDiffers`).  `ExportIInv` says that every upload is such a bundle (`UploadPasses`,
  `ByHandIsListed`).
* `FilesAlwaysComeBack` (`FilesComeBack`).  `ExportIInv` says that a revision keeps `AccountBook` and `Storable` (`OwnerKeepsBook`, over the
  22 edits), that an export under way holds tables of one account (`ReadSoFar`), and that a file holds that account
  (`ReadFrom`).  From there no step is left: what the tables refuse is not in the account, so the checks pass (`FileIsAccepted`) and no value is beyond its column (`FileHeldByColumns`); rows
  are numbered in the order they were read (`SortedInOrder`, `InsertedInOrder`), so a reference names the same row before and
  after (`SamePlace`), and the two accounts mean the same (`SameMeaning`).

**`AccountsProofs`.**  Assumption: `AccountsAssumption` (there are enough addresses for the accounts).  `IInv == AccountsTypeOK /\ SessionsBelong
/\ SecretsBelong /\ InvitationsBelong`: a session or secret that could still be used belongs to an account that exists, with the version
it was issued for.  Two definitions carry the module, `Evolves` (what one step may do to an account: a version only grows, an
end is final) and `SecretEvolves` (what it may do to a secret); each handler has a lemma
that it is such a `Step`.  Theorems: `SessionsStayEnded` and `SecretsKeepThePromise` are about steps, and the second is the refinement of
`OneShot`, proved as initial states to initial states and each step to a step or a stutter; `AnAdministratorRemains` follows
because a handler that takes one administrator away has locked, and looked at again, the one who acts; `WorkKeepsItsAccount`.

**`PreparationProofs`.**  Assumptions: `SpoolAssumption`, `DigestAssumption`, `GeocodeAssumption`.  `SpoolIInv` adds to the types who holds the
registry lock (`RegistryHeld`), that a dead process does nothing, that whoever uses a directory has it on disk under a lock (`UsersHaveDirs`), that a
name is used once (`NamesOfOne`) and the count (`DirsBounded`); the hard step is the sweep, which removes
what it could lock.  Theorem: `UsersKeepFiles`.  `DigestIInv` adds `LockHeld` and `NotEntered` (between comparison and entry the ledger
still lacks the period, because the lock is held).  Theorem: `DigestsGoOutOnce`.
`AddressesIInv == AddressesTypeOK /\ TurnsRight /\ RowsDiffer /\ EndsAccountedFor` is about `Geocode`.  `TurnsRight` says what a turn
may rely on after its reads: a coordinate it found in the cache is still there, and the row that was the source of its question is still
an end at that coordinate, unless the turn will be told otherwise.  `EndsAccountedFor` needs facts about sequences of rows, each
a lemma here: what a row taken out leaves (`RowTakenOut`), what rows that join add (`RowsJoin`), and that a page holds the first of those
due (`PageIsFirst`).  Theorem: `AddressesAlwaysFollowTrips`, every part of the property `AddressesFollowTrips`.
`PacerIInv` is about `ProviderPacer` and needs no assumption: it is the property and the types, said of *any* queue (`InLine`), since a
handler changes the queue and then looks at it.  What `RemoveFirst` and `Tail` leave may begin with a caller that slept; the proof
shows that the wake-up of everybody at each such change, and only it, keeps the head awake (`WokenAt`, `CloseInLine`).
Theorem: `TicketsAlwaysKeepOrder`.

**`ApiProofs`** has four invariants, of disjoint variables.

* `Ledger`, from `LedgerAssumption`.  `RecordsIInv` is `KeysHeldOnce` (the unique index), `MakersKnow` and `RowsStand`
  (what a request has read or inserted is still so while its locks hold) for requests, and for vehicles that a
  row a setter has locked is not retired.  Theorem: `RecordsAlwaysStand`.
* `Grants`, from `GrantsAssumption`.  `GrantsIInv` numbers the pairs of a grant (`Numbered`: the current pair is the
  newest, the previous one its predecessor, clients and answers hold none that was not issued).  `Alone` says of a grant
  that was not copied where its one app is in a refresh: it holds the current pair, or the previous one and the
  answer to come has the current one.  `Parted` says of two copies that an answer with a new pair has one reader
  (`AnswersAreNew`), and that a renewed app holds a pair that it alone was given (`RenewedIsOwn`).  `FewActive` counts under the account's lock.
  Theorem: `GrantsStayContained`.
* `Trips`, from `TripsAssumption`.  `CategoriesAgree` compares rows with the history variable `chosen`; it is made
  inductive by what rows with no decision look like (`UndecidedRows`), what is said of trips that are away, and `Tagged`.
  `MatchRule` stays unexpanded: which rule matches is no matter, only that every writer applies the same ones to the
  same places.  Theorem: `CategoriesAlwaysAgree`.
* `DetectorWindow` over `TripDetector`, from `WindowAssumption` (a track goes forward) and `ParamsAssumption`.  The lemmas follow one
  pass of `detect()` on any fixes in time order: what the filter keeps is in time order and has every split (`FilteredInTime`), stays
  lie apart and end before the next begins (`FindStaysApart`, `ArrivalApart`), overrides leave a stay at each split and none in a merged range (`OverridesApart`,
  `SingleIsSplit`), trips lie between neighbouring stays, reach over none, and share at most a split (`NoTripOverAStay`,
  `AssembledLie`, `AssembledShare`); `DetectDerived` and `DetectLies` sum it up.  `Extremes`, from the well-founded order of finite sets, gives
  every `CHOOSE` of a first or last element its element.
  * `EditsIInv` says that fixes are in time order, rows have the times of fixes (`Bounded`), and `EditsLast` of them.  Theorem: `EditsAlwaysLast`.
  * `SettledTripsAlwaysStay`, from `EditsIInv`: a window opens no earlier than the newest stay before the dirty fixes
    (`WindowsOpenLate`), and a trip that ends at a stay begins before it, so the pass neither matches nor unlinks it (`RunLeavesSettledTrips`).
  * `RowsIInv` adds that ids are distinct and below `nextId` (`Identified`: matches keep theirs, `MatchedOnce`, and inserted rows count on from
    it, `WrittenIds`), that a trip reaches over no stay (`Placed`), and `TripsOwnTheirFixes` (`Owning`).  The hard step is `ReconciledOwns`, which
    sets each row that was left, kept or written against each other one, and each fix against the row its `trip_id` names.
    Theorem: `TripsAlwaysOwnTheirFixes`.

**`ReceivingProofs`** has two.

* `Ingest`, from `IngestAssumption`.  `IngestIInv` says of each request what it may rely on (`Sound`): the credential row it read is a
  past generation of that credential (`HasRead`); once it has resolved an alias it holds the provision lock, so the alias stays
  (`HasAlias`); once admitted it shares the credential's row, so generation and liveness stay; once it has looked for a receipt
  it holds the usage row, so the answer stays true.  `Exclusive` is the two locks, `RowsPlaced` that a stored fix has its point, even after its
  raw message is deleted.  A step of a request that leaves the database alone is one lemma (`OneRequest`), a change of the
  settings another (`NewSettings`).  Theorems: `MessagesStoredOnce`, and `CredentialsAlwaysDecide`, about steps: its second half needs
  `DroppedOnce` (what was acknowledged is no longer held) to tell a refusal from a delivery.
* `IngestLimiter`, from `LimiterAssumption`.  `GuessesBounded` is about failed checks, the code counts failures and forgets the old
  ones.  `Counted` aligns the two from their ends: the k-th latest failed check in the window, for k up to the limit, is no
  later than the k-th latest failure.  So an address that is not blocked has had fewer failed checks than the limit
  (`CountedBound`), and every check that starts then takes a slot.  Where a window begins is a least index, by `Induction`.
  Theorem: `GuessesStayBounded`.

**`SnapWorkerProofs`.**  Assumptions: `TripAssumption`, `DeviceAssumption`, `SnappedAssumption`, `SizeAssumption`.
`PathMatchesFixes` is not inductive: a state in which the turn holds old inputs and the row still has the
`updated_at` that was read would store them.  `IInv == Shape /\ ReadingHolds /\ PathMatchesFixes` excludes it:
`ReadingHolds` says that what a turn has read is of the past, and that a row which still has that `updated_at` is
pending with the inputs that were read.  A rewrite keeps it because the new stamp is later than
everything read (`OthersIInv`), the terminal write because its compare has just established its hypothesis (`SettleIInv`).  Theorems:
`Invariance`, `PathsRight`, and `DevicesRespected` (`RevokedDeviceUntouched`, an action property: only
`FailSparse` and `Store` settle a trip, and both compare the device).

**Only model-checked.**  Two invariants and the liveness properties; every other safety property of the runs has a theorem.

* `UnsplitWindowsAgree` compares two passes over different windows of one track.  Its proof is an induction along the track (the stationary ranges
  of a window are those of the whole track from its first stay on), and the provers cannot instantiate the
  induction theorems of the library for it.  Its hypothesis is the exact one TLC left standing (§ 6).
* `ReportsAgree` compares folds of the same rows by different codes, `MapThenSumSet` of a `LAMBDA` over data of every size.
* `WaitsEnd`, `AccountsGetTurns`, `NothingStarves`, `EveryTripTried` and `NothingHangs` are liveness under fairness, whose
  `ENABLED` the prover does not handle.

The modules proved about use recursive functions and folds only, no recursive operators.

## 6. Observed while modelling

* A turn that finds no capacity or no identity connection leaves its account idle until the next wake or
  sweep; an enumeration that fails after its continuation fired leaves ready accounts to the
  next poke or sweep.  `PokeReachesAccounts` states this limit (`faulted`).  An account whose turn fails before it
  starts has also lost its place in the rotation, so `BoundedBypass` does not hold of it.
* A lost lease session strands an owner, its slot and the shutdown on purpose
  (`account_work.py`); `ShutdownCompletes` names the exception.
* `RUN_OVERLAP_MARGIN` (60 s) covers ingest transactions that take less; nothing enforces that
  bound.  It is `MarginAssumption`, and without it `NoFixLost` fails.
* A path in flight is discarded after any edit of its trip, a note included, because the compare is on `updated_at`; the
  trip then waits a retry period.  `EveryTripTried` holds all the same.
* A tagged trip whose end is provisional may be deleted by later fixes;
  `SettledTripsStay` marks the line.  The line runs through the stay: a late fix *in* the stay a trip ends at may undo it, the two trips
  beside it become one, and it takes the row of the longer, so a tag on the shorter is dropped (stays 1–7, 8–14, 16–22, trips
  7→8 and 14→16, then a late fix at 10 far away).  `docs/detection.md:41` and `docs/upgrading.md:689` say so.
* A brisk leg (slower than a drive, faster than a walk) is forgiven or not by what came before it in the window, so a window that opens at
  a stay may see less than a full pass without any split: the track (time, place) 1/0, 2/1, 4/3, 6/1, 7/4, 8/1, 10/−1, 16/−1,
  with arrivals reported at 7 and 10 and a run in between, keeps a stay from 2 to 16 where a full reprocess finds one from 1 to 16.
  `tests/test_detector_on_foot_db.py:1-2` asks for the same outcome.  `NoBriskLeg` in `UnsplitWindowsAgree` marks it.
* `plan_reconcile` keeps an unmatched trip that starts in the open segment after the last stay, with the bounds of an earlier track.  Such a trip
  may share its first fix with the stay and trip before it though nothing was ever split; deleting the other trip then nulls the
  fix of both.  And an unmatched trip that contains a split stays whole: after two late fixes, one that lets a stay grow over the
  start of a drive and one that destroys the stay at its end, a split inside the grown stay is answered 204 and does nothing yet, because
  `split_trip` (`merge_split.py:328-385`) does not look at the result as `_merge_trips_core:176` does.  The properties speak of trips
  that a stay follows; the next stay settles the others.
* The fix exactly at a window's start is not unlinked (`runner.py:552`), so it may keep the id of a trip that took other fixes
  in the same pass; no trip is in want of it, and `load_trip_points` asks by time.
* A password that changes while a fix's body is still in flight answers 401, and OwnTracks then drops the fix, though the phone
  has the new password already (`Ingest`).  A fix with a skewed clock that is replayed is answered from its receipt and not
  judged again.
* A delayed duplicate of a client's own refresh looks like a stolen token and revokes the grant, by design (`Grants`).
* The check for another administrator before a disable is not what keeps one: the actor's own row is locked and read
  again (`Accounts`).
* `runner.py:832` says the rows it reads are not locked; they are, by the first UPDATE of its own
  transaction (`Trips`).
* Two concurrent changes of the default vehicle can meet at `vehicles_one_default_idx`, and one ends as a server error
  (`Ledger`).  A manual trip whose place has just vanished is answered "No such vehicle".
* A second release that fails in the spool waits for the failure lock while it holds the registry lock, so later
  releases of every process wait until the first failed one is gone (`Spool`).
* The ledger key of a digest is the end of its period, which depends on hour and time zone: after a change
  of either the digest of the same month may go out again, under its new key (`Digest`).
* Geocoding records no attempt before its provider call, map matching does: a process that dies in the call starts over with the same coordinate.  A
  failed row without room for its reason pauses the account instead (`Geocode`).
* API writes may answer "busy" after their commit; pages do not.
* `Portable`: an odometer value near the largest float becomes infinite meters and blocks every export.  A vehicle renamed
  while an import holds its lock is answered although no row was changed.  `normalize.py` accepts an inactive default
  vehicle.  It asks of text only that it be text: a NUL, or a place name too long for its index, passes it and ends as
  `insert_failed`, as do radii, distances and years out of their column's range and UTC offsets of 16 hours or more.  A lone surrogate fails
  while it is encoded, with an error that is none of the database's, so the answer is a server error.  All are
  rolled back.  `OnlyValuesSlipThrough` states that these are all.  `ingest.py` refuses a NUL and a lone
  surrogate (`_unstorable_char_reason`), in messages only.
* Stats of the current year sums the miles of the whole year and the expenses up to today, and reads them in several statements at READ
  COMMITTED.  The report's "unclassified" caveat and the digest count excluded trips too (`Figures`).

## 7. Not modelled, and the plan

*Not modelled.*  Storage accounting is enforced by triggers of the database; requests before a lane is known; the migration lock and schema ceiling;
role grants, which are facts of the catalogue; backup and restore scripts, which are I/O; configuration, diagnosis, layout and charts.  Inside
the modelled components the notes of `PROJECT.json` name what is left out.

*The plan* of this project is carried out: every module of § 2 is checked, and every safety property is proved but the two of § 5.
Next would be `UnsplitWindowsAgree`, with the agreement of ranges between a window and the whole track as the lemma to state
first, and a model of the storage counters.
