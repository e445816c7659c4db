# Fleet management: formal models

TLA+ models of the concurrent core of this repository: how an event of the
database reaches the queues, the dispatch board and the driver's phone; how an
order is written, numbered, driven and closed; how a photo gets its verdict and
its weight; how drivers and dispatchers stay signed in; how the driver's phone
works through a day mostly offline; what the dispatcher's browser shows; and
which failures the monitors hear of. Each model is checked by TLC on small
instances; the safety properties are proved by TLAPS for every value of the
constants, and the liveness properties are left to TLC.

    tlc -workers 4 -config OutboxRelay.cfg MCOutboxRelay    # one run
    tlapm OutboxRelayProofs.tla                             # one proof module

Paths below are relative to the root of the repository; line numbers of the code
behind every definition are in `PROJECT.json` (`map`), together with the list of
hazards the properties are for.

## 1. The system

A monorepo in TypeScript. `apps/api` (NestJS) owns the Postgres database, puts
jobs on BullMQ queues in Redis and holds the WebSocket connections.
`workers/main-worker` consumes the queues. `apps/driver-app` (Expo) is the
driver's phone, `apps/ops-web` (Next.js) the dispatcher's board, `apps/owner-app`
a read-only dashboard. `packages/domain` and `packages/sync-protocol` hold the
state machines, the routing table and the wire contracts both sides compile
against.

One thing ties the parts together. A business transaction writes its row and, in
the same transaction (`apps/api/src/database/append-tri-write.ts`), an event in
`sync_change_feed` (numbered by `nextval`), an audit row and an `outbox` row. The
rest of the system reads those tables, at its own pace:

      driver app ── POST /sync ──▶ api ──▶ Postgres: road_run, manifest, ...
          ▲  ▲                      │        sync_change_feed   outbox
          │  └── change feed ◀──────┼───────────┤                 │ relay, 5 s
          │      (cursor)           │           ▼                 ▼
          │                         │     projection drain     BullMQ queues
          │                         │     ─▶ dispatch board       │
          └── WebSocket / push ◀── commands gateway               ▼
                                    ▲                           worker
                                    └──── intake callback ◀── inspects photos

| Component | State it keeps | Operations | What is hard |
|---|---|---|---|
| Outbox relay (`api/src/outbox`) | `outbox` rows; BullMQ jobs | claim a batch, publish, record a failure, dead-letter | a death between claim and publish; overlapping drains at a deploy; an add that failed after it reached Redis |
| Change feed, projection, sync pull (`api/src/projections`, `sync`) | `sync_change_feed`, board rows, watermark, device cursors | append, drain, rebuild, pull | numbers are taken before commits; rebuild and drain lock in opposite orders |
| Order, run and photo lifecycle (`dispatch`, `transport-orders`, `maintenance`, `admin`) | `transport_order`, `road_run`, `manifest` states | accept/start/complete, cancel, soft delete, completion by photo, two reconcilers | every transaction reads, decides and writes at READ COMMITTED; some writes do not repeat the condition |
| Manifest upload and intake (`manifest`, worker `intake`) | upload sessions, manifests, attempts | negotiate, commit, inspect, finalize, redrive | retried uploads, lost jobs, callbacks delivered again |
| Dispatch commands (`commands`, driver app `commands`) | the gateway's maps (in memory), sockets | post, emit, ack, push fallback, dead letters, drain at shutdown | acks against pushes, restarts that forget the maps |
| Driver app offline sync (driver app `sync`, `storage`; api `sync`) | local action log, cursor | enqueue, claim, send, commit, reset, roll back | a request that was applied but not answered; two loops on one queue |
| Driver sessions (`auth`, driver app `auth`) | refresh-token families; the stored token; the gate | login, rotate, revoke, logout, delete of the driver | the answer of a rotation is lost; logout against refresh; claim and successor are two statements |
| Assignments, orders, numbering (`reference`, `admin`, `transport-orders`) | driver–vehicle pairs, orders, `order_sequence` | open and send a form, number, create, assign, revoke, soft delete | a form is stale when sent; cascades in statements of their own; a counter of months without a year |
| Driver register, copilot (`admin`, `copilot`) | driver rows under partial unique indexes; the plan ledger | create or revive, rename, delete; execute a plan | lookups outside transactions; a crash in the middle of a plan |
| Driver app capture (driver app `camera`, `dispatch`) | assignments list, capture screen, uploads in flight | photograph, upload, walk the run's states up | uploads that outlive their screen; two walks at once; a lost intent |
| Weight extraction (worker `extraction`, `manifest`, `dispatch`) | extraction status and weight of a photo | read the slip, report, type a weight in, board difference | a late result against a typed weight; a stalled job that runs twice |
| Alerts and lag monitor (`alerts`, `manifest/alert-lag*`) | outbox rows, jobs, the episode flag | push an alert, look for stalls, page | retry, death and consumer hide a loss from different reads |
| Security monitoring (`security`) | the mark of the event poll | fetch, page, move the mark | events stored late; overlapping polls |
| Dispatcher session (ops-web `proxy`, `api/auth`, `features/auth`) | two cookies, Keycloak's session | login, callback, silent and navigated refresh, logout | requests side by side present one token; answers to documents that are gone |
| Board of a tab (ops-web `features/dispatch`; `dispatch` reads) | URL, server rows, optimistic rows, the form | create, refresh, page, search, close the drawer | the projection lags; a form that is gone when its answer comes |
| Admin lists (ops-web `features/admin`) | rows, tab, loads in flight | load, edit, change tab | answers in another order than their requests |
| Devices and binding (`device`), passkeys (`auth/passkey-*`), build webhook, ERP | registry; single-use challenges; dedup rows | – | section 7 |
| Scheduler (`scheduler`, `runtime`) | timers | arm, run, re-arm | a tick that throws |
| Worker queues (`workers/main-worker`) | – | route a job | one attempt per job |
| Exports, owner app, wire contracts, scripts | – | reads | – |

What makes each of the modelled components correct is the list of properties in
section 3.

## 2. The modules

| Module | Models | Extends |
|---|---|---|
| `OutboxRouting` | the routing table of an outbox row, as an operator | |
| `OutboxRelay` | the relay, the queue's retention of jobs, the worker's attempt | `OutboxRouting` |
| `EventDelivery` | what the outbox promises of one event (abstract) | |
| `ChangeFeed` | writers, projection drains, rebuild, device cursor | |
| `RunLifecycle` | every writer of an order and its run | |
| `ManifestIntake` | upload, worker, callback, reconciler, manual redrive | |
| `PhotoOutcome` | what the intake promises of one photo (abstract) | |
| `CommandDelivery` | the commands endpoint, gateway, app receiver, push | |
| `CommandFate` | what the gateway promises of one command (abstract) | |
| `DriverSync` | the action queue, the sync loop, the server's half of a sync | |
| `QueueOrder` | the same with a memory of what a read of the queue passed over | `DriverSync` |
| `DriverSession` | the driver's tokens in the api and on the phone | |
| `OrderDesk` | forms, orders, numbers, pairs, soft delete | |
| `DriverRoster` | the register of drivers, the copilot's plans | |
| `PlanLedger` | what the copilot promises of one plan (abstract) | |
| `CaptureTrip` | the phone on one run: capture, uploads, the walk up the states | |
| `WeighSlips` | extraction job, callback, typed weights | |
| `DriverAlerts` | alert consumer, lag monitor, over the relay itself | `OutboxRelay` |
| `LoginWatch` | the break-glass poll | |
| `DispatcherSession` | cookies and requests of one browser | |
| `BoardView` | the board of one tab | |
| `AdminLists` | a list of the admin pages | |
| `MC*` | constants of the runs | the module of that name, or the ones named below |
| `*Proofs` | theorems (section 5) | the modules they are about |

`OutboxRelay` implements `EventDelivery`, `CommandDelivery` implements `CommandFate`,
`ManifestIntake` implements `PhotoOutcome` and `DriverRoster` implements `PlanLedger`;
the four refinements are checked by TLC and proved. Each mapping forgets the
machinery (claims, jobs, sockets, handlers) and keeps what the caller was promised.
`DriverAlerts` composes the relay with its consumer and its monitor: the alert's row, its claim,
its retries and its job are the relay's own actions.

Seven MC modules put parts that share no state side by side, and the first state
chooses which of them takes steps, so that one run covers them at the price of
the sum: `MCChangeFeed` (`ChangeFeed`, `BoardView`), `MCDispatch` (`RunLifecycle`,
`CommandDelivery`), `MCManifestIntake` (`ManifestIntake`, `WeighSlips`), `MCSessions`
(`DriverSession`, `DispatcherSession`), `MCAdministration` (`OrderDesk`,
`DriverRoster`, `AdminLists`), `MCDriverApp` (`CaptureTrip`, one loop of
`DriverSync`) and `MCTimers` (`DriverAlerts`, `LoginWatch`).
The idle parts stay in their first state, where every property about them holds.
Modules that stand side by side in a run or in a proof module share no name, which
is why the second one calls its next-state relation `TripNext` and the state of the
run `roadRun`. The symmetry of `MCSessions` permutes tabs and requests of the browser
only. A state of the driver's side, where the liveness property says something, is its
own image under it, so nothing is identified there.

### How code became actions

An action is a stretch of code between two points at which something else can
happen. In the database that is a transaction when nothing it decides can be
overtaken, and otherwise two steps, one for what it reads and one for what it
writes. In a process it is what runs between two `await`s. The comment on each
action names its function.

* **OutboxRelay.** `drainOnce` (`outbox-relay.service.ts:80`) is the claim
  transaction (`Claim`), then for each claimed row in order the `q.add`
  (`Publish`, or `PublishFails`, which leaves open whether the job reached Redis)
  and the UPDATE of the catch block (`RecordFailure`). Between any two of them the
  process may die or an UPDATE may throw out of the loop (`Abandon`). The claim
  sets `status = 'sent'` before anything is sent: that order is the reason for
  the history variable `abandoned`. Rows commit in any order of `created_at`
  (`InsertRow`). The broker is a set of job ids: an id that is retained is not
  added again, and a job runs once because the relay sets no `attempts`. Completed
  jobs age out after an hour; the retries of a row take 30 seconds. Whether an
  hour can pass while a row is retried (an outage) is the constant `JobsExpire`:
  the run takes `FALSE`, and only the theorem `EarnedOnce` assumes it.
* **ChangeFeed.** A writer takes its number (`CreateRun`, `MoveRun`, `SyncAction`)
  and later commits or rolls back, so events commit out of order and leave gaps.
  `MoveRun` holds the row of its run from before the number until the commit;
  `SyncAction`, an event a device sent about a run, holds nothing. A drain is one
  step, because it works behind the lock of `projection_status`. A rebuild is two:
  it hides and locks the live rows, then waits for that same lock, resets the
  watermark and commits; Postgres may abort it there (`RebuildAborts`). `Folded` is
  `applyDispatchBoardEvent`: a stale event changes nothing, and a state-only event
  cannot create a row. A batch is folded in the order of its numbers (`FoldRun`, a
  function that recurses over the numbers). The other columns of a board row
  are left out: a delta is full (it can create a row), state-only, a tombstone, or
  one the schema refuses.
* **RunLifecycle.** Two-step transactions over one order, its run and its photos.
  `DriveWrites` and `CancelWrites` write by id alone, as the code does; the
  completion by photo, the reconciler and the ghost repair repeat "not terminal"
  in their WHERE clauses and so are guarded again. The gates count committed photos
  and stops and do not look at which stop a photo is of, so a photo has no stop
  here either. Left out: runs that carry several orders, and the split of a roster
  (a read).
* **ManifestIntake.** The outbox, the queue and the worker are a count of jobs per
  session (how they fail is `OutboxRelay`'s subject) plus the verdicts under way.
  `Finalize` is one transaction: a session that may be finalized under a manifest
  that may not changes nothing. `FindEligible` reads the join of manifests and
  sessions, whatever the sessions' states; `RedriveOnce` claims by comparing the
  attempts it read. The episode flag of the exhaustion report is in memory and is
  forgotten by `Restart`.
* **CommandDelivery.** The change-feed row of a command commits before the gateway
  hears of it (`Persist`, `PushCommand`). socket.io delivers at most once and its
  client buffers acks while it reconnects. A replayed POST answers `duplicate` and
  changes nothing, so it is a stutter. The push provider is always wired
  (`push.module.ts`), so the branch without one is left out. Authorization of the
  request and of the socket is a precondition of the actions.
* **DriverSync.** One run of the loop is `Read`, `Claim`, the server's
  `ApplyAction`s and `Respond`, then `Commit`, `Reset` or a rollback. The claim does
  not look at the status it overwrites, and two loops may coexist: a layout that is
  unmounted while `startNativeSyncLoop` still opens the database has no cleanup to
  call yet (`app/_layout.tsx:60`). A request the app has given up may still be
  applied (`late`). The api answers only `ok` today; the other answers are those the
  wire contract lets it give (`fetch-sync-transport.ts`). No screen writes to the
  action log yet; `Enqueue` is what the schema and `nextSequence` describe. Batch
  size and backoff times are left out. Only `timer_tick` is ever passed to the
  schedule (`native-bootstrap.ts:45`), so it is the only trigger. `QueueOrder` adds a
  history variable: which action a read took while an earlier one of its aggregate was
  claimed, refused or blocked.
* **DriverSession.** A refresh is three statements: the claim of the presented
  token, the look at `driver.active`, the insert of the successor; each may be the
  last. A reuse revokes the family. On the phone `performRefresh` loads, sends,
  saves or clears, and callers that arrive meanwhile join it. The storage answers
  in the order it is asked. A token nobody holds may be minted again, which makes
  rotations unbounded with five names.
* **OrderDesk.** A form shows the pairs that were free when it was opened. `create`
  inserts the month's counter if it is missing (`order-numbering.service.ts:66`), takes
  its number behind `FOR UPDATE` on that row, then writes order, stops and run, and
  commits. The
  soft delete of a driver reads and writes pairs, orders and the driver in
  statements of its own. A month is a number without a year, as in the code.
* **DriverRoster.** A create is four statements (`admin-drivers-create.service.ts`):
  look by name, look by phone, revive or insert. Unique indexes speak of active
  rows only. A plan claims its ledger row, registers a driver and assigns a vehicle;
  it may crash between any two.
* **CaptureTrip.** The screen of a stop and an upload live apart: leaving the screen
  does not end the upload, and opening it again starts a new one. A finished upload
  fires the walk: list, then the next intent, then list again. The api commits at
  once; `RunLifecycle` has its interleavings.
* **WeighSlips.** A job reads the slip, judges it by `extraction-policy.ts` and
  reports; a stalled job runs a second time beside the first. The dispatcher's
  board is as old as his last load. Weights are whole kilos. A vision answer of the
  old shape names no slips: then all weighings on the photo are added up, and how many
  slips they are from is not asked (`Extraction`).
* **DriverAlerts.** `ReadDead` and `Decide` are the monitor's two reads; the relay
  moves rows between them. A death takes relay, consumer and monitor together. The
  history variable `bell` follows one stall from page to page: whether it was out of
  the monitor's sight since the last one, and whether it has ended (`Stall`, `Follow`).
* **LoginWatch.** A poll reads the mark, fetches, pages, reads the mark again and
  writes it, one await after the other. A login is stored after the time it carries.
* **DispatcherSession.** A request carries the cookies of the moment it is sent and
  changes them when its answer arrives. Whether Keycloak rotates refresh tokens is a
  realm setting outside the repository, hence the constant `Rotates`. Only what
  Keycloak decides is a step of its own (`ServeRefresh`, `ServeCallback`).
* **BoardView.** Links, tabs, pages and searches are plain anchors, so each is a new
  document (`Browse`). The router of Next.js runs server actions and refreshes one
  after the other (`queue`). The order of rows with one date is open, because
  `getBoardPage` sorts by `planned_start_at` alone.
* **AdminLists.** Loads carry the number of their request; `LandRows` sets whatever
  answer comes. The three pages differ in what makes them busy, whether they reload
  after a refused edit, and whether they listen to the focus.

## 3. What each run checks

Every run is listed in `PROJECT.json`; the bounds are in the `.cfg` and in the MC
module. A run that passes has explored every state of its instance, and between them
these runs take every action. The last three runs are expected to fail: each checks one
promise of a comment that the code does not keep, and ends in a counterexample
(section 6). `CHECK_DEADLOCK FALSE` is set throughout, because each model may
come to rest: all rows settled, all numbers used, every fault spent.

| Run | Instance | Shows |
|---|---|---|
| `outbox_relay` | two rows, one routable and one possibly not, two overlapping drains, five attempts, one death | a final status is earned, and its job runs at most once; every outcome is final (`EventDelivery`); every row is settled |
| `change_feed` | feed: two runs, two writers, three events, one rebuild, device deltas, batches and pages of two. Tab: two orders of one date, two searches, two pages of one row, two forms | a run's events commit in the order of their numbers; the board is what its events make it and never regresses; a rebuild repairs what was skipped and forgets nothing; every event ahead of the watermark is folded; a created order is never lost from the screen nor there twice |
| `dispatch` | run: two transactions of any kind, two stops, three photos, two reasons. Commands: an operator with two devices and one with none, three attempts, three pushes, one restart | a completed run has its photos; only a stale driver write, or a cancel of a completed run, leaves a terminal state; a run that has its photos is closed; a command reaches a device once, is settled once, and one without a socket is settled |
| `manifest_intake` | intake: one manifest with two sessions, two attempts, one loss, one manual redrive, one restart. Weights: two photos of one stop, four slips, two typed weights, one fault | a photo is decided once, by one session, as its file deserves and with its invoice (`PhotoOutcome`); a verdict or a report in the end; an extracted weight is that of the slip; a typed one is overwritten by the second run of a stalled job only; processing ends |
| `driver_sync` | two loops, two actions (of one aggregate; one waiting for the other; of one aggregate with the first blocked), answers of every kind; a late request, a storage failure or a kill, two of the three where an action waits | what is called synced is in the feed, and behind its blocker; an action overtakes an earlier one of its aggregate only if a read passed over that one |
| `sessions` | driver: one phone, five token names, two requests and two callers at a time, two logins, one logout, one fault (lost answer, dead handler, restart, failed load). Dispatcher: two tabs, two requests, two logins, three tokens, rotation | a family has one live token; the phone alone causes no reuse; a logout holds unless a refresh was under way; a deleted driver ends on the login screen; a failed refresh signs the dispatcher out only for a cause |
| `administration` | desk: two drivers, a vehicle, two forms, two transactions, two months, two orders, three edits. Roster: three records, two names, two phones, two creates, one plan, two deletes. List: two tabs, three loads, two edits and one of somebody else | numbers are distinct; a soft delete leaves nothing but what was committed behind its back; a plan takes effect once, in order, and its stamp tells what was done (`PlanLedger`); no second identity; a list whose answers came in order is current |
| `driver_app` | capture: a run of two stops, two uploads, one fault. Queue: one loop, three actions of two aggregates, two lost requests, one remount, a row of another user | done means received; walks arrive; a photographed run ends; an action is settled unless the circuit breaker opened |
| `timers` | alerts: two rows, one relay, batches of two, two attempts, one death, a driver who may never enrol. Logins: two, one of them break-glass, two polls, one failure | an alert is delivered, paged for or lost where the monitor does not look; a second page has a cause; a login is paged unless it was stored behind the mark |
| `dropped_connection` | one command, two devices, no restart | fails: a command whose connection dropped before the ack is never pushed |
| `aggregate_order` | one loop, the four actions, only `ok`, no fault | fails: the second action of an aggregate is in the feed before the first |
| `stall_pages` | one alert, otherwise as `timers` | fails: one stall is paged twice |

### Why the bounds are enough

The hazards are about two actors: two drains, two writers, two transactions, two
sessions, two loops, two devices, two requests of one browser, two answers to one
list. Each instance has the two that meet, and one thing more where the third
changes the outcome: a third photo, so that two callbacks can each count one they
do not see; a third event, so that a batch of two leaves one behind; a third
action, so that one aggregate has two and another waits for it; a third record, so
that a create can find one twin and be refused by another; a third load, so that
an older and a newer one surround an edit. Faults are bounded by one or two of each
kind, enough for the fault to hit every step and for a second one to hit the
recovery. Five attempts are the relay's own limit and three pushes the gateway's;
two attempts of the reconciler and one or two transport failures are the smallest
numbers with a first, a last, and (where it matters) one in between. Two pages of
one row are the smallest board on which a row can be on the other page.
In `driver_sync` two actions are queued in one behaviour (`Scopes`). Two kinds of fault
meet while one action waits for another, which is when the feed can lie; the order of one
aggregate meets each kind alone, since two loops are disturbance enough. A lost request, a
remount and a row of another user are in `driver_app`. All of it together takes more states
than a run can visit; the theorems `FeedTruth` and `OvertakingHasACause` have no
such bound. The theorems need no bounds at all: where a module has a bound as a
constant, they hold for every value of it.

### Properties that take several actors to violate

* `DeliveryIsEarned` states the loss window of the relay exactly: a sent row without
  a job is in a live relay's hands or was dropped by a death, a dead letter is a
  routable row's only after all its attempts, and an add that failed for the relay
  but not for Redis runs no job twice.
* `PerRunCommitOrder` is what makes the projection's "skip what is stale" sound:
  across runs the feed commits out of order, within a run it cannot, because the
  row is locked before the number is taken. `RebuildIsSound` says that a rebuild is
  the remedy for events the watermark passed.
* `CompletedIsDelivered` must survive between a count and the write that relies on
  it. `EventuallyClosed` is about two callbacks that each miss the other's photo.
* `ImplementsPhotoOutcome` holds over any mix of retried uploads, duplicate jobs,
  redrives and restarts: photo, session and invoice are decided in one step, and no
  sound photo is rejected. `VerdictOrReport` is the promise of the exhaustion report.
* `DeliveredOnce` keeps replays, which may follow a restart, from the devices.
  `SettledOnce` is the refinement of `CommandFate`. `UnconnectedIsSettled` is about the
  commands the fallback does push; `FlushedAfterDrop`, about those it should, fails.
* `FeedIsTrue` holds although two loops may send one action twice and a request may
  arrive after it was given up. `AggregateOrder`, the queue's FIFO guarantee, fails, and
  needs no fault for it. `OvertakenIsHeldBack` is what remains with two loops and all the
  faults: the only way past an earlier action of an aggregate is a read that did not
  offer it, because it was claimed, refused or blocked.
* `OneLiveToken` depends on the claim being one conditional UPDATE. `ReuseIsDisturbed`
  says that detected reuse, which signs the driver out, always has an outside cause.
  `LoggedOutStaysOut` has one exception, a refresh under way at the logout, which is
  a finding.
* `RefsAreDistinct` has no unique index behind it, only the row lock and the reread.
  `DeletedHoldsNothing` names what a soft delete can miss: what was committed between
  its statements. `NoSecondIdentity` excepts creates that raced a delete or a rename.
  `ImplementsPlanLedger` holds over any crash and any number of confirmations, with
  forms that register, rename and delete the same people meanwhile.
* `DoneIsReceived` relates a screen to uploads of screens before it. `WalkArrives` and
  `PhotographedEnds` are about two walks that meet the refusals they cause each other.
* `WeightIsRead` says that no mixture of reports, slips and typed weights calls a
  number extracted that is not on the slip. `ManualHolds` is its converse.
* `MissIsKnown` lists where the monitor is blind: a death of the relay after its
  claim, and a push nobody accepted. `OnePagePerStall`, the
  promise of the monitor's comment, fails. `SecondPageHasCause` is what remains: between
  two pages the stall ends, the process restarts, the relay holds all of the stall, or a
  claim falls between the two reads of a check. `PagedIsBehindCursor` and `LoginIsPaged` say which
  logins are paged and which are passed.
* `SignedOutForCause` looks at an answer that erases the cookies and asks whose it is.
* `KnownOnce` relates what the dispatcher was told to slices of a projection that
  lags, over refreshes, pages and closed forms. `ListIsCurrent` says what is left of
  "current" when answers are not ordered.

Every property of a passing run is broken by a mutant of the code's model
(`PROJECT.json`, `mutants`): a dropped guard, an off-by-one, a missing reset.

## 4. Fairness

Safety is checked and proved without fairness. The liveness properties assume:

* the scheduler arms a ticker again in a `finally` after every run
  (`scheduler.service.ts:78`), so a drain, a reconciler tick or a fallback pass
  that stays possible is made: weak fairness of the relay's steps, of `Drain`,
  `FindEligible`, `RedriveOnce`, `EndTick`, `ReconcileNow`, of the monitor's reads
  and of each `Poll`. For the completion reconciler it is strong, since other
  transactions come and go in the model's few slots while the pool always has
  another connection;
* Postgres ends every transaction, BullMQ hands a waiting job to a worker and takes
  a stalled one back (`Attempt`, `StallDead`), an api handler goes on until it
  answers or dies (`Handler`), and a push or a request settles (`Answered`,
  `UploadAdvances`);
* time passes: a backoff, a due time, a delivery timeout, the lifetime of an access
  token (`AccessExpires`), the monitor's threshold (`GrowOld`);
* the driver opens the app, the timer of a loop fires after every run (`Start`,
  `Run`), a load of the storage returns and a caller goes on (`Load`, `Join`), and a
  finished upload goes on with its walk (`Walk`).

Nothing is assumed of people (no order is created, no photo taken, no device
connects, no page is opened unless somebody wants to), of the network succeeding, or
of crashes ending the right way. `OrderDesk`, `DriverRoster`, `DispatcherSession`,
`BoardView` and `AdminLists` state no fairness and no liveness: what happens there
next is always a person's choice or an answer that may be lost. In the side-by-side
runs each fairness condition carries the name of its side, because the other sides
never let it step.

## 5. What is proved

Every invariant, action property and refinement that a passing run checks is also a
theorem, for every value of the constants that meets the named assumption of the
module (positive limits, finite stops and photos, ranks and blockers of the right
type). TLC evaluates each assumption in the runs.

| Proof module | About | Theorems that state a run's property | Others |
|---|---|---|---|
| `OutboxRelayProofs` | `OutboxRelay`, `DriverAlerts`, `LoginWatch` | `EarnedOnce`, `Refinement`, `SecondPagesHaveACause`, `PagedLoginsAreBehind` | `Invariance`, `TypeSafety`, `ClaimSafety`, `DeadLetterSafety`, `LossWindow`, `StatusIsTrue`, `OutboxUnderAlerts`, `AlertInvariance` |
| `ChangeFeedProofs` | `ChangeFeed`, `BoardView` | `CommitOrder`, `BoardMovesForward`, `BoardShowsTheTruth`, `RebuildsAreSound`, `OrdersAreShownOnce` | `FeedInvariance`, `ChangeFeedTypes`, `ProjectionInvariance` |
| `RunLifecycleProofs` | `RunLifecycle`, `CaptureTrip` | `CompletionIsSound`, `GuardedWritersRespectTerminal`, `DoneScreensTellTheTruth` | `LifecycleInvariance`, `TripInvariance` |
| `ManifestIntakeProofs` | `ManifestIntake`, `WeighSlips` | `IntakeRefinement`, `WeightsAreRead`, `ManualWeightsHold` | `IntakeInvariance`, `OutcomeOnce`, `VerdictsAreDeserved`, `OneVerdictPerManifest`, `InvoiceOnce`, `SoundCommits`, `BudgetIsKept`, `VerdictStays`, `WeighInvariance` |
| `CommandDeliveryProofs` | `CommandDelivery` | `NoRedelivery`, `Refinement` | `DeliveryInvariance`, `ChannelsAreDisjoint`, `DeadLettersAreEarned` |
| `DriverSyncProofs` | `DriverSync`, `QueueOrder` | `FeedTruth`, `OvertakingHasACause` | `QueueInvariance`, `QueueTypes`, `SyncedActionsAreApplied`, `BlockersComeFirst`, `CursorsAreKnown` |
| `SessionProofs` | `DriverSession`, `DispatcherSession` | `FamiliesHaveOneToken`, `ReusesAreDisturbed`, `LogoutsLast`, `SignOutsHaveACause` | `SessionInvariance`, `BrowserInvariance` |
| `AdministrationProofs` | `OrderDesk`, `DriverRoster`, `AdminLists` | `OrdersHaveTheirOwnNumber`, `DeletesLeaveNothing`, `PlansFollowTheLedger`, `IdentitiesAreRevived`, `NewestRowsAreCurrent` | `DeskInvariance`, `RosterInvariance`, `PlansTakeEffectOnce`, `ListTypesHold` |

Few of the properties are inductive as they stand. What each proof adds to them:

* **Relay.** A row in a relay's hands is `sent` and its attempts are what the claim
  read plus one, so no other claim can see it and the number written later is not
  stale. `RowHistory` says what a row that was never claimed looks like; `JobHistory`
  says that a job that ran is retained until no relay can add it again, and needs
  `~JobsExpire`.
* **Alerts.** The relay's invariant survives the alerts, whose steps on rows and jobs
  are the relay's own. The monitor's bell rings only for something a read saw, and
  what it saw dead stays dead (`SeenStaysDead`). While the bell says that nothing hid the
  stall since the last page, the flag is up, the stall is visible, and a check under way
  will find a miss (`BellIsTrue`): the four causes of `SecondPageHasCause` are the only ways past it, and
  two of them are pages within one stall.
* **Logins.** A paged login is behind the mark or behind the mark of a poll that has
  paged and not written yet (`PagedIsTracked`), unless a write failed or polls crossed.
* **Commit order.** Two-phase locking: whoever holds a run's row was the only one to
  take a number for it since, so its number is above all that run has committed.
* **Projection.** `FoldRun` recurses over numbers, so the proof first shows that a
  replay exists and is unique: the sequence of rows it passes through (`Replays`, by
  well-founded induction over a set of numbers). Then it shows what one number can do
  to a row (`ReplayStep`), what a replay can make of the rows before it (`ReplayShows`,
  `ReplaySame`), that a page of the feed has no gaps below its last number
  (`PageHasNoGaps`), and that replaying two batches, the second above the first, is
  replaying their union (`ReplayInTwo`). With these the invariant holds: visible rows
  stand on events of their run (`RowsStandOnEvents`), a run that only its own
  transactions wrote is shown as new as what is folded (`CreatedRunsAreShown`, which
  needs the commit order), and over a quiet feed a row that a rebuild hid is the replay
  of what has been folded since (`RebuiltRowsAreTrue`).
* **Board of a tab.** What the document shows has been listed, so an optimistic row that
  goes away because its real row is on the page is not forgotten.
* **Lifecycle.** A transaction about to complete the run knows only an old count. The
  invariant carries each of those promises (`Justified`); committed photos only grow,
  and the photo a callback counts before it commits is locked by it (`PhotoLocks`).
* **Capture.** Photos are taken in order (`InTurn`), an upload speaks only to the screen
  that sent it (`ScreenHears`), and a screen sends photos of its own stop (`SentHere`);
  so the answer that makes a screen done is of a photo the api has just received.
* **Intake.** The invariants are inductive together, with one addition: an accepting
  verdict under way was reached on an object that is sound. The refinement needs the
  converse too, and that nothing is queued, reported or decided before the object is
  there (`VerdictsAreRight`); then a finalization that is not refused is `Commit` or
  `Reject` of `PhotoOutcome`, `Put` is `Store`, and every other step is a stutter.
* **Weights.** A run that holds an extracted weight read it from its photo's slip
  (`RunsAreTrue`), by what the policy computes from a slip (`ExtractionIsTrue` and the
  sums it uses). A typed weight holds because a board offers only photos somebody
  reported on, and after a report only a second run still works on the photo
  (`TouchedRests`).
* **Commands.** An emitted command starts below the limit of attempts and nothing
  raises it, so no push of it is ever due (`ChannelsAreDisjoint`: for any constants, the
  push that `FlushedAfterDrop` waits for does not come); at most one push of a command is
  in flight, and only while it is pending.
* **Sync.** An action in any request, live or late, has its blocker in the feed already,
  because it was eligible when it was read and the feed only grows; an answered request
  has handled its batch. For the order of an aggregate: of whatever a request holds, live
  or late, each earlier action is in the feed, or a read has passed over it
  (`SentIsPassed`). A step can enlarge three things, the queue, what requests hold, and
  the feed (`QueueGrows`, `HandsGrow`, `FeedGrows`), and each keeps that invariant
  (`GrowthKeepsOrder`). There is no hypothesis on loops, faults or answers.
* **Driver sessions.** A family is a chain: one token of it is live, or one handler is
  between the claim and the insert of the next, or neither (`OneEnd`). The phone holds
  the end of the chain of every undisturbed family, in its storage, in a request or in
  an answer (`PresentedIsLive`, `StoredIsLive`), and after a logout that met no refresh
  there is nothing left that could bring a token back (`LogoutIsQuiet`).
* **Dispatcher's session.** Of a session that is not over and of which no token was sent
  twice or lost, the newest refresh token is in one place: the cookie jar, one request,
  or one answer (`Chain`). An answer that signs out is therefore of another session.
* **Desk.** Whoever has read the last number of a month holds the row of its counter
  until its order is committed (`OneHolder`, `NumberIsNew`). A create and a soft delete
  each know what the other did behind their back (`CreateKnows`, `DeleteSeesPairs`,
  `DeleteSeesOrders`).
* **Roster.** A plan is `started` exactly while one handler executes it, and its effects
  are the commands behind that handler (`OneExecutor`, `EffectsAreSteps`). A create that
  is not marked as raced has seen that no soft-deleted row has its name or phone
  (`LooksAreTrue`). The step lemmas of `PlanLedger` need one thing more, that a plan's
  create carries the name and the phone of its plan (`CreatesTheirDriver`); a write of
  the driver's row is `Register`, a granted pair `Assign`, the stamp `Stamp`.
* **Lists.** The newest load was sent after the newest answer to an edit, and for the tab
  of the page or by an edit (`NewestIsCurrent`).

The type invariants are part of these invariants and therefore not checked in the
runs, with one exception: the number of tokens in `DispatcherSession` is bounded by a
sum over the sessions (`FoldFunction`), and no rule of the prover unfolds such a sum.
The proof types these numbers as naturals (`WebTypes`), which is all it needs.

Two mistakes of the models came to light in the proofs and are corrected.
`WeightIsRead` said that the photo of an extracted weight has one slip; on the old
shape of the vision answer nobody counts slips, and the instance of the run happened to
have one. Two arms of `Folded` overlapped in a CASE, which leaves the choice open; they
are now ordered as the code orders them.

Only model-checked: liveness (`EventuallySettled` of the relay and of the queue,
`EventuallyFolded`, `EventuallyClosed`, `VerdictOrReport`, `UnconnectedIsSettled`,
`MissIsKnown`, `LoginIsPaged`, `WalkArrives`, `PhotographedEnds`, `ProcessingEnds`,
`DisabledIsSignedOut`). The prover has no rule for `ENABLED`, and so none for fairness.

## 6. Where the code and its documentation disagree

Three promises of comments are stated as they stand, and a run shows each of them
violated. Other properties hold only with an exception, and the exception is the code
doing other than a comment or a declaration says. Each of these is a finding in
`PROJECT.json` with the line it contradicts.

1. `DeliveryIsEarned`: the relay's comment prefers rare duplicates to lost events; the
   claim that commits `sent` first makes it the other way round.
2. `PerRunCommitOrder`: `newCursor` is said to be what the client has visibility
   of; smaller numbers of other runs may still be uncommitted.
3. `OnlyStaleDrivesRevive`: `completed` and `cancelled` are declared terminal;
   two writers update by id alone.
4. `CompletedIsDelivered`: "every stop has a committed manifest" is a comparison of
   two counts.
5. `VerdictOrReport`: the reconciler calls itself self-healing; for a manifest with a
   second session the attempts may all go to the dead one.
6. `EventuallySettled` of the queue: the circuit breaker pauses "until external
   trigger", and no code sends one.
7. `LoggedOutStaysOut`: "storage always cleared", except under a refresh.
8. `ManualHolds`: a terminal extraction status is overwritten by a late result.
9. `MissIsKnown`: "any break pages", except those that leave the row `sent`.
10. `PagedIsBehindCursor`: the poll neither removes what it has seen nor keeps its mark
    from moving back.
11. `SignedOutForCause`: "never a mid-shift 401", except when two calls mint at once.
12. `KnownOnce`: the board outlives the drawer, and the effect that tells it does not.
13. `ListIsCurrent`: a reload for the current state may bring an older one.
14. `FlushedAfterDrop` (run `dropped_connection`): "pending entries remain; reconciler
    flushes via Push fallback" (`commands.gateway.ts:213`). An emitted command keeps
    `attempts` 1 and the fallback asks for 3, so it stays pending until the same device
    acknowledges it after all or the process ends.
15. `AggregateOrder` (run `aggregate_order`): "FIFO guarantee"
    (`action-queue-policy.ts:32`). The filters run before the head of an aggregate is
    chosen, so a blocked, claimed or refused head lets the next action pass.
16. `OnePagePerStall` (run `stall_pages`): "ONE fatal per stall episode"
    (`alert-lag-monitor.service.ts:12`). A row that keeps failing is `sent` between its
    claim and the failure; a check in that moment takes the stall for recovered, and the
    next one pages it again.

Others were met while modelling and are no finding of a run:

* a rebuild over a live feed moves the watermark past numbers that are still open
  (`projection-rebuild.service.ts:56`), as an ordinary drain does;
* the completion flip also takes runs that never started
  (`repair-complete-delivered-runs.ts:118`);
* a photo received between the count and the cancel does not stop the cancel
  (`transport-orders.cancel.service.ts:88`), a repeated cancel skips that check
  (`:94`), and two first cancels with different reasons both succeed (`:30`);
* a soft delete leaves `cancelled_by` empty (`admin-drivers-update.service.ts`), so
  a later cancel of that order is refused although its run is still live; the
  ghost repair closes it. `transport_order.state` is never set to completed, so the
  delete also cancels the orders of completed deliveries (`:46`);
* commands that become due while the gateway drains are not waited for
  (`commands.gateway.ts:217`);
* `lock_contended` and a storage failure leave a batch in `syncing`, which nothing
  looks for (`sync-policy.ts:97`, `sync-loop.ts:163`); a read that fails ends the
  loop (`native-bootstrap.ts:47`);
* the outbox row of a synced action has no `eventType` (`sync.service.ts:118`), so
  the relay dead-letters it;
* the worker's header says infrastructure errors are retried by BullMQ
  (`main-worker/src/main.ts:12`), as does the extraction's
  (`extraction-flow.ts:53`); jobs are added with one attempt, and an extraction job
  that fails leaves its photo `processing`;
* sessions: a 5xx at a refresh turns the gate to the login screen
  (`session-manager.ts:95`); the 401 of an old refresh clears the storage of a newer
  login;
* desk: `create` does not repeat the busy check its form made
  (`reference.service.ts:25`); the month carries no year; assigning ignores `active`;
  two creates may revive one row (`admin-drivers-create.service.ts:24`); a rename to a
  deleted driver's name makes the next create fail with a raw 23505; a crash leaves a plan
  `started` and every retry a duplicate (`copilot-executor.service.ts:93`);
* capture: `stop.departed_at` is never written, so the phone never asks for
  `complete`; the manual button that auto-advance calls its fallback does not exist
  (`assignments.tsx:40`), nor does the reset of the capture screen; a second photo
  taken during an upload is marked done by the first one's answer;
* weights: the editor closes on refused and conflicting saves too
  (`ManualNetWeightEditor.tsx:30`, against `:11`); the bounds meant for the net are
  applied to gross and tare (`extraction-policy.ts:17`); a typed weight keeps the
  reason of the refusal it replaces; no button corrects a wrongly extracted weight,
  which `setManualNetWeight` says it is for; "first committed manifest per stop wins"
  has no ORDER BY;
* alerts: a dead letter stays, so the first one keeps the episode open and later
  misses page nobody until a restart; the app throws its push token away
  (`app/_layout.tsx:46`), so every alert job fails unseen;
* monitoring: the newest login is paged every minute, and one stored late is skipped;
* ops-web sessions: logout deletes one of two cookies, so the next page signs in again
  (`logout.action.ts:32`); the board goes to the login page although the refresh cookie
  lives (`load-board.ts:79`); the review page and the refresh route send each other
  round while the api refuses every token; two login tabs overwrite each other's
  secrets (`callback/route.ts:35`);
* board: an optimistic row whose order is cancelled, completed or on another page stays
  and says planned; rows of one date may repeat or be missed across pages, because
  `getBoardPage` sorts by `planned_start_at` alone; its count and its rows are two
  statements; a failed load of a device tab leaves the other tab's rows under it; a
  focus reload erases the message of a refused edit (`reference-sections.tsx:114`).

## 7. What is not modelled

* **Passkeys and step-up.** The ceremonies are a library's; the state of their own is a
  single-use challenge taken with one Redis GETDEL, under a unique index of
  credentials. No client in the repository performs one.
* **Devices and binding.** The enrolment of a push token is in `DriverAlerts`. Approval
  and revocation are single-row writes; no controller uses the binding guard, and the
  app has no caller of the enrolment or attestation clients. The list of the devices
  page is in `AdminLists`.
* **Build webhook.** One message per build; it is marked seen before it is reported, so
  it is reported at most once (`eas-inbound.controller.ts:91`).
* **ERP, language and vision models, Keycloak, Expo.** External. What the code expects
  of them is in the modules that call them.
* **Exports, metrics, timeline, roster split, owner app.** Reads whose result nothing
  else depends on.
* **Forms, tables, wording, number formats.** Data. `BoardView` and `AdminLists` have
  the control of the two screens on which answers, refreshes and edits meet; other
  screens load once.
* **Scheduler, worker queues.** No modules of their own: they are the fairness of
  section 4, `OutboxRouting`, the single attempt in `OutboxRelay` and the stalled job
  in `WeighSlips`.
* **Migrations, deployment, scripts, tests.** Most of the repository's lines; no
  behaviour of the running system. The two repairs that run as tickers are in
  `RunLifecycle`.

Within modelled components: columns of a board row other than its state; runs that
carry several orders; the drawn-out retry of a capture by its spool, which no screen
fills; password resets, which no list shows; `WeighSlips` assumes the worker is
configured for extraction (one that is not completes the job and leaves the photo
`pending`).

## 8. Plan

Order is by how much depends on the part.

Done: the outbox relay with `EventDelivery`; the feed and the projection; the lifecycle;
the intake with `PhotoOutcome`; the commands with `CommandFate`; the offline sync; driver
sessions; desk and roster with numbering and `PlanLedger`; the capture trip; weigh slips;
alerts over the relay; the login poll; the dispatcher's session, board and lists. The safety
properties that hold of these are proved.

Left, in order:

1. Step lemmas for liveness: from each state of a waiting row, event or action, the
   helpful step does not move away from the goal and every other step keeps it waiting.
   The fairness argument on top of them stays with TLC.
2. Composition: the relay's queue under the intake's `jobs`, so that a loss in the
   intake is a death in the relay; the feed under `DriverSync`'s rows, so that the
   sync cursor meets uncommitted numbers.
3. An abstract specification for the sessions (a family as one live token or none), with
   the proofs at hand as the step lemmas of the refinement. `DriverSession` gives the
   names of spent tokens, and with them the numbers of forgotten families, to new ones,
   so the mapping needs a history variable that tells those families apart.
4. Devices and passkeys, once an app calls them.
