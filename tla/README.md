# EquipChain backend: TLA+ verification project

The EquipChain backend is a Node.js server for metering data of equipment on a
Stellar/Soroban chain. This directory holds TLA+ models of its background
services and of the stateful parts of its HTTP API, the TLC configurations that
check them on small instances, and TLAPS proofs. Paths below are relative to the
implementation's directory (`src/src/` in `PROJECT.json`).

What the repository calls concurrency is the interleaving of callbacks: Node.js
runs one callback to its end before the next. An action of a model is therefore
one run of code between two yields to the event loop (a method called by a
route, a timer callback, the continuation after an `await`), and whatever such a
run calls on its way belongs to the same action.

## 1. Inventory

| Part | State it keeps | Operations | Talks to |
|---|---|---|---|
| Job queue (`services/queue.js`) | jobs, `queuedJobs`, `activeCount`, timers, the debounced snapshot on disk | add, cancel, start, stop, close, drain loop, retry, timeout, eviction, persist, recovery | called by scheduler ticks and webhooks; calls the job handlers |
| Scheduler (`services/scheduler.js`) | schedules, the timer of each chain | schedule, cancel, start, stop, close, chunked waits | its handlers call `queue.add()` |
| Service lifecycle (`services/index.js`, `server.js`) | which services run, `isShuttingDown`, force timers | startServer, initServices, gracefulShutdown, forced exit, readiness probe | starts and closes scheduler, queue, cache, sockets |
| Cache (`services/cache.js`) | Redis client, memory store, `inFlightGets` | connect, get, set, del, flush, delPattern, getOrSet, quit, event listeners | Redis; used by analytics, auth and jobs |
| Readings store (`services/aggregator.js`) | readings in memory, id counter | addReadings, getReadings, retention sweep, aggregations | analytics, billing, reports, exports |
| Analytics (`routes/analytics.js`) | cached aggregations with a stamp | daily, weekly, monthly, readings, fleet-summary, custom-range | cache, readings store, pagination |
| Billing, report, sync and cache-warm jobs (`jobs/`) | none (results in the job, one cache key each) | one handler each | readings store, cache, Soroban |
| Webhooks (`routes/admin/webhooks.js`, `services/webhook.js`, `jobs/webhookRetry.job.js`, `repositories/WebhookRepository.js`) | records, delivery logs | register, patch, delete, deliver, cancel, attempt | job queue, receivers over HTTP |
| Pagination (`utils/pagination.js`) | none in the server: the walk lives in the client's cursors | offset and cursor pages, search, filters | admin lists, `/readings` |
| Access control (`middleware/auth.js`, `apiKeyAuth.js`, `requireAdmin.js`, `ApiKeyRepository`) | revoked tokens (process and cache), API keys | authenticate, sign out, use and revoke a key | cache |
| Rate limiter (`middleware/rateLimiter.js`, `config/rateLimits.js`) | counters per tier and identity, runtime ceiling | count, open a window, evict | admin config |
| Exports (`services/exporter.js`, `routes/exports.js`) | one stream per response | summaries, CSV, JSON and NDJSON streams | readings store, devices |
| Realtime gateway (`services/websocket.js`) | rooms (in socket.io), connections | join, leave, broadcast | readings store, server |
| Admin API and repositories | arrays and maps in memory | synchronous CRUD, capped audit log | rate limiter, repositories |
| Soroban client, validation, logging, metrics | none that others read | one call, pure functions, counters | |

### What is hard, and what makes each part correct

* **Queue.** A job moves between three containers (`queuedJobs`, a timer, a
  running continuation) in callbacks that nobody orders: cancellation during a
  backoff, eviction beside a late timer, a snapshot taken between two of them, a
  crash at any moment. Correct: a queued job is in exactly one container; the
  slot counter is exact and no slot is idle beside a waiting job; attempts are
  bounded over retries, timeouts and restarts; what is on
  disk can be recovered and is never silently stale; every job ends.
* **Scheduler.** Chains of timers outlive what they were armed for: after an
  await a chain looks its schedule up by *name*. Correct: full intervals between
  runs although Node.js clamps long timers, no dead chain, no doubled chain.
* **Cache.** Replies of one connection, microtasks, lost connections and the
  switch between Redis and memory. Correct: one load per key at a time, none
  at the edge of another, a bounded fallback, and an answer to every caller that the client
  has not forgotten.
* **Readings, analytics, billing.** Values derived from a window that evicts,
  read at two awaits and cached under a size stamp. Correct: the store is the
  most recent window, hits are fresh, a reading is billed once.
* **Webhooks.** An attempt abandoned by the queue goes on beside its retry;
  records change under queued deliveries and vanish with the process while the
  deliveries survive. Correct: bounded attempts, late answers that change
  nothing but the log, logs that are the latest window, pauses that hold, and
  an end to every delivery.
* **Pagination.** The list changes under the cursor. Correct: rows that stay are
  returned once, stepping back is adjacent; offset pages drift by no more rows than
  changed.
* **Access control and rate limits.** A sign-out lives in two places with
  different lives, and is asked for across an await; budgets live in fixed windows
  of a capped map, two of them on one path. Correct: a signed-out token is served
  only to a question that an outage kept, counts are exact, and no window doubles a
  budget.
* **Exports and aggregations.** A file is written over many turns of the event
  loop while the stores change; bucket keys are computed by stepping a calendar.
  Correct: a file is a snapshot, levels of aggregation agree, no slot is missing.
* **Service lifecycle.** Signals, exceptions and a start race; four waits, one of
  them unbounded, run under a force timer. Correct: services go down after their
  users, the queue is closed at every exit, readiness is truthful, it ends.

`PROJECT.json` lists the hazards line by line with the properties that cover them.

## 2. Modules

Every `MC*` module extends the module it is named after with the values that a
`.cfg` cannot spell. Operators named as *mutants* in a comment stand just before
the definition they falsify; they are used by nothing, and are there to show that
a property notices such a bug.

### JobQueue (`services/queue.js`, its callers in `services/index.js`, `server.js`)

Variables carry the names of the fields: `jobs`, `queuedJobs`, `activeCount`,
`isProcessing`, `handlers`, `persistTimer`. `executing` holds the jobs whose
`_executeJob()` has a continuation still to run (it outlives the clearing of the
map by `close()`), `timers` those with an armed delay or backoff timer, `file`
the snapshot, `notDue` the jobs whose `runAt` lies in the future.

`Add`/`AddDelayed`, `Cancel`, `Start`, `Stop`, `CloseBegin`/`CloseFinish` and
`RegisterHandlers` are the methods; `TimerFires`, `Complete`, `Reject`,
`Timeout`, `SettleAfterClose` and `PersistFlush` are the callbacks; `Die` and
`Load` the life of the process. The drain loop `_process()` runs at the end of
most of them and is `Process`: it says how many entries the loop shifts off
(`DrainStops`) instead of iterating. Insertion by priority is
`InsertionPoint`. Jobs are numbered by creation, which is also the order of the
Map that eviction walks. `persistFailed` remembers that the last write was given
what memory still holds and failed: any change of what a restart would bring back
ends it (`OnlyChangesSupersede`), so that it excuses no later change.

### JobLifecycle (what the queue promises)

The abstract specification: each job has a status and attempts spent, and
`Moves` lists the ways they may go in one step; `Save`, `Forget` and `Restart`
say what the snapshot, the end of a process and recovery do to all jobs at once.
No slots, lists, timers or handlers. JobQueue maps to it by what `getStatus()`
shows of a job (`LifeInMemory`) and what the snapshot holds (`LifeOnDisk`).

### Scheduler (`services/scheduler.js`)

`objects` are the schedule objects ever made, `schedules` maps the registered
names to them, `timers` the armed chunks with how much of the wait is left and
how much was slept, `inFlight` counts started handlers. `NodeDelay` is the
clamp of `setTimeout` (a longer delay fires after one unit). `HandlerSettles`
and `TimerFires` test the *name*, as the code does.

### Cache (`services/cache.js`)

`wire` is the connection (replies in command order) and `tasks` the microtasks
(all run before another event: the guard `Event`). `client` follows ioredis:
connecting, `connect` event, `ready` event, retrying, given up. A loss of the
connection leaves the commands on the wire as they are: ioredis sends them again
when it is ready again (`autoResendUnfulfilledCommands`, which `connect()` leaves
on), and they are answered then, after an outage of any length. They fail only when
the client gives up or is told to quit, and not even then if a connection came up in
between without becoming ready (`detached`): such a client has forgotten them, and
their callers wait for ever (`Forgotten`). The fallback store
is a function whose entries know the keys that came in before them, which is all
that the order of a Map decides here. A failed command that no caller waits for
leaves a continuation that only logs (`Logged`). `GetOrSet`,
`Checked`, `Loaded`, `Stored` are the four runs of `getOrSet()` between its
awaits. A `load()` that throws before it returns a promise is a branch of
`Checked`: its `finally` clause runs before `inFlightGets.set()`.

### ReadingStore, Analytics, Billing

`ReadingStore` has the ingestion, the cap, the sweep, days and restarts; a
reading is its id, its day and the process it came in. `Analytics` adds
concurrent requests of `sendAggregatedResponse()` with their two awaits and the
stamped cache entries; what an aggregation was computed from stands for its
value. `Billing` adds the hourly tick and the handler's choice of readings.

### Webhooks

Registration and deletion, `deliver()`, `cancel()`, the attempts of the handler
with their HTTP exchanges, and the logs. The queue appears as what JobQueue
guarantees of it (an attempt starts, succeeds, fails, runs out of time, and is
retried up to `maxAttempts`); `Awaited` is the race of `_runWithTimeout()`. `file` is the snapshot of the deliveries: `Save`
writes it at any time or, as writes are debounced and may fail, never, and `Restart`
goes on from what it holds. A delivery may therefore come back in an earlier state
(`rolledBack`), or not at all (status `gone`).

### CursorPaging (`utils/pagination.js`)

One client that walks through a list (`paginateList()`) while rows are inserted,
changed and deleted. `Searched`, `Filtered` and `InRange` are the three helpers
that narrow a list in both modes; a row may enter or leave what is asked for.
By cursor: the order of rows (`Before`: key, missing keys last, then id) and a page as
the first or last `Limit` rows beyond a position. By offset: `ArrayBefore`, the
stable sort by key alone, `Slice` and `TotalPages`. `Restart` is a client that
changes the sort order: `parseCursorParam()` refuses its cursor.

### Access, RateLimiter, Gateway (what a request to `/api` meets)

`Clock` is time. `RateLimiter` has the counters as a function from tier and
client; the `place` of each is its rank in the order of the Map's insertion, which
decides between counters that expire together. `Limit` and `LimitChallenge` are a
request at one and at both limiters. The runtime ceiling is `NoCeiling`, a number of
requests, or 0 for a fraction of one (`PATCH` takes 0.5, and then nothing passes). `Access` has the set
of the process, the entries in Redis, and the open calls of the cache: with Redis
they are on its connection (`wire`) while other requests run, and stay there over an
outage (`kept`), as in Cache; on the fallback, or without a connection, they are
`tasks` that settle in the same event. A client that gave up (`LinkGivenUp`) answers
what it still holds as the fallback does. `Gateway` composes both in the order of `app.js` and
`routes/index.js`, with the maintenance gate between them and the configuration
(`Configure`) that an authenticated request may change. `GatewayProofs` shows that
Gateway implements `AccessSpec`.

### Aggregation, Exports

`Aggregation` holds the pure algorithms of `aggregator.js` (bucket keys and their
stepping, percentiles, groupings, comparison of periods) over a calendar whose
months, weeks and days are constants. `Exports` extends it and ReadingStore: a
request computes its rows in one step (`Ask`) and writes one per turn (`Data`),
while readings arrive, age out and are evicted and the devices of the admin
registry change, each change with its audit entry. Filters and sorts are written as
`Ordered` sets of places, which is what a theorem can be stated about; Analytics, which
shares a proof module with Exports, names its parts `AnalyticsInit`,
`AnalyticsNext` and `AnalyticsSpec` for that reason.

### Lifecycle (`server.js`, `services/index.js`, `config/tracing.js`)

Each service is the phase it is in; `pc` says what each call of
`gracefulShutdown()` waits for, `timer` and `force` the seconds left of that wait
and until the exit it armed. Two shutdowns may run side by side: `Signal` has the
guard of the handler, `Exception` resets it. What happens inside a service is
in JobQueue, Scheduler and Cache.

## 3. Runs

| Run | Question | Bounds |
|---|---|---|
| `queue` | With a snapshot, failing writes, crashes and a re-entered shutdown: slots exact and used, priorities kept, live jobs kept, recovery complete, JobLifecycle implemented, and an end to every job | 2 jobs, 1 slot, 2 attempts, 2 priorities, one type without handler, history of 1, depth of 2, crashes unbounded |
| `scheduler` | Full intervals, no dead chain, one chain for prompt handlers, and schedules that run forever | 2 names, 2 objects, one interval above the clamp |
| `cache` | One load per key, no load at the edge of another, bounded memory, answered callers | 2 callers, 2 keys, 1 memory entry, 1 reconnect in a row |
| `analytics` | The store is the most recent window; hits of a growing store are fresh | cap 2, 3 readings, days 0..2, 2 requests, 1 restart |
| `webhooks` | Bounded attempts over restarts from any snapshot, latest answers, abandoned attempts, pauses, and an end to every delivery | 1 delivery of 3 attempts, 1 webhook, logs of 2, 2 restarts |
| `cursor_paging` | By cursor: steady rows exactly once, stepping back adjacent. By offset: at most one row lost or repeated per change | 4 rows, 2 keys and missing ones, asked for or not, pages of 2, 2 changes in a walk |
| `gateway` | Exact counters in a capped store, less than two budgets in any window, and sign-outs that hold but for questions kept by an outage | 2 clients, 1 token, 1 key, windows of 2 ticks, room for 2 counters, 2 open cache calls, 4 events (requests, changes of the configuration and of the link, restarts) |
| `exports` | Files are snapshots, totals agree between levels, no slot of a range is missing where the steps fit | cap 2, 3 readings over 7 days of 2 hours, months of 3, 2 and 4 days, 18 requests, one of them of two whole weeks, 1 device |
| `lifecycle` | Order of the shutdown, a closed queue at exit, truthful readiness, an end | default limits in seconds, 2 shutdowns, one job, one request, two kinds of connections |
| `queue_close` (violation) | Do queued jobs survive `close()`, as queue.js:551-553 says? | 2 jobs |
| `billing` (violation) | Is a reading billed in one period only, as billing.job.js:15 says? | 2 readings, months of 2 days |
| `gateway_wiring` (violation) | Do connected clients have a gateway to hear readings from, as aggregator.js:158 says? | as `lifecycle` |

Nine more configurations are kept outside the list of runs. Each checks one property
that states what a comment of the code says, and TLC finds it violated
(`tlc -config <cfg> <module>`):

| Configuration (module) | Property | What the code says |
|---|---|---|
| `MCGatewayOutage.cfg` (MCGateway) | `NoServiceAfterSignOut` | a token stops working when its sign-out responds (routes/index.js:117) |
| `MCCacheOutage.cfg` (MCCache) | `CommandsFailFast` | commands fail fast while reconnecting (cache.js:105-109) |
| `MCWebhooksLogs.cfg` (MCWebhooks) | `LogsAreOfTheirWebhook` | a delivery is recorded against its webhook (webhookRetry.job.js:231) |
| `MCJobQueueReclose.cfg` (MCJobQueue) | `CloseIsIdempotent` | the teardown is idempotent (server.js:139) |
| `MCJobQueueFailedWrite.cfg` (MCJobQueue) | `RunningJobsAreSaved` | a running job is in the file (queue.js:401-402) |
| `MCSchedulerOverlap.cfg` (MCScheduler) | `NoOverlappingRuns` | runs of a schedule do not overlap (scheduler.js:246-248) |
| `MCAnalyticsStale.cfg` (MCAnalytics) | `HitsMissNoFreshData` | no hit misses fresh data (analytics.js:74-78) |
| `MCExportsSlots.cfg` (MCExports) | `EverySlotIsPresent` | responses include all expected slots (aggregator.js:337-338) |
| `MCLifecycleLateStart.cfg` (MCLifecycle) | `GracefulExitsLeaveNothingOpen` | the teardown is safe if init never completed (server.js:139) |

Why these bounds are enough to be worth something: every cap is smaller than
what can arrive (two jobs meet one slot and a history of one; a third reading
meets a cap of two; two keys meet a memory store of one; two clients with two
limiters meet a store of two counters; three answers meet a log of two), so that full,
empty and one-over all occur; two is the smallest number of jobs, callers, requests,
chains or shutdowns that race; one restart is what separates two lives of a
process, and a second one finds a snapshot of the first life or of the second. One
delivery is enough in Webhooks, because deliveries meet in nothing but the log of
their webhook, and there its own attempts, abandoned and awaited, meet as well; the
theorems are about any number. The writes of a snapshot after the last restart,
which nothing reads, are left out. The small calendar of `exports` has what
the real one has: a month shorter than its neighbours, a Sunday that ends a month,
a range that starts later in its week than it ends. The mutants named in
`PROJECT.json` show that each property meets the case it is about within these
bounds. What a bound cuts off is named where it is declared (`MaxJobs`,
`MaxSchedules`, `MaxChains`, `MaxWire`, `MaxReadings`, `MaxDay`, `MaxBoots`,
`MaxHooks`, `MaxChanges`, `MaxClock`, `MaxPending`, `MaxEvents`); the theorems
below have none of these instances' limits. The runs take up to two minutes each;
`gateway` (0.86 million states), `exports` (2.0 million) and
`cursor_paging` (2.2 million) are the largest.

Type invariants are in no run where a theorem has them: those of JobQueue, Scheduler,
Analytics, CursorPaging, Webhooks and Gateway are proved, and what the proofs of
Lifecycle and Cache need of types is part of their inductive invariants.

Deadlock is checked wherever the system cannot stop: producers, timers or restarts
always have a step left. It may stop, and is not checked, in `cursor_paging`, where
the walk of the client ends; in the runs of Lifecycle, where the process does; in
`cache`, where a client that gave up may leave both callers waiting for ever for
the commands it forgot; and where a bound ends the behaviour, in
`webhooks` (the delivery ended or is lost and the webhook is deleted) and `gateway`
(time, events and open calls are spent).

### What the violations show

Of the runs:

* `queue_close`: `close()` writes the final snapshot and clears memory, but a
  handler that settles after the deadline calls `_schedulePersist()`, and the
  empty queue is written over the snapshot.
* `billing`: the end date is the first day of the next month, and the query takes
  it as a whole day: its readings are charged in both months.
* `gateway_wiring`: `initServices()` looks for the socket server before
  `server.js:53` has put it on the application. `services.websocket` stays null in
  every process, and broadcasts are never sent.

Of the configurations beside them:

* `NoServiceAfterSignOut`: a request asks Redis whether its token is revoked, and the
  connection breaks. The token is signed out meanwhile through the fallback, and the
  sign-out responds. Back on its connection the question is sent again and answered
  with nothing; `auth.js:39-40` does not look at the set of the process again, and
  the request is served.
* `CommandsFailFast`: `enableOfflineQueue: false` makes commands fail that are *issued*
  while there is no connection. Those under way when it broke wait for the next one.
* `LogsAreOfTheirWebhook`: deliveries survive a restart in the snapshot, records do not, and ids
  start again. A recovered delivery is logged, and signed, as that of whichever
  webhook got its id.
* `CloseIsIdempotent`: `close()` writes what memory holds. Entered again, as an uncaught
  exception allows, it writes the memory that the first call has cleared.
* `RunningJobsAreSaved`: a write that fails is logged. The state it was given is not
  written again until something else changes, and a job that starts and runs long
  may be missing in the file all that time.
* `NoOverlappingRuns`: after the await the chain looks up its name
  (`scheduler.js:283`), so cancel and schedule again, or stop and start, while a
  handler runs leave two chains. (The handlers of `services/index.js` settle at once
  and nothing in `src/` cancels a schedule, so at present no run overlaps.)
* `HitsMissNoFreshData`: a store at its cap has the same size after a batch as before, and
  the entry computed before is served for its TTL. A sweep and new arrivals, or a
  restart with a shared Redis, do the same.
* `EverySlotIsPresent`: months are stepped with `setUTCMonth` (`aggregator.js:363-365`), which
  from the 31st skips the shorter ones, and weeks from the start date, which may
  miss the last. `NoSlotIsMissing` says when all slots are there.
* `GracefulExitsLeaveNothingOpen`: a signal while the start awaits the cache is followed by
  services that come up behind the teardown (`Lifecycle`: `late`); `exit(0)` then
  leaves queue and scheduler open.

### Fairness

* JobQueue: `setTimeout` fires, so `TimerFires` and `Timeout` are weakly fair.
  Nothing is assumed of handlers: `EveryJobEnds` is about types with a time
  budget (in the run, `Timed` holds every type with a handler) in a process
  that from some moment on lives and processes.
* Scheduler: timers fire, and handlers settle; those of `services/index.js` only
  call `queue.add()`.
* Cache: Node.js runs ready continuations (weakly fair), a `QUIT` is answered, and loads
  settle. An attempt to connect ends one way or the other (`Attempt`, strongly
  fair because a quit comes between): `connectTimeout` bounds it. Redis need not come
  back; but a connection that comes back for ever is not lost each time before it
  has answered one command (`Reply`, strongly fair). `CallersAreAnswered` excepts what
  no fairness can help, the commands that a client has forgotten when it gave up.
* Webhooks: the queue starts what waits (this is `NoIdleSlot` and `EveryJobEnds`
  of JobQueue), and an exchange ends: a silent socket after 10 seconds, a
  talking one at 64 KB, a redirecting one after three hops. The queue's own time
  budget is not needed.
* Lifecycle: timers fire, and callbacks that are due run. Nothing makes a client, a
  job, Redis or the exporter of traces answer: the force timer must be enough.

## 4. Proofs

Every safety property of the passing runs is a theorem, invariants and action
properties alike. The theorems hold for all values of the constants that the named
assumptions allow.

`JobQueueProofs` proves, from `JobQueueAssumption` alone (positive concurrency and
attempts, handled types among the types, integer priorities, natural limits):

| Theorem | States |
|---|---|
| `IndInvHolds` | the inductive invariant `IndInv` |
| `TypesAreKept` | `Spec => []TypeOK` |
| `NoJobIsForgotten` | `Spec => []EveryQueuedJobIsScheduled` |
| `ConcurrencyIsBounded` | `Spec => []SlotsAreAccountedFor` |
| `SlotsAreUsed` | `Spec => []NoIdleSlot` |
| `RetriesAreBounded` | `Spec => []AttemptsAreBounded` |
| `SnapshotIsUsable` | `Spec => []SnapshotIsConsistent` |
| `StalenessIsKnown` | `Spec => []StaleSnapshotIsPending` |
| `OrderIsKept` | `Spec => SortedQueuesStaySorted` |
| `QueueKeepsItsPromise` | `Spec => ImplementsLifecycle` |
| `LiveJobsStay` | `Spec => LiveJobsAreKept` |

None of the invariants is inductive alone. That a queued job is scheduled
after a restart needs what the snapshot can hold; that the drain loop keeps the
slots exact needs that the entries of `queuedJobs` are distinct and queued, and
that attempts stay bounded needs the same of the snapshot. `IndInv` therefore
has four parts: `Consistent` (of jobs, queue, slots and timers, stated as an
operator so that it can be applied to the values inside an action), `PhaseInv`
(what each phase of the process implies), `FileInv` (the snapshot is as good as
memory) and `NoIdleSlot`. The heart is `ProcessKeepsConsistent`: from any
`Consistent` values, whatever handler left them, the drain loop leads to
consistent ones with no idle slot. Each handler then needs one lemma, that the
values it hands to the loop are consistent, and each action one lemma more.

A snapshot is stale only while its next write is pending or after its last one failed.
This is because of what a step may not do: each action that leaves the snapshot alone
arms the timer of the next write or changes nothing that is saved (`Armed`), and
those that write it leave it equal to memory or remember that they failed. That
memory is given up with the next change (`OnlyChangesSupersede`), so the theorem
covers every change after a failed write as well; what it does not say, because the
code does not do it, is that a failed write is tried again (`RunningJobsAreSaved`). A sorted queue stays sorted because a new job goes before the first
it outranks (`InsertKeepsOrder`), and the drain loop and `cancel()` only take
entries out.

JobQueue implements JobLifecycle: a handler settles one job, evicts others and
starts others still in one step; the proof shows for each action that every single
job goes on in an allowed way (`GoesOn`), and `StepsImplement` puts them together.
`IndInv` is needed where a job could go two ways at once: that the job which just
ended is not also in the queue, that what runs has attempts left, and that nothing
is held while the process is down. `LiveJobsStay` reads the same lemmas the other
way: a job may only leave when it is in an end state or with its own continuation.

`SchedulerProofs` proves, from `SchedulerAssumption` (a positive minute and
timer limit, expressions that are not empty):

| Theorem | States |
|---|---|
| `TypesAreKept` | `Spec => []TypeOK` |
| `WaitsAreWhole` | `Spec => []RunsAreSpaced` |
| `NoScheduleDies` | `Spec => []RunningSchedulesHaveAChain` |
| `PromptChainsAreSingle` | `Spec => []PromptSchedulesHaveOneChain` |

The scheduler knows of its chains only a handle per schedule, which a chain that was
left behind overwrites. So the invariant says what a handle means:
`HandlesMeanChains` (a registered object that has one, or whose scheduler runs, has
a timer or a handler in flight; `start()` skips what has a handle, and a schedule
would die there otherwise) and, for prompt schedules, `PromptChain` (all timers are
those of the registered object, and the handle is theirs). `HandlesAreUnique` makes
`clearTimeout()` end one chain and no other; that a handle is free when a
timer is made rests on `ChainsAreBounded` and a pigeonhole over the handles.
`WaitsAddUp`: what a chain slept and what is left make up the interval.

`CacheProofs` proves, from `CacheAssumption` (a cap of at least one entry):

| Theorem | States |
|---|---|
| `StampedesArePrevented` | `Spec => []OneLoadPerKey` |
| `LateMissesShare` | `Spec => []LateMissesJoin` |
| `FallbackIsBounded` | `Spec => []MemoryIsBounded` |

`FlowInv` ties the microtasks and the connection to the callers: each waits for
one command or one continuation at most, of the kind its place in `getOrSet()` says
(`Fits`, `Single`). A late miss is a matter of order, `MissesAreEarly`: from the
step that makes a loaded value visible, the continuation that forgets the promise
is behind every miss in the microtasks. It needs that memory serves only without
a connection (`ConnectedMeansRedis`), or Redis could answer "absent" for what memory
holds. The bound needs that eviction finds an oldest entry: `Ordered` says that
the entries before an entry are closed under "before", and well-foundedness of strict
inclusion gives a first one of any set. What Redis holds after some of the lost
commands is a fold, and no theorem is about its contents.

`WebhooksProofs` proves, from `WebhooksAssumption`:

| Theorem | States |
|---|---|
| `DeliveriesStayInOrder` | the inductive invariant `IndInv` |
| `TypesAreKept` | `Spec => []TypeOK` |
| `AttemptsAreBounded` | `Spec => []ReceiversSeeBoundedAttempts` |
| `AwaitedAttemptsAreSent` | `Spec => []AwaitedAttemptsAreOnTheWire` |
| `LogsKeepTheLatest` | `Spec => []LogsAreTheLatestAnswers` |
| `PausesHold` | `Spec => PausedHooksStayQuiet` |

What the receiver saw beyond the attempts counted was cut off by a restart or is the
attempt that runs (`WithinBudget`), and what it may be is `Repeats`: one attempt for
each restart that found the delivery as it was, all of them for each that found it
in an earlier state. The second cannot be less, since the snapshot may be as old as the
delivery. `Snapshot` says that the file holds deliveries with their own hooks
and urls and within their attempts, whenever it was written. Exchanges that go on beside an
attempt are of earlier ones (`OnTheWire`), so that a late answer meets no attempt of
its number. A log
is the window at the end of the history of answers, of `MaxLogs` entries or of all
there are (`LatestWindow`), and one more answer moves it by one. Both logs and counts are stated with the restarts: the
window for the ids of one process, since ids start again.

`ReadingsProofs` proves of Analytics, from `StoreAssumption` and
`AnalyticsAssumption`, and of Exports, from `StoreAssumption`, `CalendarAssumption`,
`PayloadAssumption` and `RequestAssumption`:

| Theorem | States |
|---|---|
| `IndInvHolds` | the inductive invariant of Analytics, `AnalyticsSpec => []IndInv` |
| `TypesAreKept` | `AnalyticsSpec => []TypeOK` |
| `WindowIsKept` | `AnalyticsSpec => []StoreIsTheRecentWindow` |
| `GrowingHitsAreFresh` | `AnalyticsSpec => HitsOfAGrowingStoreAreFresh` |
| `ExportsInvHolds` | the inductive invariant of Exports, `Spec => []ExportsInv` |
| `ExportsAreSnapshots` | `Spec => []FilesAreSnapshots` |
| `SlotsAreComplete` | `Spec => []NoSlotIsMissing` |
| `AggregatesAgree` | `Spec => []AggregatesAddUp` |

The window is almost inductive by itself; what an ingest needs besides is that
`Older` orders the readings of one process totally and that what overflows has
a full store of newer readings behind it, a counting argument over finite sets. A
hit is fresh because each entry carries the history variable `source`, the
readings it was computed from: `Stamped` says that its size is its stamp. A hit
means equal sizes, and a set inside a finite set of the same size is that set.
The limit of the argument shows in `HitsMissNoFreshData`, which does not hold: where the
store also loses readings, `source` is not inside it, and equal sizes say nothing.

The properties of Exports speak of what a client holds at the end, many turns after
its request. `ExportsInv` carries them there: while a stream runs, the rows written
followed by those in `source` are the rows of the request in the stores as they
were when it came (`StreamInv`), framed as the format asks, and ids of stored
readings are unique (`UniqueIds`). Ingest, sweep, restart and the admin's
changes touch none of it (`AnswerRests`), and at the end nothing is to come. All three
properties are then about `ExportRows` and `Answer` alone, that is about data, for
every store, calendar and request:

* *Induction.* The library's rules take the statement as an operator, which the
  provers here cannot instantiate. `FiniteInduction` and `IntervalInduction` take it as a
  set (of the subsets, or of the numbers, for which it holds), and so can be cited;
  `LeastSubset` and `LeastNatural` derive them from the well-foundedness of
  inclusion.
* *Order.* `EnumeratedEnumerates`: listing a finite set by the number of
  predecessors meets each member once, in order. Filters, sorts and the rows
  of exports are all such lists (`Ordered`, `Filtered`, `Sorted`).
* *Calendar.* Days, weeks and months tile time: `DayIsUnique`, `MonthIsUnique`,
  `TimesAreInTheirWeek`. That the recursive function `MonthStart` has a
  value at every month is itself shown by induction (`StartsExist`).
* *Slots.* Stepping from the start by hours, days, weeks or months visits the key of each
  instant of the range (`HourSlots` to `MonthSlots`), under the conditions
  that `NoSlotIsMissing` names: without them the code does skip slots (section 5).
* *Sums.* A fold of `+` over a finite set has one value, whichever element is taken
  out first (`SumsExist`, `SumsAreUnique`), and is additive over the parts of a
  partition (`SumOfParts`). Buckets, days, weeks, months and meters are such
  partitions.
* *Bounds.* An average, an extreme, and a percentile interpolated between two
  neighbours of the sorted values lie between the least and the greatest
  (`AggregateIsWithin`); a previous period ends before its range begins
  (`PreviousIsBefore`, `YearIsBefore`), so that no reading is counted in both.

`CursorPagingProofs` proves, from `PagingAssumption` (a finite set of ids, integer
keys, a positive page size), for every query and every set of fields:

| Theorem | States |
|---|---|
| `IndInvHolds` | the inductive invariant `IndInv` |
| `TypesAreKept` | `Spec => []TypeOK` |
| `WalkIsExact` | `Spec => []SteadyRowsAreReturnedOnce` |
| `NothingIsSkipped` | `Spec => []SteadyRowsAreAhead` |
| `SteppingBackIsAdjacent` | `Spec => BackIsAdjacent` |
| `DriftIsBounded` | `Spec => []OffsetWalksDriftByChanges` |

A page is the rows with fewer than `Limit` predecessors. `CutFacts` says what
that gives in any strict total order on a finite set: at most `Limit` rows, before
all others, and none only of an empty list (a minimal element exists by
well-foundedness of strict inclusion). `RowsAreOrdered` shows that the code's
order is one in both directions, missing keys and the tie-breaker included; without
the tie-breaker it is not total, and that is where a walk would go wrong. The
inductive invariant adds to the properties that a walk on its way has a cursor:
exactly the steady rows that were not returned lie after it.

By offset, the places before `number * Limit` are behind the client. `Drifted` are the
steady rows that were returned more or less often than their place now says, and
`DriftInv` that they are no more than the changes: a page returns what it leaves
behind, so none drifts by it, and a change moves places by one, so that at most one
row crosses the border (`OneCrosses`). When the walk is done, the drifted rows are
those skipped or returned again.

`GatewayProofs` proves, from `ClockAssumption`, `RateLimiterAssumption`,
`AccessAssumption` and `GatewayAssumption`:

| Theorem | States |
|---|---|
| `AccessIsConsistent` | `AccessSpec => []AccessInv` |
| `SignOutHolds` | `AccessSpec => OnlyKeptCallsOutliveSignOut` |
| `DurableSignOut` | `AccessSpec => DurableSignOutHolds` |
| `BudgetsAreWatched` | `Spec => []GatewayInv` |
| `CountsAreExact` | `Spec => []CountersCountTheirWindow` |
| `BudgetsHold` | `Spec => []LessThanTwoBudgets` |
| `GatewayImplementsAccess` | `Spec => AccessSpec` |
| `GatewayKeepsTypes` | `Spec => []TypeOK` |
| `GatewaySignOutHolds` | `Spec => OnlyKeptCallsOutliveSignOut` |
| `GatewayDurableSignOut` | `Spec => DurableSignOutHolds` |

That nobody is served after a sign-out was answered, unless an outage kept the
question, is a matter of order. The cache answers in the order it was asked; so
the requests with a token that wait when its sign-out comes are answered before the
sign-out is, and those that come later meet the set of the process. `QueueOK` says
this of the wire and of the tasks: behind an open sign-out there is no question about
its token, and a token whose sign-out was answered has none open, but for those that
are kept. An outage is where the order breaks: a sign-out then settles in the tasks,
past what is on the wire. So the invariant also says that without Redis everything on
the wire is kept, and with it nothing is in the tasks. `GatewayImplementsAccess` then carries the theorems over to
the composition: whatever limiters, gate and configuration do, each step of
Gateway is one of Access or leaves it alone.

A counter knows its own window and nothing of the one before, and still no length
of a window may see two budgets. `Watched` therefore relates a counter to the history
of its client: the count is what was asked since the window began, what was
granted since is at most the budget, and over any longer stretch less than a budget
more, because the windows do not overlap. The store's cap is part of
the same invariant: `StoreOK` says that places are the ranks of an order, so that
eviction has a definite victim, and a client whose running window was evicted is
`forgotten`, the case that the two properties except. The invariant is kept under
every change of the ceiling, which only ever lowers a budget.

`LifecycleProofs` proves, from `TimesAreOrdered` (two seconds and the drain of the
queue are less than the shutdown's timeout, as by default):

| Theorem | States |
|---|---|
| `ServicesGoDownInOrder` | `Spec => []ServicesOutliveTheirUsers` |
| `QueueIsClosedAtExit` | `Spec => []ExitsFindAClosedQueue` |
| `ReadinessIsTruthful` | `Spec => []ReadyMeansServing` |

for any set of shutdowns side by side. `Position` says of each shutdown how far the
services are when it waits at a given point, and how many seconds its force timer
has left beyond that wait; no other shutdown takes this back, because services
only ever go on. When a force timer runs out, its shutdown is therefore past the
queue. `ShutdownEnds` is model-checked.

Model-checked only, and why:

* Liveness (`EveryJobEnds`, `SchedulesKeepRunning`, `CallersAreAnswered`,
  `EveryDeliveryEnds`, `ShutdownEnds`): the prover has no rules for fairness.
* Billing, whose one run shows a violation, and the violations themselves.

## 5. What the models leave out, and what the code does without a run

Not modelled, with reasons in `PROJECT.json`: validation, logging, metrics, the
Soroban call, the generic repositories, the report, sync and cache-warm handlers, the
realtime gateway beyond its wiring (none of its handlers is ever installed), and
the admin's users, which only their list reads. Left out of modelled parts:
events, statistics, formatting, amounts of money, signatures, response bodies.

Read while modelling, without a run of its own:

* `services/cache.js:118-121`: "Reconnect forever" is said of a strategy that
  returns `null` after its retries, which ends the client. In the model the client
  ends, and the properties hold with that.
* `services/cache.js:296-297` says that the request after a failed load retries.
  When `load()` throws before it returns a promise, the rejected promise stays
  in `inFlightGets` (line 331 comes after the `finally` of line 327). Nothing in
  `src/` calls `getOrSet()` at present.
* `services/scheduler.js:184-193`: a pattern like `30 2 * * *` is parsed as an
  interval of 30 milliseconds, because `parseInt` takes its leading number.
* `services/queue.js:111`: the depth cap counts `queuedJobs` only; jobs on delay
  or backoff timers are queued as well and pass the cap when their timers fire.
  Recovered jobs are put in the saved order with the others at the end, so after
  a restart the queue need not be sorted by priority (`SortedQueuesStaySorted`
  says that a sorted queue stays sorted).
* `services/queue.js:238-243`: `cancel()` of a completed or failed job relabels it
  as cancelled.
* `services/index.js:104`: the billing period is the month of the tick; readings
  that come in after the last tick of a month are in no invoice.
* `jobs/reports.job.js`: the monthly report takes one date as start and end, and
  so covers one day.
* `jobs/cacheWarm.job.js`: its keys are read by no route, but for the fleet
  summary, which it would compute from today's readings only.
* `routes/analytics.js:410-424`: the third argument of `paginateCursor()`, the
  sort, is ignored (the function takes two).
* `repositories/WebhookRepository.js:104-108`: an answer after `DELETE`, or to a
  delivery without a registered webhook, makes a log that nothing removes.
* `routes/admin/webhooks.js:63-65`: two active webhooks may share url and event,
  when the first record with that url has another event, or after a `PATCH`.
* `config/rateLimits.js:14` calls the window rolling; it is fixed from the first
  request of an identity, and around a border two budgets but one meet.
* `app.js:151` mounts the limiter before any authentication, so that every request
  is of tier `free` and told by its address, against `config/rateLimits.js:6-12`.
* `middleware/auth.js:22` says that the list of revoked tokens cleans itself; the
  local set (`:16`) never shrinks. `routes/index.js:117` says that a token "stops
  working the moment this responds": after a restart with the cache on its memory
  store it works again. A reply of the cache may serve a token that expired while it
  waited, and a request waiting there passes a maintenance gate closed meanwhile.
* `middleware/apiKeyAuth.js:93-95` checks again what it just read from a copy, in the
  same event. No route creates or revokes an API key.
* `services/aggregator.js`: the parameter `timezone` is ignored.
* `routes/analytics.js:59-66`: a `previous_period` whose `startDate` has a time of day
  overlaps the window it is compared with.
* `routes/exports.js`: weekly and monthly exports ignore `startDate` and `endDate`;
  `:187-190` lists columns that no row fills (`:194`).
* `services/exporter.js`: streams ignore back-pressure and clients that go; the
  error after the headers (`:266`) cannot come, as all routes pass arrays.
* `server.js:181` says that an uncaught exception exits directly; it re-enters
  `gracefulShutdown()`. With `SHUTDOWN_TIMEOUT_MS` of 7000 or less and the default
  drain, `TimesAreOrdered` fails and the exit may be forced before the queue closes.
* `utils/pagination.js:134-148`: two values are compared as numbers, as dates when both
  parse as one, and as texts if not. A column that mixes dates with other texts need not
  be totally ordered; the keys of CursorPaging are, as dates, statuses
  and values are; a column of free text (`name`, `key`) that mixes dates with other
  strings is outside the model.
* `utils/pagination.js:572`: a sort value that JSON cannot carry (NaN, Infinity)
  becomes null in a cursor, which sorts last, and the walk ends early. The schemas
  ask for finite numbers.
* `routes/admin/devices.js:14-20` and `users.js:16-22`: devices have `registeredAt`
  and no `createdAt`, `type` or `status`, users have `roles` and `active` but no
  `role` or `status`: filters by these fields and dates answer with an empty list,
  and the default sort of devices orders by nothing.

## 6. Plan

Done so far: JobQueue with JobLifecycle, Scheduler, Cache, the readings with
analytics and billing, Webhooks, CursorPaging; then Access, RateLimiter and Gateway,
Aggregation and Exports, Lifecycle, and offset pages and narrowing in CursorPaging.
All safety properties of these are proved.

1. **Webhooks on JobLifecycle**: deliveries composed with the abstract lifecycle
   instead of their own reading of the queue.
2. **Cache and Access**: Access with the calls of Cache instead of its own reading
   of them.
3. **Reports and cache warming** over ReadingStore and Cache.

Runs stay within a dozen; what a model refutes beyond them is a property of its module with
a configuration of its own.
