# FlagForge in TLA+

A verification project for FlagForge, a feature-flag service: an axum API over Postgres that
answers evaluations from memory, a Rust SDK that evaluates locally, and a dashboard. The modules
model the parts where several tasks, requests or machines act on shared state, and the pure engine
they all rest on; TLC checks them on small instances and TLAPS proves every safety property the runs
check for every value of the constants.

`PROJECT.json` lists the components, the runs, the mutants that show each property can fail, the
source lines behind every definition, the hazards and the theorems. Paths below are relative to
`src/`.

## The system

| Component | State | Operations | Interacts with | Module |
|---|---|---|---|---|
| Snapshot cache (`crates/api/src/cache.rs`), loader (`crates/storage/src/snapshot.rs`) | environment → slot; a slot is a snapshot and a load mutex | `get`, `refresh`, `refresh_all`; four queries, not in a transaction | listener, sweep, every write handler | `SnapshotCache` |
| Notifications (`migrations/*2,3,4*.sql`, `crates/storage/src/notify.rs`) | LISTEN connection | triggers notify at commit; `next_changed` | cache | `SnapshotCache` |
| Configuration store (`crates/storage/src/{flags,projects,segments}.rs` and the routes over them) | flags, environments, configurations, segments | create, update, delete; optimistic versions | cache (inline refresh), audit | `ConfigStore`, `SegmentEdit`, `Environment` |
| Experiments (`crates/storage/src/experiments.rs`, `crates/core/src/experiment.rs`) | draft → running → stopped; hourly counters | create, start, stop, delete, ingest, results | SDK events, snapshots | `EventPipeline`, `Environment`, `Engine` |
| SDK events (`crates/sdk/src/{events,client}.rs`) | Recorder: cell → count, capped | record, drain, restore, flush | POST /api/v1/events | `EventPipeline` |
| SDK snapshots (`crates/sdk/src/client.rs`) | current snapshot, backoff, handles | connect, refresh, poll, shutdown, drop | GET snapshot of any node | `SdkClient` |
| Engine and validation (`crates/core`) | none | evaluate, match, bucket, validate | SDK, evaluate and management routes | `Engine` |
| Rate limiter (`crates/api/src/rate_limit.rs`) | token bucket per client | check, sweep | every request | `RateLimiter` |
| Keys, tokens, usage, audit (`crates/api/src/auth`, `crates/storage/src/{api_keys,audit,accounts}.rs`) | keys, users, claimed writes, append-only log | extractors, login, mint, revoke, touch, record | every request | `Access` |
| Dashboard (`crates/web`) | session, page, calls in flight | navigate, select, edit, save, create, delete, page the log | the management API | `Dashboard` |
| Process (`main.rs`, `config.rs`, `pool.rs`, `seed.rs`), HTTP surface | little of their own | start, drain, seed; routing | all | restarts only |

What is hard about it:

* **Concurrency on one node.** Request tasks, the listener and the sweep load and store the same
  slots; a request may be dropped at any await; the slot can be replaced while a task waits for it.
* **Concurrency in the database.** Handlers make several statements, mostly outside a transaction,
  on a READ COMMITTED database: what one statement checked another handler changes.
* **Unreliable delivery.** Notifications are lost with the connection; a POST of events may be
  acted upon although the SDK gave up on it.
* **Answers out of order.** The SDK's fetches and the browser's calls overtake each other.
* **Re-creation.** Flags, segments and experiments can be deleted and created again under the same
  key while somebody still acts on the old row.
* **Boundaries.** Weights and buckets, token fractions, caps of maps, a clock read before a lock.

What makes each part correct: the cache never goes back in time, forgets no write and repairs itself;
the store keeps flags configured, evaluable and free of dangling references; a guarded edit replaces
what its author saw; events are neither lost nor doubled silently; the SDK keeps serving and ends up
current; local and remote evaluation agree; limits hold at their boundary; a revoked key is out and
every answered change of a key has its audit entry (the other routes record theirs the same way, which
is not modelled); the dashboard settles, and a write it makes goes where it was meant to go.

## Modules

How the modules fit together: `SnapshotCache` implements `SnapshotRegister` (checked and proved).
`SdkClient`'s nodes *are* that register, seen from outside: what a node serves only moves forward, and
nodes differ. `Environment` extends `Engine` and takes whole requests as steps; `ConfigStore` and
`SegmentEdit` take the same requests apart into statements and reduce their data to what the checks
compare. `EventPipeline` takes which arm an event belongs to as given; `Environment` shows that
exposures and conversions choose the same one.

### `SnapshotCache`, `SnapshotRegister`

One API node and the database. Nodes share only the database, and writes may come from anyone, so one
node stands for all. What an environment serves is split into the three parts the loader reads with a
query each (flags, segments, experiments); a part is the number of writes committed to it, so `older`
and `torn` are visible.

| Code | Model |
|---|---|
| `SnapshotCache::get` up to the lock / under it | `Get` / `Acquire`, then `ReadEnvironment` … `Store` |
| `refresh`, skipping what is not cached | `Refresh`, used by `ListenerTakes`, `SweepNext`, `HandlerRefreshes` |
| error and NotFound arms | `LoadFails`, `EnvironmentGone` |
| write handlers with an inline refresh | `HandlerCommits` or `HandlerDeletes`, `HandlerRefreshes`, `HandlerResponds` |
| writes from elsewhere, a write to `flags` | `Write`, `WriteFlag`, `DeleteEnvironment` |
| triggers and `pg_notify` | `Notify` |
| lost connection, reconnect | `Disconnect`, `Connect` |
| a dropped request future | `Cancel` |

A slot is an identity in the model because a task may wait on a slot the map no longer holds. `lost`
is history: the newest revision whose notification never led to a reload, so that `NoMissedUpdate`
can say exactly when staleness is excused. A handler whose inline refresh fails answers in the same
step as the failure; `ReadYourWrites` and `DeletedIsWithdrawn` are about those whose refresh did not.

`SnapshotRegister` is what the evaluation path relies on: nothing or a snapshot per environment, made
of committed parts, replaced only by one at least as new, withdrawn only after deletion.
`ImplementsRegister` is the refinement, with the slots, tasks and notifications hidden.

### `ConfigStore`

One project: environments, one flag key (a new row id at each creation), a configuration per
environment, segments, and which environments measure the flag. Every query is a step; the rows of
`create_flag` and `create_environment` are private until their commit step, and the foreign keys' locks
are guards. A configuration is the variants it names, the segments it references and its version.
Flags meet only through segments and environments, so one suffices. `find_environment` and `find_flag`
are one step: an environment or a flag deleted between them is caught by the write's foreign keys in
either case. Left out because no check reads them: names, descriptions, `enabled`, `archived`, audit
rows, and updates of a flag that leave its variants alone.

`seen` is the client's side: the configuration an operator read and bases an edit on. `raced` is
history: flag ids whose creation overlapped the environment's. So is `torn`: the environments in which a
write fell between somebody's check of what it wrote over and that one's own write, that is, a
configuration written behind an update of the variants that had looked at it or behind the deletion of a
segment that had found no reference (`ConfigTears`), variants written while a configuration checked
against the old ones was on its way (`VariantsTear`), a segment deleted while one that references it
was (`SegmentTears`), and a new environment that copies such a configuration (`SeedTears`). It ends
with the rows.

### `SegmentEdit`

`PUT` on a segment, whose three statements `ConfigStore` would make needlessly large: `Validate`
(`find_segment`, `validate_decidable`), `CheckVersion` (the second read in `update_segment`), `Apply`
(the UPDATE that merges with COALESCE). A segment is its included and excluded keys and its version.
`blind` is history: a patch was merged into another row than the one it was validated against.

### `EventPipeline`

The SDK's Recorder and flushes, the POST between SDK and server, `ingest_counters` and the experiments'
life cycle. A count of n is the set of the n events it stands for. `Background` is the flusher that the
client spawns, the others are callers of `flush_events`. A caller gives up with `Aborts` and may call
again; `Shutdown` (or the drop of the last `Client`) aborts the background flusher, asleep or in the
middle of a flush, and it never drains again; with an `event_flush_interval` of zero it is never started
(`Init`). A POST is `sent`, `reading` (the statement has taken its snapshot of the running experiments)
and then answered; `TimesOut` may come at any time, before or after the server acted. Each way an event can leave the pipeline has a history
variable, and `ambiguous` holds the events of POSTs given up on. `StartExperiment` makes an experiment
known to the SDK for good, because the snapshot an SDK evaluates with may be arbitrarily old. The hour
of a counter and the cut to `u32::MAX` are left out.

### `SdkClient`

| Code | Model |
|---|---|
| `spawn_refresher`: sleep, fetch, store or back off | `Wake`, `Answer`, `Store`, `Fails` with `NextBackoff` |
| `connect`, `refresh` by any handle, dropped futures | `Refresh`, `Store`, `Fails`, `Cancel` |
| `clone`, `Drop` (reads the count, then releases its own) | `CloneHandle`, `DropHandle`, `ReleaseHandle` |
| `shutdown`, an aborted task ending | `Shutdown`, `Stops` |
| a node of the API, a revoked key | `Write`, `Serve`, `Revoke` |

A configuration is the number of the commit it was read after and the node that answered. `passed` is
history: fetches since whose sending another one has stored its answer.

### `Engine`, `Environment`

`Engine` has the pure operators of `crates/core`: condition and segment matching with every operator,
bucketing, weighted choice, `evaluate`, the three validations, `results`. What a hash, a regular
expression, a substring test or a version parser says of the texts of an instance is a constant; numbers
are integers; the hash takes `Total` values instead of 100,000. `Environment` lets the management
requests write (`CreateFlag`, `UpdateConfig`, `UpdateFlag`, `WriteSegment`, `CreateExperiment`, …, each
with its validation), builds the snapshot, the body of `/snapshot` and the SDK's decoded copy of it, and
evaluates over both. So the properties quantify over the flags that validation lets in, not over
invented ones. The recursive sum of weights is a fold.

### `RateLimiter`

`check` reads the clock (`Enforce`), sweeps when the map is large (`Sweep`), and charges the client's
bucket under its entry lock (`Charge`): three steps, so that two requests of one client overlap. Tokens
are counted in fractions of 1/`Second`, exactly. `admitted` is history: when each request was let in and
how long it lay between reading the clock and charging. A client's history ends with a restart, or when
its bucket is swept before it is full, which the code does on purpose after 300 s. Time and restarts come
from `Clock`, which `Access` extends too, so that one module can hold the proofs about both; the names
that would clash begin with `Limiter`.

### `Access`

Two kinds of request, each in steps: authenticate by SDK key or by token, then serve, or write a key,
record the audit entry and answer. `Cut` drops a request anywhere (hang-up, timeout, crash of the
handler); `Restart` empties a node's memory with its spawned writes. `should_record` claims a write,
`Touch` makes it, the query's own minute may discard it, `TouchFails` loses it. `answered`, `late`,
`used` and `unrecorded` are history. Accounts and their roles are constants: no route changes a role.
`Remaining` is what is left, at first, of the token each account holds from an earlier sign-in. The
keys are those of one environment that lives: deleting an environment deletes its `api_keys` rows by
cascade, which is left out, as is the audit of anything but keys.

### `Dashboard`

One browser tab. The project, flag, segments, experiments and keys pages share a shape: environments, a
selected one, a list or an opened detail of it. One item per environment is kept: its value, its version,
and which life of its key it belongs to, because a row that is deleted and created again starts over at
version 1 (version 0: there is none). Calls are a set, answered by the server in any order and applied in
any order (`Arrives`): `EnvironmentsArrive`, `ItemArrives`, `PutArrives`, `ActArrives`, `CreateArrives`,
`RemoveArrives`, `PageArrives`, `IdentityArrives`. The server accepts a versioned write (`Accept`), carries
out a deletion or a creation (`CarryOut`) or answers from what it holds (`Respond`). `OtherWrites` is
another operator, who writes, deletes and creates. Leaving a page drops the answers of its calls.
`Skeleton` is what is drawn as loading, which on the flag page is also a load that failed before there was
a draft (`drafted`). `late` and `overtaken` are history: an answer for one environment was shown under
another; a sign-in or sign-out overtook the question who a token belongs to.

## Runs

| Run | Instance | Shows |
|---|---|---|
| `cache_safety` | 1 environment, 2 requests, listener, sweep, 1 write, 5 slots | `SingleFlight`, `NeverRegresses`, `ReadYourWrites`, `DeletedIsWithdrawn`, `NoMissedUpdate`, `ImplementsRegister` |
| `cache_live` | 1 request, 1 write, fairness | `EventuallyFresh`, `RequestsEnd` |
| `config` | 2 operators, 1 environment, 2 flag rows, 2 variants, 1 segment, versions to 2 | `NoLostUpdate`, `ConfiguredUnlessRaced`, `EvaluableUnlessTorn`, `ReferencesUnlessTorn` |
| `segment_edit` | 2 operators, 2 rows, versions to 3 | `DecidableUnlessBlind`, `ValidatedIsWritten` |
| `events` | 2 events in 2 cells, cap 2, batch 1, the background flusher and a caller, 1 POST at a time, 2 creations of the experiment, fairness | `NothingVanishes`, `CountedOnce`, `DraftIsBlank`, `EventuallySettled` |
| `sdk` | 2 nodes, 2 handles and the refresher, 2 commits, poll interval 1 or none, backoff cap 2, fairness | `EventuallyCurrent`, `KeepsServing`, `RegressesOnlyWhenOvertaken`, `FailureNeverHastens` |
| `engine` | 1 flag, 1 segment, 1 experiment, 4 slots, versions to 3 | `ErrorsOnlyWithoutSubject`, `SharesExact`, `NegationIsStrict`, `LocalAgreesWithServer`, `ConversionOnExposedArm`, `ResultsAreProportions`, `RampUpIsSticky` |
| `limiter` | a key and an address, 2 requests at once, 4 in all, burst 2, 1 restart | `AdmittedWithinBudget`, `RetryHintSuffices` |
| `access` | 2 nodes, 1 key, an SDK request and an administrator at a time, 2 accounts, one of whose tokens expires at once, 1 restart, 2 ticks | `RevokedIsOut`, `UsageFresh`, `ChangesAreAudited`, `KeysChangeUnderAuthority` |
| `dashboard` | 2 environments, 2 users, 3 clicks (sign-ins included), 2 changes by others, 2 calls in flight, 2 log entries | `OptimismSettles`, `SomethingIsAwaited`, `SessionIsOwn`, `PagesCoverTheLog`, `OverwritesOnlyWhatItRead` |
| `dashboard_overwrite` | as `dashboard` with 2 clicks and 1 change by others | a violation: see below |
| `dashboard_skeleton` | as `dashboard` with 1 click and 1 change by others | a violation: see below |

Why the bounds are enough. The races in the cache are between at most four tasks and one write: one is
the stale loader, one the fresh one, one the waiter on a replaced slot; a second write only repeats the
first for a load that saw neither, and the theorems cover any number of everything. There are as many
slots as tasks and map entries can hold, plus one, so `Get` never lacks one. In the store the interesting
interleavings are pairs of handlers, and two requests in flight are also what it takes to tear an
environment; two flag rows are a deletion and a re-creation. Several environments matter to the loop of an
update over them and to what a new one copies from the oldest: one is what the run can afford, and there
the theorems go further, for any number of either. In `events` cap 2 with batch 1 gives a flush of two
chunks, of which the second may fail, while the caller's flush and the background task's hold one event
each; a POST given up on, an experiment stopped, deleted and created again meanwhile, and a second
recording of what was drained are within reach. A Recorder of two cells never turns an event away here:
that a full one drops and accounts for what it cannot take is covered by `NothingVanishesHolds`, for any
cap and any number of POSTs. Two fetches and two nodes are what it
takes for an answer to be overtaken; an interval above the backoff's cap was explored as well
(`{0, 1, 3}`, 493,930 states). In `engine` four hash values make every boundary between two weights
occur, zero and full weights included, and the contexts have the attribute missing, empty, of the wrong
kind and list-valued. In `limiter` eviction comes before a bucket is full again, so both ways of sweeping
happen. In `access` the interval, a new token's life and the timeout are one tick, and one
administrator's token has nothing left when the run starts: a request that came in under it is cut off
after one of the two ticks, the second would let it act too late, and another sign-in may come in between.
The other account is a member and its token lasts. In `dashboard` two calls in flight can arrive in the
wrong order and the third click leaves or edits the page in between; the two changes by others are two
writes, or a deletion and a re-creation that starts over at version 1, under an edit and its save.

Deadlock checking is on except in `limiter`, `access` and the runs whose names begin with `dashboard`,
where time, requests or clicks run out: there only the bound stops the system.

### Where the code and its descriptions differ

Found while modelling. Each is part of the model; the property named is what does hold.

* **The dashboard can overwrite silently.** `load_flags` (`crates/web/src/pages/project.rs:61`) stores a
  list under whatever tab is selected when it arrives, and a toggle then writes one environment's
  configuration into another, with a version that fits by coincidence. `README.md:306` promises a
  conflict, "never a silent overwrite". `dashboard_overwrite` is the counterexample. The other way is a row
  that was deleted and created again since it was read (see below, versions restart).
  `OverwritesOnlyWhatItRead` shows that these are the two there are: a write goes to the environment it was
  read from unless an answer was shown late, and then replaces what it was read from within a row's life.
* **A flag that fails to load never says so.** The first arm of the flag page's match
  (`crates/web/src/pages/flag.rs:266`) draws the skeleton as long as there is no draft, whatever became of
  the load. When the first load fails the page looks as if it were loading, for good, and its retry cannot
  be reached; `README.md:309` promises that "Loading, empty and failed are three different screens" and
  "a failure offers a retry". `dashboard_skeleton` is the counterexample; `SomethingIsAwaited` shows that
  with an environment selected nothing else is drawn as loading without an answer to come.
* **A flag may stay unconfigured.** `crates/storage/src/projects.rs:88` states that "a flag is configured
  in every environment of its project"; a flag and an environment created at the same time miss each
  other. `ConfiguredUnlessRaced` shows this is the only way.
* **Checks and writes are separate statements.** `crates/core/src/validate.rs:3` guarantees that what
  reaches the database is evaluable, and `crates/core/src/matcher.rs` relies on validation for its
  references. Two overlapping requests can break either, by the variants or the segment that changed
  between check and write; `EvaluableUnlessTorn` and `ReferencesUnlessTorn` show that these overlaps are
  the only way. In a project without environments an empty variant list
  passes: the loop that checks it runs zero times.
* **Partial segment updates** (`crates/api/src/routes/segments.rs:190`) can arrive at what a full write
  would be refused, without a version or after a re-creation. `ValidatedIsWritten` and
  `DecidableUnlessBlind` say exactly when not.
* **Versions restart** with a re-created row (`crates/storage/src/flags.rs:284`), so `expected_version`
  does not notice a deletion and a re-creation. `NoLostUpdate`, `ValidatedIsWritten` and, for a draft in
  the dashboard, `OverwritesOnlyWhatItRead` are exact within a row's life.
* **"The results are final"** (`crates/api/src/routes/experiments.rs:270`): an ingestion that read the
  experiment as running may commit after it was stopped. `DraftIsBlank` shows it never reaches a later
  experiment of the key.
* **Dropping the last handles at once** (`crates/sdk/src/client.rs:409`): each sees the other, nobody
  stops the tasks. `connect_lazy` "loads in the background" only after its first sleep, and never when
  polling is disabled.
* **The limiter's sweep** is described as dropping "full and untouched" buckets (`rate_limit.rs:76`); it
  looks at the age only. `AdmittedWithinBudget` starts a new history for a bucket dropped short of full.
* **The snapshot's version** is the maximum of its rows' versions, so stopping an experiment or deleting a
  flag can leave or lower it although `with_experiments` says either is "a visible change". No code
  decides by it.
* **A failed list of environments** leaves some project pages on their skeleton for good, where
  `README.md:309` has "Loading, empty and failed are three different screens". `SomethingIsAwaited` is
  about pages that have a selected environment.

## Fairness

Used by `cache_live`, `events` and `sdk` only. Tokio polls every task that can proceed (weak fairness of
the steps of a task); its mutex is FIFO (strong fairness of `Acquire`); timers fire again and again (weak
fairness of `SweepTick`, `Wake`, and of `Drain` for the background flusher as long as it lives: a caller
is never obliged to flush, and `Shutdown` ends the obligation for good); reqwest's timeout ends every request, and the server is done
with one some time. An outage of the database or of the server ends: the sweep's queries are strongly
fair, and so are the steps of a POST that its flush still waits for and the refresher's answered fetch, so
what is attempted again and again completes within the timeout some time. Weaker assumptions are not
enough: if the server only ever commits after the SDK's timeout, the first chunk of a flush is sent
for ever and the second never. `EventuallySettled` therefore has two ends: an event is settled, or nobody
flushes unasked any more and it lies in the Recorder, which the doc of `shutdown` states ("Unflushed
events are discarded"). In `sdk` the nodes repair themselves, which is what `EventuallyFresh` shows of
one. Requests, writes, deletions, lost connections, cancellations and reconnects are never obliged to
happen.

## Proofs

For every value of the constants, under the assumptions named in the modules (`ConstantsAssumption`,
`StoreAssumption` and `NoneIsNoRow`, `SegmentAssumption`, `PipelineAssumption`, `SdkAssumption`,
`AccessAssumption`, `RateLimiterAssumption`, `EngineAssumption`, `EnvironmentAssumption` and
`SlotAssumption`, `DashboardAssumption`: constants are distinct, numbers are numbers, requests have the
fields their Rust types give them, a hash modulo `Total` is below it), which the runs evaluate. Every
invariant and action property that a passing run checks is the statement of a theorem.

* `SnapshotCacheProofs`: `TypeCorrect`, `SingleFlightHolds`, `NeverRegressesHolds`. The inductive
  invariant is `TypeOK /\ Locking /\ Ordered`. `SingleFlight` alone is not inductive: a task may hold
  the mutex of a slot that the map has replaced. `Locking` says who holds which slot, that a slot belongs
  to one environment, and that every slot a task holds for a living environment is the map's; two loads
  of a living environment then hold the same mutex. `Ordered` adds that what a load has read so far is
  at least as new as what its slot holds and no newer than the database: the step `Store` then moves
  forward in every part. `ImplementsRegisterHolds`, the refinement, follows from the same invariant: every
  step leaves what is shown and the database alone, moves only the database, publishes one environment's
  snapshot, or withdraws one. For `NoMissedUpdateHolds`, `ReadYourWritesHolds` and
  `DeletedIsWithdrawnHolds` it has three more parts. `Accounting`: every revision that is served, or was
  read by a load that may still publish it, is current, or has a notification waiting, or is known lost,
  or the listener is reloading the environment and will read, or has read, something that is. `Answering`:
  a handler past its refresh has seen its write, and so has every load that can still replace the
  snapshot. `Withdrawing`: a load that found the environment's row works on the slot the map holds, so
  that the deleting handler, which waits for the same mutex, comes after it.
* `ConfigStoreProofs`: `StoreTypeCorrect`, `ConfiguredUnlessRacedHolds`, `NoLostUpdateHolds`. `Overlap`:
  whatever a creating transaction did not see and so did not seed, it has met while both were under way.
  `Readings`: what an operator read of the living flag is still there or was replaced under a greater
  version. `FlagCreation` and `EnvCreation` say who may hold an uncommitted row; `Numbered` that finitely
  many environments were ever created, so the next one's number is new. `EvaluableUnlessTornHolds` and
  `ReferencesUnlessTornHolds` rest on `Kept`: `Checked` says what each request has established by the
  statement it is at (the variants an edit was validated against, the references it found, the
  configurations an update has been through, the reference a deletion did not find) and that it still
  holds or the environment is torn; `Found` that the row a request has found is never taken for a later
  one of the same key. What a request does to the checks of the others is `ConfigMeets`, `FoundStays` and
  `TornGrows`.
* `SegmentEditProofs`: `DecidableUnlessBlindHolds`, `ValidatedIsWrittenHolds`. `Acquainted`: what anybody
  has read of the living row is the row or has a smaller version; `Guarded`: a request's guard is the
  version of a row its author read no later than the handler did; `Validated` ties the patch to the row
  it was checked against.
* `EventPipelineProofs`: `PipelineTypeCorrect`, `NothingVanishesHolds`, `CountedOnceHolds`,
  `DraftIsBlankHolds`. The invariant is `IInv`: `Flow` ties each flush to its POST, `Apart` says an event
  is in one place of the SDK, `Answers` that a POST answered with success has settled its events,
  `Uncounted` that an unambiguous event still in the SDK or on its only POST has not been counted, and
  `Epochs` that a statement under way read a row that has run. `CountedOnce` needs `Uncounted` (the same
  event in two POSTs is what must not happen), which needs `Apart` and `Flow`; `DraftIsBlank` needs
  `Epochs`.
* `SdkClientProofs`: `KeepsServingHolds`, `RegressesOnlyWhenOvertakenHolds`, `FailureNeverHastensHolds`.
  `Ahead`: an answer on its way that nobody overtook is no older than what is stored, if both came from
  the same node; `Sourced` and `Behind` say a node serves what it answered or something newer.
* `EnvironmentProofs`: `StaysValid`, `ErrorsOnlyWithoutSubjectHolds`, `SharesExactHolds`,
  `NegationIsStrictHolds`, `LocalAgreesWithServerHolds`, `ConversionOnExposedArmHolds`,
  `ResultsAreProportionsHolds`, `RampUpIsStickyHolds`. The invariant is that every stored flag passes
  `Validate` as it stands now, whichever of its parts was written last; the rest is about the operators,
  for any number of rules, variants and hash values. A rollout's weights are met through their running
  sums: they never fall and end at `Total`, so each hash value has exactly one owner. Where that takes
  induction over a list, it is done by a least counterexample among the naturals (`LeastNatural`,
  `Reaches`), because the library's induction rules take a predicate the provers cannot instantiate.
* `AccessProofs`: `AccessTypeCorrect`, `RevokedIsOutHolds`, `ChangesAreAuditedHolds`,
  `KeysChangeUnderAuthorityHolds`. `Good` says what a request has established by the phase it is in, and
  `Grows` that no step takes back what a request relies on. `UsageFreshHolds` needs `Usage` besides: a
  node's claim has its write under way or lost, or the row is at most one interval behind the claim, and a
  use likewise less than two; the second interval is the one for which a claim lets later uses pass
  unrecorded. The module extends `RateLimiter` as well: `AdmittedWithinBudgetHolds`,
  `RetryHintSufficesHolds`. The invariant of the first is a potential: for every suffix of a client's
  admissions, its cost and the tokens left fit into the burst and what was refilled since the suffix began
  (`Holds`), with the delays of slow checks added to the time; a missing bucket counts as full, which is
  why a bucket lost short of full begins a new history. `Promise` says that at the time a client was told
  to come back its bucket will have a token.
* `DashboardProofs`: `SessionIsOwnHolds`, `SomethingIsAwaitedHolds`, `OptimismSettlesHolds`,
  `OverwritesOnlyWhatItReadHolds`, `PagesCoverTheLogHolds`. Everything rests on calls being numbered: an
  answer takes out its own call and no other (`Base`). `Session`: there is one question at a time who a
  token belongs to, and it is about the token there is, unless it was overtaken. `Awaited`: a cell that is
  loading has been asked for; `Drafted`: a flag page without a draft is loading or has failed. `Settling`: a switch that differs from what was read has a write on its way.
  `ReadPage` and `ReadCall`: the row a cell or a write was read from is of an earlier life of the
  environment's, or an older version in this life, or the very row (`Known`, which deletions and
  re-creations preserve because a life never comes back), and the environment is the one selected unless an
  answer came late.
  `Paging`: one page of the log is asked for at a time, from where the last one ended, and a page holds
  everything its query saw down to its cursor (`Stretch`).

Only model-checked: liveness (`EventuallyFresh`, `RequestsEnd`, `EventuallySettled`, `EventuallyCurrent`),
which is outside the prover.

## What is left

`update_experiment`, the hourly series and registration with its slug retries are small operations beside
what is modelled.

## Not modelled

* Process life cycle: start-up retries, drain on shutdown, environment variables and the demo seed are
  sequential code before or after everything else; a restart is an action of `Access` and `RateLimiter`.
* Registration: one transaction with retries of a random slug.
* The values of the Wilson interval and the p-value (floating point), hashing, token and password
  formats, the cut of a count to `u32::MAX`.
* HTTP routing and error rendering, static files, telemetry, OpenAPI; the dashboard's layout, charts,
  toasts and theme. They keep no state that other parts depend on.

## Running

```
tlc -workers 2 -config MCSnapshotCache.cfg MCSnapshotCache
tlapm SnapshotCacheProofs.tla
```
