# A verification project for the LaunchDarkly Node.js server SDK

The SDK keeps a copy of an application's feature flags up to date, answers flag evaluations
from that copy, and reports what was evaluated. It is a single-threaded Node.js program:
a callback runs to its end before the next one starts, so the interleavings that matter are
those of *callbacks* - HTTP answers, stream messages, timers, answers of a database, file
system events. This project models the parts of the SDK in which the order of callbacks
decides what happens, checks them with TLC on small instances, and proves the central
invariants with TLAPS for every instance.

Conventions: an action is a whole callback or call, up to the point where the program
returns to the event loop. An operator named `<name>_<variant>` is not part of the model; it
is a plausible mistake in `<name>` (a dropped guard, a missing reset), kept beside it to show
that a property detects it. A `history` variable only records what happened. Constants
marked `bound` limit an instance, not the code.

## 1. Inventory

| Part (source) | State | Operations | What is hard | What makes it correct |
|---|---|---|---|---|
| Update queue (`update_queue.js`) | array of pending updates | `enqueue`; the head runs, calls back, is shifted; the next is run from `setImmediate` | between a callback and its `setImmediate` the array is non-empty but nothing runs | one update at a time, in order, none forgotten |
| Caching store wrapper (`caching_store_wrapper.js`) | item cache, `all` cache, `initialized` flag and its cache, the queue | `init`, `upsert`, `delete` through the queue; `get`, `all`, `initialized` past it | reads in flight across writes; reads and inits that fail silently; failed writes that did happen; expiry | caches and `initialized()` agree with the store, but for failures and overtaken reads; expiry mends the caches |
| In-memory store (`feature_store.js`) | items with versions and tombstones | `init`, `upsert`, `delete`, `get`, `all` | updates out of order | versions never go back, a deletion stays |
| Store event wrapper (`feature_store_event_wrapper.js`) | two dependency maps | the store's operations; `update` events | dependencies that change over time; rejected and failed updates; reads of the old data long before the write, or from a cache | maps inverse, and right for what the store took; every affected flag is announced |
| Event processor (`event_processor.js`, `event_summarizer.js`) | queue, counters, user keys, dropped count, shutdown flag | `sendEvent`, `flush`, posting, one retry, diagnostic posts, timers | payloads in flight, lost answers, capacity, 401 in the middle | nothing lost or doubled silently, promises settle |
| Client (`index.js`) | `initComplete`, `failure`, promises | the `start` callback, `waitForInitialization`, `close`; evaluation | the callback comes many times, before and after `ready` | ready only with data; promises are settled, but for those asked for inside the `failed` event |
| Streaming (`streaming.js`) | event source, requests for indirect messages | `put`, `patch`, `delete`, `indirect/put`, `indirect/patch`, errors, `stop` | answers to indirect messages overtake and are overtaken | the store ends up with the service's data |
| Polling (`polling.js`) | timer, `stopped` | `poll`, its answers, `stop` | failures, answers after `stop` | one request at a time, polling goes on, or ends for good |
| Requestor (`requestor.js`, `utils/httpUtils.js`) | ETag cache | `requestAllData`, `requestObject` | the null that stands for an unchanged body | 304 only confirms what the store has |
| File data source (`file_data_source.js`) | time stamps, `pendingUpdate`, watchers | `start`, load, `fs.watch` reports, reload timer, `stop` | a file changes while it is loaded; loads overlap | in the end the store has the files' contents |
| Redis store (`redis_feature_store.js`) | what it believes of its connection; the shared database | `init`, `upsert` with WATCH/MULTI/EXEC and retries, `get`, `all` | other processes; one connection for several stores; a connection that is lost, or wrongly believed to be | an upsert is one atomic step that never replaces a newer version; every write calls back |
| Evaluation (`evaluate_flag.js`, `operators.js`, and `variation`, `allFlagsState` of `index.js`) | the position in prerequisites, rules, clauses and segments across reads of the store | `evaluate` | every read may be answered later, while the data change; exceptions before and after a late answer | the result is what the flag defines; the events explain the result; every call settles |
| Event factory and flags state (`event_factory.js`, `flags_state.js`) | the state a builder collects | feature events, `addFlag` | - | checked as part of evaluation |
| User filter, configuration, diagnostics, errors | none of their own | record builders, validation | - | not modelled: sequential and stateless |

How they interact. `index.js` wraps the configured feature store in the event wrapper and
creates an event processor and one data source: streaming, polling or file. The data source
writes into the store (`init`, `upsert`, `delete`) and tells the client, through the `start`
callback, that it has data or that it failed. A persistent store is a core (such as Redis)
inside the caching wrapper, whose writes pass the update queue. Evaluations read the store
and hand events to the event processor, which posts them.

`PROJECT.json` lists the hazards line by line, each with the properties that cover it or the
reason why none does.

## 2. Modules

| Module | Models | Extends |
|---|---|---|
| `SerialUpdates` | abstract: numbered updates run one at a time, in order, and finish | |
| `UpdateQueue` | `update_queue.js` | instantiates `SerialUpdates` |
| `CachingStore` | `caching_store_wrapper.js` over a persistent store | `UpdateQueue` |
| `InMemoryStore` | `feature_store.js` | |
| `EventWrapper` | `feature_store_event_wrapper.js` over `feature_store.js`, or over a persistent store and its queue | `InMemoryStore` |
| `EventProcessor` | `event_processor.js`, `event_summarizer.js` | |
| `Client` | the `start` callback and `waitForInitialization` | |
| `FlagService` | requestor, ETag cache, and the service behind them | `InMemoryStore` |
| `StreamProcessor` | `streaming.js` | `FlagService`, `Client` |
| `PollingProcessor` | `polling.js` | `FlagService`, `Client` |
| `DataSources` | the client with either data source and `close()` | both |
| `FileDataSource` | `file_data_source.js` | |
| `VersionedStore` | abstract: the atomic versioned store that `caching_store_wrapper.js` asks for | |
| `RedisStore` | `redis_feature_store.js` over a Redis server | instantiates `VersionedStore` |
| `Operators` | `operators.js` | |
| `FlagRules` | the parts of `evaluate_flag.js` that read nothing: clauses, segment rules, rollouts, results | `Operators` |
| `Evaluation` | `evaluate`, `variation`, `variationDetail`, `allFlagsState` and their events | `FlagRules` |
| `EvaluationReference` | what a flag means, without an order of evaluation; the properties | `Evaluation` |
| `CachingStoreProofs`, `EventWrapperProofs`, `EventProcessorProofs`, `DataSourcesProofs`, `FileDataSourceProofs`, `RedisStoreProofs`, `EvaluationProofs` | theorems (`CachingStoreProofs` also those about the queue) | their module (`EvaluationProofs`: `EvaluationReference`), `TLAPS` |
| `EvaluationReferenceProofs` | the theorem that evaluation gives what the reference says | `EvaluationProofs` |
| `MC*` | instances for TLC | their module |

### The queue and the caching wrapper

`UpdateQueue` keeps the JavaScript array (`updateQueue`), how often each update is invoked
and has not called back (`inProgress`) and the number of `setImmediate` callbacks that are
scheduled (`immediates`). `Enqueue` is `enqueue` with the call of `executePendingUpdates`
that it makes on an array of length one; `ExecutePendingUpdates` is the same function run
from `setImmediate`; `NewCb` is the callback that shifts the array and schedules the next
run. Nothing in the actions says that there is one runner, or that the callback belongs to
the head: that is what `Serial` and `InOrder` say, and what is proved.

`CachingStore` puts the wrapper around it. A write is `Submit` (which may start it at once),
the store's step (`StoreUpserts`, `StoreRefuses`, `StoreInits`) and `WriteCallback`, in which
the wrapper updates its caches and calls back into the queue. A read that misses the cache is
`Get`, `All` or `Initialized`, then `StoreReads`, then `ReadCallback`, and any write may come
between these three. A read that hits changes no state and is not an action.

The store below succeeds and fails the way `redis_feature_store.js` does. An upsert is one step
that compares versions and reports the final item, or reports an error that leaves open whether
it wrote, or overwrites a newer item because the read of it came back with nothing. An `init`
that fails, or that Redis refuses, is *reported as done* (`StoreRefuses`, state `lost`):
`afterInit` is told nothing, sets `initialized` and fills the caches with data the store does
not have. A read that fails, or is made while the connection is down, looks like one that finds
nothing: `get` caches that null, `all` does not, `initialized` takes it for a no. (`RedisStore`
shows in detail which of this happens when; here any call may fail.) This process is the only
writer. One data kind is modelled: the caches of the kinds have separate keys and the code
treats the kinds alike. `itemDoubtful`, `allDoubtful` and `initDoubtful` record that what is
remembered comes from a read that failed or that a write overtook, or from a write that was
lost; that is all that the coherence properties excuse, and only until the next good answer.

### The in-memory store and the event wrapper

Flags and segments are nodes of one graph. An item is its version, its tombstone mark and the
nodes it names in prerequisites and segment rules. `namespaces` are the keys `allData` has an
object for, because `delete()` treats a missing one differently from `upsert()`.
Over the synchronous store `EventWrapper` has one action per operation, `Operate`: reading the
old item, changing the store, `updateDependenciesFrom` and collecting the affected flags all
happen before the call returns; only the emission waits in `scheduled` for `Emit`. The tracker
is updated from the *given* item even if the store refuses it; `rejected` records those nodes.

Over a persistent store (`storeKind`) an operation is a `Call`, the read of the old data if
somebody listens (`StoreReads`, `ReadCallback`; `init` reads flags, then segments), a place in
`queue`, the write (`StoreWrites`) and its callback (`WriteCallback`), in which the tracker and
the events follow. The queue is what `CachingStore` is proved to be: one write at a time, in
the order of arrival, each called back before the next begins.

The caching wrapper in between is not composed but over-approximated, by what it can answer.
A read is answered with anything the store has held since the beginning (`past`), with the data
set of any `init` that has been called back, taken by the store or not (`Given`), or with nothing,
since a failed read looks like that; `all()` may even show the deleted items of such a data set.
That is more than the caches of one run can show, and the properties hold all the same. A write
may be performed, refused (`Refused`: the data stay, and the callback says nothing of it, neither
of an `init` nor, after `caching_store_wrapper.js:173`, of an upsert) or misplaced
(`Overwritten`: an upsert that was told of no old item replaces a newer one). After each, the
wrapper updates the tracker and announces as if it had been done.

What this costs is recorded, node by node. `rejected`: the store holds something else than the
tracker was told. `lost`: the store refused or misplaced a write since the last `init` it took.
`misled`, of a call: what it has read may make it take a change for none. An old item newer
than the store's does (line 118 of the code), and for `init` also an entry of `all()` that
lacks an item the store has, because the removal of what is in neither data set goes unnoticed
(lines 185-195), or that shows one that is gone; a write after the read does, if the store goes
back to an older version or, for `init`, if it changes the item at all. Without a cache and
without failures no read is misled by its answer. `owed` holds the flags that a write affects,
computed from the data in the store and not from the tracker, by way of nodes that are not
`rejected` and from nodes of which the call is not `misled`, until an event is scheduled for them.

`intended` is the data had every update been done when it was called. Because `init()` reads
twice before it is queued, a later update can be queued first, and the older data set then
undoes it (`disordered`); no document promises otherwise, and only persistent stores with
listeners are affected. `disordered` is also set by a `delete()` in a namespace the in-memory
store has no data for: `feature_store.js:71` files the new namespace under the kind object
instead of its name, so there is no tombstone, although `index.d.ts:624-628` says a deletion is
the same as an upsert of a deleted item. Only clients that delete before the first `init` meet it.
Writes of other processes to the same database are not modelled here; `RedisStore` has them.

### The event processor

`posts` holds each payload with its stage (posting, waiting for the retry, resolved or
rejected), its id and its number of attempts. Diagnostic events go through the same function
and are payloads without an id. `sendEvent` is one action with up to three output events.
Whether a debugging date has passed is a free choice of the action, so there are no clocks.
Timers are actions without fairness, hence a processor whose `close()` has cleared the timers
behaves like one whose timers do not fire. The service is external: it recognises an id it
has seen, and a request that fails for now may or may not have been processed.

### The client and its data sources

`FlagService` has the service's items, of which the SDK sees `Offered` (deleted ones are
absent), and `Slot`s for requests in flight. A request is sent with what the ETag cache holds
(`Ask`), answered by the service with the data of *that* moment (`ServiceAnswers`) or an error
(`ServiceFails`), and received later (`Receive`), so answers arrive in any order. 304 becomes
the stage `unchanged`. `StreamProcessor` has the messages of the current connection in order;
each is delivered by `Deliver` (one disjunct per handler) or arrives without usable data
(`DeliverBad`). `StreamAnswer` is the callback of a request made for an indirect message. A
handler that takes apart the null of a 304 throws; the process then stops (`thrown`).
`PollingProcessor` has the due call of `poll` (`timer`) and `stopped`. `Client` has the
promises of `waitForInitialization`. `failed` is emitted *before* the error is stored, so a
promise that a listener of the first `failed` asks for is an ordinary pending one which has
missed its event; the history `missed` remembers which. A later event settles it: on a stream
the next connection brings one, which an open stream may never need. If the data source has
given up there is none and the promise hangs, against what `index.d.ts:783` says: run
`late_waiter`.

The service's stream is external and taken to tell a client every change after the connection
starts, in order; the first message of a connection is `put` or `indirect/put`.
Two history variables say what the store may lack: `announced` is the latest version of a node
that a message or answer spoke of, `behind` are the nodes whose latest message was lost
(malformed, or its request failed), over whose newer data an older complete body was written,
or of which the store held nothing when an older update came (no tombstone: `put` and bodies
do not carry any, and a `delete` in a namespace without data leaves none). The code defends
against none of these; what the version check does defend against - late answers over newer items and tombstones - is not
excused and is what `InSync` is about.

### The Redis store

A write is sent to Redis command by command; `stage` is the command that has been sent and not
been performed, `answer` what came back and has not been looked at. `Watch`, `HGet` and `Exec`
are Redis', `GetAnswered`, `UpsertAnswered` and `InitAnswered` the callbacks; a transaction that
Redis refuses is an `Attempt` again. Commands of one store are performed in order, those of
two stores in any order, also where they share a connection (which allows more than the
connection does). `Disconnect` and `Connect` are the events of the client package: what was
sent when the connection broke is answered with an error, what is sent meanwhile waits.
`multi.discard()` of the 2.8 client only queues the command in the local multi, so it never
reaches Redis and a refused upsert leaves its watch in place.

`VersionedStore` says what the wrapper asks of the store: one step that writes over an older
version only and reports the final item. `ImplementsVersionedStore` shows the steps of an
upsert, between the writes of all other stores, to be that one step, except where the code
gives the guarantee away, which the abstract module names: `unguarded` (the connection is down
or was lost, so nothing was read or nothing is watched, or a second store on the connection
ended the watch with its own EXEC) and `spoiled` (an `init` runs on a connection whose left-over
watch saw a change, is refused by Redis, and reports success).

### Evaluation

An evaluation is a stack of frames, one per flag on the path of prerequisites, each at a
prerequisite, rule, clause and value. Every read of the store is an action (`GetFlag`,
`GetPrerequisite`, `GetSegment`, `GetAll`), which happens at once or `late`; `Change` may alter
the data in between. `sync` follows whether the code still runs inside the executor of the
promise: an exception (semantic version operators call `startsWith` on whatever they are
given) then rejects the promise, and after a late answer leaves through the store's callback
(`Crashed`), which stops the process. `allFlagsState` has one evaluation per flag, interleaved.
`FlagRules` and `Operators` are pure; user attributes and clause values carry their JavaScript
types, since every operator but `in` depends on them. `key` and `secondary` are made strings first
(`Stringify`): null becomes the text null, and only a missing one (`Undefined`) stays missing. The hash, string tests, dates and semantic versions are
constants of the instance. A rollout is computed in integers; the code divides by 100000 and
may be off by a rounding error. Rules are taken to have unique ids (`ShapeAssumption`), as the
reason reports the index of the first rule with the matched rule's id. `safeAsyncEachSeries` defers to
`setImmediate` on long synchronous lists, which adds no read and is left out.

### The file data source

The contents of a file are its modification time and whether it can be read and parsed (a
duplicate key counts as malformed). `load` holds the runs of `loadAllPromise`, each with its
position, what it has read and the stat it got; reading and stat look at the file at their
own moment, and the callback that keeps the time stamp runs later. The promise chain after
the last stat, with `init()` and the start callback, belongs to that callback's action,
because nothing else runs between resolved promises. `checks` are the stats of
`maybeReloadForPath`. `fs.watch` throws for a missing file, so a watched start has none, and
a removed file does not come back.

## 3. Runs

Every run is complete for its bounds; passing runs check deadlock off because an application
may stop calling and a system may come to rest.

| Run | Instance | Shows |
|---|---|---|
| `caching_store` | 2 updates, 2 keys, 1 reader, caches on; any call may fail | the queue implements `SerialUpdates`; the caches and `initialized()` agree with the store except as `ItemCoherent`, `AllCoherent` and `InitializedCoherent` say; expiry mends the caches |
| `event_processor` | 3 events of 4 kinds, 2 payloads, queue of 2, 1 user key | capacity, conservation of events and evaluations, at most once, shutdown, promises settle |
| `event_wrapper` | 3 operations on 2 flags and a segment, dependencies of 2 levels; in-memory store, and persistent store with stale and failed reads, failed and misplaced writes | tracker inverse and right, affected flags announced, the latest version wins, apart from the nodes the histories record |
| `data_sources` | 1 flag, 3 versions, 2 requests, 1 promise, 2 failures; both data sources | ready only with data, store in sync, polling never goes back, promises settle, close is final |
| `failed_is_final` | 2 versions, 1 request | violated: `failed` is emitted for recoverable errors, and `ready` follows |
| `late_waiter` | same | violated: a promise that a listener of `failed` asks for is never settled after an unrecoverable status |
| `indirect_put_throws` | same | violated: the second indirect put is answered with 304 and its handler throws |
| `file_source` | 2 files, 2 changes, 2 loads, 2 checks | the store ends up with the files' contents unless loads overlap or a file changes between its read and its stat |
| `file_missed_update` | 2 files, 1 change | violated: a file that changes between read and stat is never loaded again |
| `redis_store` | 3 stores, 2 on one connection, 2 keys, 3 writes, 1 lost connection | the store implements `VersionedStore` with the excuses above; every write calls back |
| `redis_overwrites` | 1 store with a connected client, 3 writes | violated: the store thinks the connection is down, reads nothing and overwrites newer versions |
| `evaluation` | 3 flags, 2 segments, 2 users and one without a key, 1 change | results, events and states agree with the reference; every call settles |

The violated properties quote what a doc, comment or test of the repository says; the
findings in `PROJECT.json` give the quotes and the lines.

Why the bounds are enough for what they show:

- *Caching.* A conflict needs a write that is stored and has not called back, a second one
  waiting behind it, and a read across either; two updates and one reader give all of these,
  a second key gives the difference between item entries and the `all` entry. The theorems of
  section 5 hold for any number.
- *Events.* Two payloads are one in retry while another shuts the processor down; three
  events with up to three outputs each overrun a queue of two and overlap a flush.
- *Wrapper.* Three operations set up a dependency, replace it or change what is relied on, and
  race with one another: two reads before a write, a write between the reads of an `init`, a
  failed write that a third operation builds on, a read of what was there two writes ago. One
  data set has both levels of dependencies already: `f1` relies on `f2`, which relies on `s1`,
  or directly on `s1`.
- *Redis.* Two stores on one connection and a third on its own give every way to lose a watch;
  three writes are one that is refused while two others interfere, or a retry. One lost
  connection meets each stage of each write. The theorems of section 5 hold for any number.
- *Evaluation.* Three flags give a prerequisite of a prerequisite and a shared one; one change
  hits each read of each path. The configurations have every kind of rule, rollout,
  result and operator at least once.
- *Data sources.* A late answer needs an older version in flight, a newer one stored and a
  third on the service: three versions. Two requests give answers in both orders. Nodes do
  not interact in the data sources, so one suffices. A failure is a lost connection, a
  malformed message or a failed request at any point of a run; with two, the second may fall
  into the recovery from the first, and a promise that missed the first `failed` meets another.
- *Files.* Two files are needed for a load that fails after it has kept a time stamp. Two
  changes give a change during a reload; two writes before a report is looked at are what
  `fs.watch` reports twice.

### Fairness

Liveness is checked under weak fairness of steps the platform performs by itself:

- scheduled `setImmediate` callbacks and `setTimeout` timers of the queue, the retry, polling
  and the reload run;
- a persistent store answers every call, file system calls call back, and every HTTP request
  is answered or fails. The last is an assumption about the network, not something the code
  enforces: `httpRequest` passes a `timeout` to Node, which then emits a `timeout` event that
  nobody listens to, and a response that breaks off calls nobody back. With a silent peer the
  liveness properties of the event processor and of the data sources would not hold;
- the store an evaluation reads answers every read; Redis performs and answers what it is
  sent, and its client package connects again (`EveryWriteCallsBack`);
- cache entries expire (`EventuallyFresh` only); the event source connects again after an
  error its filter accepts and delivers what it has received.

No fairness is assumed of applications, of changes in the service or the files, of failures,
of the flush and diagnostics timers, or of `close()`.

## 4. What each property is about

- `Serial`, `ImplementsSerialUpdates` (and `InOrder`, which is proved): the array holds exactly the unfinished
  updates in order; a non-empty queue has one running update or one scheduled run, never both
  or neither; seen from outside, that is `SerialUpdates`, with its liveness.
- `ItemCoherent`, `AllCoherent`, `AllHidesDeleted`, `InitializedCoherent`, `EventuallyFresh`: when
  a cache entry may differ from the store, and that this ends once reads no longer fail.
  `InitializedCoherent` has both directions: yes is said only of a store that was initialized,
  and a cached no is right until the init calls back. The flag itself does not expire:
  nothing asks the store again once a refused `init` has set it. `AllHidesDeleted` depends on
  `init()` data sets without tombstones, which is what data sources pass; `all()` filters its
  store's answer but `init()` caches its argument as it is.
- `TypeOK` (with the capacity), `Conserved`, `DropsReportedOnce`: every output event accepted is
  in the queue or in one payload, every dropped one in one diagnostic report or the next.
  `AtMostOnce`, `ResolvedMeansDelivered`, `EveryPostSettles`: retries. `ShutdownIsFinal`:
  after a 401 only diagnostic posts and retries in progress go on. `UsersAnnounced`: no event
  names a user the service was not told of, unless that announcement was dropped.
- `TrackerAgrees`, `ChangesAnnounced`, `LatestWins`: the tracker's two maps are inverse and agree
  with the stored data; no flag is owed an event once the writes have called back; versions
  decide whatever the order of arrival. What they excuse is what section 2 lists. The first two
  excuse `rejected` nodes: an update the store does not take, as out of date or because it
  failed, still rewrites the tracker, and a change of what the stored flag really relies on is
  then not announced (`CHANGELOG.md` promises an event for any change that may affect a flag).
  `ChangesAnnounced` excuses the nodes a call is `misled` about, `LatestWins` those in `lost` and
  behaviours in which updates that do not commute change places (`disordered`).
- `Guarded`, `ImplementsVersionedStore`, `EveryWriteCallsBack`: see the Redis store in section 2.
- `MatchesReference`: a call that no update overlaps gives what the flag defines, events and all.
  `EventsExplain`: whatever changes meanwhile, the result follows from the versions the events
  name. `EveryCallSettles`: for acyclic prerequisites; a cycle is evaluated for ever, and the
  code does not defend against one.
- `ReadyAfterInit`, `InSync`, `EventuallyInSync`, `PollNeverGoesBack`: the data path. `InSync`
  says nothing of a process that an answer of 304 to an indirect put has ended.
  `WaitersSettled`, `WaitersAnswered`: a promise is pending only before an outcome, or if it
  `missed` the first `failed`; it is settled in the end, a missed one if its data source has not
  given up and connects again. `ClosedStartsNothing`: answers still
  received after `close()` update the store and set the polling timer again, but no request
  follows.
- `CurrentWhenQuiet`, `EventuallyCurrent`, `StartAnswered`: the
  time stamps are enough to notice every
  change except in the races that `raced` records.

## 5. Proofs

Checked by TLAPS, for every value of the constants, from the named assumptions of the modules
only: `MaxUpdatesAssumption`, `CachingAssumption`, `WrapperAssumption`, `EventAssumption`,
`ServiceAssumption`, `FileAssumption`, `RedisAssumption`, `CatalogAssumption`,
`CallAssumption`, `AcyclicAssumption`, `ShapeAssumption`. They say that bounds are natural
numbers, that items, flags and calls have their shape, that a version names one configuration
of a flag, that prerequisites have no cycle, and that the model values that stand for
`undefined` and `null` are none of the others. `ShapeAssumption` says what the JSON of the
service gives and the code takes for granted: targets, rules, clauses, rollout parts and
array-valued attributes are lists, a rule's id names one rule of its flag, `negate` is a
boolean, the values of a `segmentMatch` clause are segment keys, and weights and buckets are
natural numbers. A rule without clauses, a weight sum below or above the whole, a malformed
variation index, a missing segment and a value of the wrong type are not excluded. TLC
evaluates each assumption. One state theorem,
`AllNeverShowsDeleted`, has a hypothesis of its own.

- `CachingStoreProofs`, the queue: `QueueCorrect` and `QueueImplements`. The inductive invariant is the
  conjunction `QueueInv` of type, `InOrder` and `Serial`. The three need each other: that the
  callback shifts *its own* update follows from `Serial`, that the new head is the next number
  from `InOrder`, and the refinement maps `NewCb` to `Finish` and the other steps to `Submit`,
  `Start` or a stutter because of both.
- `CachingStoreProofs`, the wrapper: `WrapperSerial` and `WrapperImplements` lift these to the wrapper,
  since each of its steps is a queue step or leaves the queue alone. `WrapperTypeCorrect`,
  `ItemCacheCoherent`, `AllCacheCoherent` and `WrapperInitializedCoherent` follow from `Inv`. The
  coherence properties are not inductive: what a callback is about to cache must be known to be
  what the store holds. `WriteInv` says so of writes - nothing else can have written, because
  by `Serial` at most one update has a call in the store - and `ReadInv` of reads that did
  not fail and that no write overtook. `FlushInv` says that while an upsert is pending the `all`
  entry is empty or doubtful, and `OffInv` that nothing is cached with a ttl of zero.
  `AllNeverShowsDeleted` assumes `LiveDatasets`, that `init()` is given no deleted item: it
  caches its argument unfiltered. The data of the LaunchDarkly service are live data sets, and
  so are those of the run that checks the property.
- `EventWrapperProofs`: `WrapperTypeCorrect`, `TrackerFollows`, `EveryChangeAnnounced` and
  `LatestUpdateWins`, over either kind of store, for any number of nodes, updates in flight and
  dependencies. `Inv` has five parts. `Types` adds that the queue holds each waiting call once.
  `TrackerInv`: between a write and its callback the tracker agrees with the data not now but
  after the callback has given it the update. `IntendedInv`: what the store should hold in the
  end is at any time what the waiting updates make of what it holds (`Outcome`), or of the data
  set of the last `init` that waits, unless updates are, or are going to be (`Doomed`), written
  in an order that matters; it says so of the nodes that are not `lost`, and an `init` that is
  performed has none. `ReadInv`: what a call has read before its write is no newer than the item,
  and for an `init` it is there just if the item is visible, unless the node is in `misled`.
  `OwedInv`: a flag that is owed an event relies on a node that the update about to call back
  modifies, as it can tell by what it has read. `ChangesAnnounced` then follows because an update of the
  tracker keeps all paths but those from the modified nodes themselves (`ModifiedHasAffected`).
- `EventProcessorProofs`: `ProcessorTypeCorrect`, `DeliveredAtMostOnce`, `ResolvedIsDelivered`,
  `DropsAccounted`, `UsersDescribed`, `EventsConserved` and `ShutdownHolds`, for any capacities
  and number of events and payloads. At-most-once needs `IdInv`: an id belongs to one payload, whatever is
  retried, and the service has processed just the payloads whose ids it has seen.
  `UsersAnnounced` needs `KeysAnnounced`: a key in the user cache was announced or its
  announcement dropped, so it does not matter what the cache forgets. `Conserved` is inductive
  together with the types; that a new payload adds what it holds to the sum over all payloads
  and a retry adds nothing (`TotalsAfter`) needs an induction, see below.
- `DataSourcesProofs`: `ReadyIsTrue`, `OnlyMissedWait`, `CloseIsFinal` follow from lemmas that
  say what any step may do to the client and the store (`SourceStep`: success is only reported
  in a step that has initialized the store) and to the requests (`RequestStep`: a closed source
  sends none); `ClosedInv` says which state `close()` leaves a source in. `SourcesTypeCorrect`,
  `StreamCatchesUp` and `PollingGoesForward` follow from `SyncInv`. Nothing under way or stored
  is newer than the service or differs from it at the same version (`PastInv`, `StoreInv`); the
  latest version of a node has been announced to this client or is on the stream (`ToldInv`);
  the store reflects the announced version or a request is under way whose answer will be at
  least as new (`KnownInv`); polling has one request, whose answer is no older than anything
  announced (`PollInv`). With nothing under way the first two alternatives remain, and they
  are `InSync`.
- `FileDataSourceProofs`: `FileSourceTypeCorrect` and `NoChangeIsLost`, for any list of files, loads,
  checks and changes. `CurrentWhenQuiet` is a consequence of `Follows`: while no race is
  recorded, a reload is scheduled, or a load is under way that has seen each file it is past as
  it is now, or a report or stat of the change will be looked at (`Notice`); or the last load
  is what the files hold; or it failed on a file that is still bad.
- `RedisStoreProofs`: `RedisTypeCorrect`, `UpsertGuarded` and `RedisImplements`, for any number
  of stores, connections, keys, writes and lost connections. `Inv` is `TypeOK`, `Guarded` and
  `WatchInv`. `Guarded` alone is not inductive: a write of another connection keeps it only
  because it makes the watch dirty, and it does so only to a connection that has a watch.
  `WatchInv` says that an upsert which relies on its watch has read under one; only an EXEC on
  its own connection or the connection's end takes the watch away, and `unguarded` records
  both. The refinement settles an upsert at the HGET that finds a newer item or at the EXEC
  that is performed (by `Guarded` an `Upsert`, or an `Overwrite` excused by `unguarded`), an
  init at its EXEC; the end of a connection is `Disturb`, every other step of Redis a stutter.
- `EvaluationProofs`: `EvaluationTypeCorrect` and `EventsTellOneStory`, for any flags whose
  prerequisites have no cycle, any rules, calls and changes between the reads. `Inv` follows
  every frame of every evaluation. `StackInv`: each frame but the last waits for the prerequisite
  the next one evaluates, so ranks (`Rank`, which `AcyclicAssumption` provides) grow along the
  stack; this bounds its depth, and it means that no flag above the first is the evaluated flag
  itself, so that the events which name it as the one they are a prerequisite of are those of
  its own prerequisites. `StoryInv`: those events are, in order, of the prerequisites the first
  frame is past (`Looked`), all of them held, and when the frame has a result it is the one that
  follows (`Explains`): the event of the prerequisite that failed was the last. The data may
  change at any time because the invariant relates events and frames to the configurations
  they carry, never to the store.
- `EvaluationReferenceProofs`: `CallsMatchReference`, for any flags without a cycle of
  prerequisites, any segments, users and rollouts, any order of the store's answers and, for
  `allFlagsState`, of the evaluations it interleaves. Three parts. The pure code:
  every verdict tells whether the reference's condition holds, or may throw where the reference
  says so (`Tells`; `ClauseTells`, `SegmentTells`), and the loop over a rollout finds the part
  whose interval holds the bucket (`RolloutMatches`: the shares are sums over sets, the loop
  adds one by one, and the intervals do not overlap because sums only grow). The reference:
  its recursive definitions have values (`ExpectedFacts`, `TrailFacts`), by
  induction over the ranks of the flags from the highest down. The calls: `MatchesReference`
  speaks of settled calls only, so the invariant `Matching` says of every frame how far the
  reference has been followed (`Reached`: no earlier prerequisite is unmet, no target names
  the user once rules are looked at, no earlier rule holds, the rule's earlier clauses hold,
  no earlier segment of the clause has the user), and of an evaluation that its events are
  those its frames have led to, from the bottom of the stack up (`Told`). Then a frame that
  ends has met exactly the case in which `ResultOf` gives that result. `Matching` is inductive
  together with `Inv` of `EvaluationProofs`: `changes = 0` is all that it asks of the store.

What proving changed. `InSync` was true of three versions and not of four: an answer of 304 to
an indirect put throws and ends the process, and the store may then lack a deletion that the
message announced and the unchanged body had no need to repeat. The property now excludes the ended
process. `Reached` of the event wrapper was a recursion; it is now the least set that holds
the nodes and is closed under the dependencies, which is what `updateModifiedItems` collects,
and what a proof can use directly. `EventsExplain` states which events it means by
their positions, for the same reason. `Conserved` sums by a recursive function over positions
instead of a fold over a set. For `MatchesReference`, `FirstOther` (where a loop over verdicts
stops) is the first index with another verdict and no longer a recursion, the arms of each
`CASE` exclude one another as the order of the code's tests makes them do, a part's interval
is stated with both ends and no special first part, and the reference's recursive functions are
split into one step (`ResultOf`, `Events`) and the recursion around it.

Induction. The library's induction theorems take an operator, which the provers cannot
instantiate. That a relation is well-founded is a statement about sets, though: `WFMin` gives
every non-empty set of numbers a least element (`NatMin` of `EvaluationProofs`), and from that
induction for one set at a time (`SetInduction` of `EventProcessorProofs`, `NatInduct` of
`EvaluationReferenceProofs`). With it `SumsExist` shows that a recursive function has a value and
`SumsAgree` that it has only one; `ExpectedExists` and `TrailExists` do the same for functions
that follow the prerequisites, and `JoinsExist` and `JoinsAgree` for sequences put together.

Model-checked only:

- all liveness properties and the liveness half of `SerialUpdates`: fairness is out of the
  prover's reach;
- the violated properties, of course.

## 6. Plan

Done: the queue, the caching wrapper, the in-memory store, the event wrapper over either kind
of store, the event processor, the client with streaming and polling, the file data source,
the Redis store with its refinement, evaluation with its events, and the proofs of section 5:
every invariant and every action property that a passing run checks is a theorem.

Left: the `EventWrapper` over `CachingStore` as one state space, to say which of the stale
answers that `EventWrapper` allows the caches can really give.

## 7. Not modelled

`track`, `identify`, `flush` and `secureModeHash` of `index.js` hand an event on or keep no
state. The reads of the Redis store send one command and change no state of it; what they
answer, also when they fail, is in `CachingStore`, which allows deleted items to be hidden by the store, as
Redis' `getInternal` does, or not.
The user filter and the diagnostic events build records. The contents of
flags, users and events, logging, TLS, proxies, headers and configuration are data. Dates of
the summary and debugging dates are free choices or left out. `initOrderedInternal` and the
sorting of data sets only matter to stores that write items one by one. Bodies that are not
JSON are not sent by the service. The length of pauses is left out: a timer may fire at any
time. Modification times are taken to differ between writes.

## 8. Running it

`tlc -config MCCachingStore.cfg MCCachingStore` checks a run; every `.cfg` belongs to the
`MC` module `PROJECT.json` names. `tlapm CachingStoreProofs.tla` checks proofs.
