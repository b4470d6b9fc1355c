# layercache in TLA+

A verification project for layercache, a multi-layer cache for Node.js
(`src/src`, version 5.0.0). Paths below are relative to the repository; all
modules are in this directory.

## 1. Inventory

layercache runs in one JavaScript process per instance. There are no threads, so
code between two `await`s is atomic; everything else interleaves. Layers (memory,
Redis, Memcached, disk or the user's own) are reached through the asynchronous
`CacheLayer` interface, and their commands can take effect in any order.

| Component | State | Operations | Talks to | What makes it correct |
|---|---|---|---|---|
| Epoch fences (`CacheStackMaintenance.ts`) | clearEpoch, keyEpochs, nextKeyEpoch, absentKeyEpoch | bumpKeyEpochs, beginClearEpoch, isWriteOutdated, pruning, roll-over | everything that writes | an overtaken fence never becomes current again; unrelated traffic does not outdate fences |
| Write chains (same file) | writeChains, pendingWritesByKey, pendingWriteUnits | runSerializedWrites, runFencedWrite | layer writer, backfill | writes that share a key run in the order of admission; no circular waits; bounded retained state |
| Write-behind queue (same file, `CacheStack.ts`) | writeBehindQueue, flush promise, timer | enqueue, flush, runWriteBehindBatch | layer writer, chains | deferred writes arrive in call order and respect invalidations; the queue drains |
| Layer writer (`CacheStackLayerWriter.ts`) | locals of each call | writeAcrossLayers, writeBatch, cleanup, strict and best-effort policies | chains, fences, layers | stale writes do not stay; cleanup spares newer writes |
| Reader (`CacheStackReader.ts`) | backgroundRefreshes, locals | get, backfill, fetch, waiting for another process, refreshes, sliding TTL | guard, single-flight, breaker, limiter, writer | no invalidated value comes back; every call returns |
| Invalidation (`CacheStack.ts`, `CacheStackInvalidationSupport.ts`) | none | delete, mdelete, clear, expire, by tag, prefix and pattern | fences, layers, tag index, bus | deleted entries are gone; what is stored can be found |
| Graceful degradation (`CacheStack.ts`) | layerDegradedUntil | shouldSkipLayer, handleLayerFailure | every layer command | a failing layer does not spoil the others |
| Stampede guard (`StampedeGuard.ts`) | inFlight, references, activeTasks | execute, releaseTimedOut, timeouts | reader, fences (onEntryTimeout) | one task per key, bounded tasks, no leaks, no caller waits for ever |
| Distributed single-flight (`RedisSingleFlightCoordinator.ts`) | a lock with a lease in Redis | execute, renew, release | Redis, reader | one worker under the lock; late commands spare the next owner; locks free themselves |
| Fetch rate limiter (`FetchRateLimiter.ts`) | buckets, queues, one drain timer | schedule, drain, cleanup, dispose | reader | rates hold; queued fetches run |
| Circuit breaker (`CircuitBreakerManager.ts`) | a bounded table of breakers | assertClosed, recordFailure, pruning | reader | open breakers are kept; only fetchers trip them |
| Stored values and TTLs (`StoredValue.ts`, `TtlResolver.ts`) | envelopes; access profiles | create, resolve, refresh and expire envelopes; adaptive TTL, jitter | reader, writer | layers keep entries through all windows; expired entries stay stale |
| Tag indexes (`TagIndex.ts`, `RedisTagIndex.ts`), patterns, key discovery | tag maps and trie; Redis sets | track, touch, remove, clear, searches, migration | invalidation | a stored key is found under its tags, prefix and pattern |
| Bus and instances (`RedisInvalidationBus.ts`, `CacheStack.ts`) | subscriptions, handlers | subscribe, publish, handleInvalidationMessage, startup, disconnect | Redis | local copies follow writes of other instances |
| Layers (`MemoryLayer.ts`, `RedisLayer.ts`, `DiskLayer.ts`) | a bounded map; a connection; files and a write queue | get, set, delete, clear, eviction, expiry | - | answered writes are not undone; limits hold; eviction takes no more than it must |
| Snapshots, generations (`CacheStackSnapshotManager.ts`, `CacheStackGeneration.ts`) | files; the generation number and its cleanups | persist, restore, export, import, bumpGeneration | layers | restores read whole snapshots; old generations stay hidden and are cleaned |
| Namespaces, metrics, validation, serialization, integrations, CLI | counters, none | adapters | the stack | out of scope, see 7 |

Hard behaviours: invalidations racing writes in flight; cleanup racing newer
writes; backfill of values read before an invalidation or a set; one layer of
several failing; deferred writes; tables pruned and integers running out while
fences are held; detached (timed-out) fetches that end late; leases that lapse under
a running worker; commands that time out and take effect all the same; messages
between instances; timers shared by independent queues; processes that die between
two steps. `PROJECT.json` lists each hazard at its source line, with the properties
about it, or the reason why there is none.

## 2. Modules

| Module | Models | Built on |
|---|---|---|
| `CacheKeys` | the set of keys | - |
| `KeyEpochs` | the epoch fields and every function on them | `CacheKeys` |
| `EpochFence` | operations that hold fences while keys are invalidated | `KeyEpochs` |
| `OrderedWrites` | abstract: the promise of runSerializedWrites | - |
| `WriteChains` | runSerializedWrites: tails, counters, limits, finally callback | refines `OrderedWrites` |
| `CacheStack` | concurrent set, mset, get, fetch, delete, mdelete and clear over layers that answer late or fail | `KeyEpochs`, `OrderedWrites` |
| `WriteBehind` | set, mset, delete, clear and disconnect with deferred writes | `KeyEpochs`, `OrderedWrites` |
| `StampedeGuard` | execute, releaseTimedOut, timers, settleEntry, releaseEntry | `CacheKeys` |
| `FetchTasks` | getPrepared's fence, the guard, and onEntryTimeout's epoch bump | `KeyEpochs`, `StampedeGuard` |
| `SingleFlight` | fetches of several processes under a leased lock | - |
| `FetchRateLimiter`, `CircuitBreaker` | the two guards around a fetcher, as operators and actions | - |
| `FetchGuards` | fetchAndPopulate with both | the two above |
| `PatternMatcher`, `TagIndex` | the matcher and the in-process index, as operators | - |
| `LocalCache` | one stack, one call at a time: layers, tag index, every invalidation | `TagIndex`, `PatternMatcher` |
| `RedisTagIndex` | the index several processes share, command by command | - |
| `StoredValue` | envelopes and all functions on them | - |
| `Entries` | the life of one key: TTLs, windows, sliding, refreshes | `StoredValue` |
| `Instances` | stacks with their own memory over a shared layer and a bus | - |
| `RedisInvalidationBus` | the shared subscription | - |
| `MemoryLayer`, `RedisLayer`, `DiskLayer` | the three layers | - |
| `Generations` | qualified keys, bumps, cleanups, export and import | - |
| `SnapshotFile` | persist and restore as file operations | - |
| `KeyEpochsLemmas`, `EpochFenceProofs`, `CacheStackProofs`, `FetchGuardsProofs`, `WriteBehindProofs` | proofs about the module of that name | |
| `OneStackProofs` | proofs about `StampedeGuard`, `FetchTasks`, `Entries` and `Generations` | `MCStoredData` |
| `SharedWorkProofs` | proofs about `WriteChains`, `SingleFlight` and `RedisInvalidationBus` | `MCSharedWork` |
| `StoredDataProofs` | proofs about `Instances`, `SnapshotFile`, `DiskLayer`, `RedisLayer` and `RedisTagIndex` | `MCStoredData` |
| `MC*` | constants, symmetry and fairness for TLC | |

Definitions called *Mutant* in a comment are wrong variants of the definition that
follows them (a dropped guard, a swapped order). No specification uses them; each, put
in the place of its original, breaks a property, which shows that the property depends
on that piece of code.

### State and actions

**KeyEpochs.** `epochs` is a record of the four fields. A `Map` is iterated in
insertion order; as an entry is re-inserted whenever it gets a new (larger) token,
that order is the order of tokens and is not kept separately. `BumpAll` is the loop
of bumpKeyEpochs in closed form, because recursion would put the module out of the
prover's reach; `MCEpochFence` checks it against the loop from every reachable table.

**WriteChains.** A call is `Enqueue` or `Reject` (the synchronous part), `Start`
(after Promise.all of the previous tails), `End`, and `Release` (the finally
callback). The callback of a tail is registered before any later call can wait for
that tail, hence `Start` waits for released tails; calls may arrive between `End` and
`Release`. `before` is a history variable.

**CacheStack.** `op[o]` holds the locals of call `o` and `pend` the commands that
layers have not answered. Each `await` is a boundary between actions: `StartSet` /
`StartMset` capture the fences and join the chain; `Run` drops outdated entries and
sends the rest; `CheckSingle` or `CheckLayer` check after the write and send the
cleanup; `Finish` lets the next call run; `Index` updates the tag index. Reads are
`StartGet`, `ReadLayer` for each layer, then `Backfill` or `Miss`, the second look of
fetchTask, and `Fetched`. `StartDelete` and `StartClear` bump the epochs and send
deletes at once, without the chain. `Land` lets a command take effect; `Fail` makes it
fail with or without effect, and then either degrades the layer (`Graceful`) or rejects
according to `WritePolicy`. A value is named by the call that produced it, so an entry
says who wrote it, and `op[e].val` which value it is. `barrier[k]` (history) is the fence
right after the latest invalidation of `k`. There is no expiry here (see `Entries`), and
setMany and deleteMany are independent commands per key, which allows more
interleavings than one pipelined command.

**WriteBehind.** The same call structure with one local and one remote layer. A call
writes the local layer within its chain (`RunNow`) and then enqueues its remote write
(`Enqueue`), with the fence it took at its start; `FlushFrom` takes a batch off the
queue, `AdmitLater`, `RunLater`, `CleanLater` and `EndLater` run its operations one after
the other through the chain, and the end of a flush starts the next one if operations were
queued meanwhile (`GoOn`). Both writes pass the admission limits of the chains, which count
writes that are not modelled here (backfills, refreshes) and so may refuse any: the immediate
one, and the call rejects (`RefuseStart`), or the deferred one, and the batch drops it
(`RefuseLater`). `refused` (history) holds the calls whose deferred write was refused, there or
by the full queue. The enqueuing call waits for the flush it starts. If there is a timer
(`options.timer`: flushIntervalMs is set) it may fire at any time. Each call owns two writes
of the ordering boundary, `Now(o)` and `Later(o)`; `barrier[k]` is as in `CacheStack`.

**StampedeGuard, FetchTasks.** An entry is named by the call that created it. `TimeOut`
(timer) and `ReleaseEntry` (finally) are separate, which allows slightly more than the
event loop does. `SettleEntry` is one step with the end of the task: it is the first
reaction on the task's promise, and timers do not fire before reactions have run. In
`FetchTasks` a call reads the layers between capturing its fence and entering the guard,
and anything may happen meanwhile; the call that detaches a task bumps the key's epoch.

**SingleFlight.** Each process goes through `Start`, `Acquire` (SET NX PX), `Work`,
`Release` (the script that compares the token), or `Poll` when another one has the lock.
A Redis command may fail, with or without effect. Time is a tick that lowers leases and
timers and waits for no due timer. A process may crash and never come back.

**FetchRateLimiter, CircuitBreaker, FetchGuards.** A bucket has its starts by age, its
running tasks and its queue; the drain is a microtask or the one timer. Timers may be
late. `Fetch` asks the breaker and joins the bucket, `Settle` is the fetcher's answer,
which frees the bucket and goes to the breaker. `disconnect` disposes of the limiter.

**LocalCache, TagIndex.** Calls are whole actions here, because the subject is what a
sequence of calls leaves behind: evictions in layer 1, failures of layer 2, and an
index that must still know every entry that a layer holds. Keys are sequences of
characters, so that tries, prefixes and patterns are real.

**Entries.** One key in two layers with TTLs of their own. Every call draws its options
from `WriteOptions`; jitter is a choice of the value. A background refresh is in flight
beside the calls. `served` and `wasted` are what the two disagreements below are about.

**Instances.** `remote` is the shared layer, `local[i]` the memory layer of instance `i`,
`inbox[i]` the messages on their way. A call of an instance writes, waits for the shared
layer (`Land`), and publishes; `Receive` is the handler of the other instances.

**RedisTagIndex.** A call reads, then sends the commands of its pipeline (`TrackCommands`,
`RemoveCommands`, `MigrateCommands`, `ClearCommands`), which `Run` applies one at a time,
those of different clients interleaved; `Lost` ends a pipeline half-way.

**RedisLayer.** One key over one connection that keeps the order of commands; the writer
is the stack, whose chain lets one write run at a time; the reader decodes, and rewrites
or deletes what it read. `TimeOutWrite` and `TimeOutRead` tell the caller that the command
failed and leave it in the connection.

**DiskLayer.** The write queue runs `WriteTemp`, `Rename`, `ListFiles`, `EvictFiles`, or
the unlinks of a delete; a reader runs beside it. Every call to the file system may fail: a
write or rename rejects the set (`WriteFails`), all others go unnoticed (`Unlisted`, and the
second disjuncts of `Unlink` and of the reader's actions). `left` (history) holds the files that
the running operation was to unlink and could not, `latest[k]` the last answered write of `k`,
not counting deletes that left its file. Modification times are not modelled: files may have
the same one, and one whose stat fails counts as the oldest, so any files may be the victims.
`Crash` empties the process and keeps the files.

**Generations.** A qualified key is the sequence of its prefixes and the user's key. A stack
may start without a generation (`None`), in which case keys have no prefix. User keys that
themselves look like a prefix (`v1:x`) are not modelled.

**MemoryLayer, SnapshotFile, RedisInvalidationBus.** The module comments say
how their few variables stand for the code's.

## 3. Runs

| Run | Bounds | Distinct states |
|---|---|---|
| `epoch_fence` | 3 keys, table of 2, integers up to 6, lists of 2, 3 clear epochs | 29 k |
| `shared_work` | four parts, see below | 90 k |
| `cache_stack` | 1 key, 3 calls of 6 kinds, 2 layers, graceful, layer 2 fails and recovers | 1.2 M |
| `cache_stack_batch` | 2 keys, 3 calls with mset and mdelete, table of 1, integers up to 3 | 1.4 M |
| `cache_stack_best_effort` | 2 keys, 2 calls, best-effort, layer 1 fails | 264 k |
| `write_behind` | 2 keys, one written, no token kept, 3 calls, batches of 1 and 2, queues of 1 and 3, the larger with a timer and without, a remote layer that fails | 143 k |
| `fetch_guards` | 3 keys, 3 fetches, one per interval and one at a time, tables of 2 buckets and 1 breaker, queue of 1 | 244 k |
| `local_cache` | 2 keys, one a prefix of the other, 2 tags, layer 1 and the index hold one key | 133 k |
| `stored_data` | nine parts, see below | 781 k |

What each run shows:

- `epoch_fence`: an overtaken fence is outdated for ever (`OvertakenFenceIsOutdated`);
  invalidations of other keys outdate a fence only by rotating the absent token or
  starting a clear epoch (`UnrelatedInvalidationKeepsFences`); the closed form of the bump
  loop is the loop (`BumpAllIsTheLoop`).
- `cache_stack*`: once all calls are over, layers that never failed hold no entry whose
  write was overtaken by an invalidation (`NoOvertakenEntryAtRest`); compensating deletes
  spare newer entries (`CleanupSparesNewer`); a write never replaces the entry of a write
  admitted after it (`NewerNeverOverwritten`); every call returns.
- `write_behind`: when the queue is empty and no call is under way, the remote layer holds
  what the local one holds, or nothing where a delete landed late; the exceptions are
  writes that were refused and a write that was fenced off though nothing invalidated its key
  (`RemoteAgreesAtRest`, see below). With a timer the queue drains; without one a flush that was
  started, and a queue as long as a batch, do (`QueueDrains`). No call waits
  for ever. One key is written and the other only invalidated (`Written`), which is enough for a
  flushed, a queued and a pruned write to meet; no token is kept, so that each invalidation prunes. Calls differ in their names only and are made in the order of these
  (`InOrder`), which stands for a symmetry that a run with liveness properties cannot declare.
- `fetch_guards`: no window and no concurrency limit is exceeded although buckets are
  dropped and come back (`RatesHold`); a breaker's failures come from fetchers only and an
  open breaker is not pruned (`BreakersJudgeFetches`); queued fetches run.
- `local_cache`: what a layer holds and answered for is known to the index under its tags
  (`TagsFindEntries`); maps, trie and layers stay exact (`IndexIsExact`);
  the matcher accepts what a pattern denotes (`MatchesIsDenotes`, all patterns and values of
  up to four characters).
- `shared_work`, parts: *chains* (4 keys, 3 calls on any subset, limits of 5 pending units, 3
  active keys and 2 writes per key, so that two calls on two keys each can be pending together,
  overlapping in one key or in both, and each limit refuses some call that the other two admit:
  refinement of `OrderedWrites`, exact counters and limits, every admitted write is released;
  `LeastKeysFirst` lets calls take the keys in order when they are first used, which loses
  nothing, as keys differ in their names only), *guard* (1 key, 3 callers, 2 tasks: every
  caller returns though tasks hang), *flight* (2 processes, a lease of 3, renewal
  every 2, with and without graceful degradation: late commands spare another owner's lock,
  those who wait return), *bus* (3 stacks, 2 messages, one failure: a message
  reaches every subscribed handler).
- `stored_data`, parts: *instances* (2, at most 4 calls; also: at rest the copies agree
  with the shared layer), *tags* (2 Redis clients, 1 key, 1 tag), *memory* (3 keys, 2 slots,
  three eviction policies: nothing is evicted needlessly, and of LRU the right entry),
  *entries* (2 writes, 4 units of time, three sets of options),
  *generations* (2 keys, 2 generations and none, batches of 1), *file* (2 calls, 3 parts), *redis*
  (3 writes, 3 commands, 2 formats), *disk* (3 writes, one file, queue of 2, crashes,
  a failing file system),
  *tasks* (3 callers, 2 keys, 2 tasks, a token table of one and two integers: one task per
  key, exact count, no leak, and at most one fetch of a key can store).

The two modules with parts run each part by itself from its own initial states: `part`
never changes, and the state of the other parts stays at its initial value. The number of
states is therefore the sum of the parts, not their product, and each property
speaks of one part. Parts share a run because they ask the same question of components
that do not interact.

Why the bounds are enough. The races need a writer, an invalidation and one more call (a
newer writer or a reader), i.e. three calls on one key, and two layers, one written and
one still open. Two keys are needed for batches that overlap in part and for pruning.
Table sizes, queue limits and last integers are small enough that pruning, eviction,
rejection and the roll-over happen inside these calls. In the guard, three calls on one
key are a task, its joiner or retry after it is detached, and one more; the theorems of
section 5 cover any number. Times are small integers: what matters is the order of the
deadlines, and time may pass between any two steps. Keys, calls and
instances are interchangeable where a run declares symmetry, which only runs without a
liveness property do.

Deadlock is checked, except in `stored_data` and the two runs of `MCEntries`, whose clocks
and numbers of calls are bounded, so that the system really stops. Where calls come to an
end the module has an explicit `Idle` step, enabled only when every call has been answered.

The type invariants (`TypeOK`) document the state and hold in these instances; they are not
part of the runs. Those of `EpochFence`, `WriteChains`, `StampedeGuard`, `CacheStack`,
`WriteBehind`, `FetchTasks`, `FetchGuards`, `SingleFlight` and `Instances` are proved.

### What the code does against its documentation

Three runs expect a violation; `PROJECT.json` quotes the documents.

- `backfill_resurrects`: a read that starts after the bump of a delete, and finds the value
  in layer 2 before the delete lands there, puts it back into layer 1 for good.
- `refresh_ahead`: a refresh scheduled because a fresh value comes to its end first looks
  for a fresh value, finds that one, and does not call the fetcher.
- `envelope_without_ttl`: a write with a stale window and no TTL makes an envelope that the
  readers do not recognise, and they return it instead of the value.

The properties of the passing runs therefore speak of entries and of the fences of the calls
that wrote them (`NoOvertakenEntryAtRest`), which is what the fences guarantee. They
speak of layers that did not fail. Some ways of handling failures take even these away, see
`FailuresContained` and `CleanupsAwaited` in section 5.

Other behaviours met while modelling, about which no property is stated (paths in
`src/src`):

- `internal/CacheStackReader.ts:270`: a backfill behind a newer set in the chain replaces
  the newer value in the faster layer, as set does not move the epoch.
- `internal/CacheStackLayerWriter.ts:206`: under the strict policy without degradation one
  rejecting layer ends a write without its check while another is still writing.
- `internal/CacheStackMaintenance.ts:261`: pruning rotates the token of absent keys, which fences
  off a queued write whose own token it dropped or that had none, though nothing invalidated its
  key. The local layer keeps the value, the deferred write is dropped without a word, and the
  remote layer keeps an earlier one (`Forgotten` in `WriteBehind`; found when
  `RemoteAgreesAtRest`, first stated without this exception, could not be proved: with two
  keys TLC has a counterexample of three calls).
- `CacheStack.ts:1578`, `internal/CacheStackMaintenance.ts:126`: a deferred write passes the
  admission limits when its batch runs, and is dropped when they refuse it, which a log entry and
  an error event tell but not the call that has returned; the local layer keeps the new value and
  the remote one the old (`refused` in `WriteBehind`). The repository's `README.md:69` speaks of
  "surfacing overload as `CacheWriteSaturationError`" and `docs/api.md:686` says that "the write
  rejects with `CacheWriteSaturationError`".
- `internal/CacheStackMaintenance.ts:45`: without flushIntervalMs there is no timer, and a queue
  shorter than a batch waits for the next write or for disconnect.
- `internal/CacheStackGeneration.ts:21`: a stack that starts without a generation (the default,
  `CacheStack.ts:196`) writes keys without a prefix, and its first bump hides them. The next export
  takes them for keys of the current generation and importState gives them its prefix: hidden
  values are readable again, and where both exist the snapshot may hold the hidden value instead of
  the current one (the exception of `OldEntriesStayHidden`; TLC finds it with one set, a bump, an
  export and an import).
- `layers/DiskLayer.ts:247`, `:494`, `:523`: clear is answered although readdir failed, delete and
  deleteMany although unlink failed, so an old entry may be read after them; enforceMaxFiles gives
  up in the same way, so a set may leave more than maxFiles files (`left` in `DiskLayer`).
- `CacheStack.ts:1338`: delete removes a key from the tag index that an overlapping set
  has just stored.
- `CacheStack.ts:691`: mget fails as a whole when the getMany of one layer fails.
- `CacheStack.ts:1147`: disconnect after a failed startup.
- `internal/CacheStackSnapshotManager.ts:149`: a snapshot taken after the first bump holds
  keys of the current generation only.
- `layers/RedisLayer.ts:177`, `:420`, `:431`: setMany ignores errors of single pipeline
  commands; deleting a corrupted key, and rewriting an old format, undo what came between.
- `layers/RedisLayer.ts:300`: glob characters of a configured prefix are not escaped.
- `layers/DiskLayer.ts:157`, `:372`, `:385`: temporary files of a crash stay; a read that finds
  no usable file deletes a newer one; one entry may be larger than the limits.
- `layers/MemoryLayer.ts:296`: LFU may evict the key that was just set.
- `singleflight/RedisSingleFlightCoordinator.ts:63`: a failing release rejects a call whose
  worker succeeded.
- `invalidation/RedisInvalidationBus.ts:103`: a failed SUBSCRIBE leaves its listener.
- track with an empty list of tags differs between the two tag indexes: one forgets the old
  tags, the other keeps them.

## 4. Fairness

Safety properties assume none.

- Calls of `WriteChains`, `CacheStack`, `WriteBehind`: weak fairness of each call's next step
  and of the answers to its commands. The event loop runs every ready callback, and layers
  and fetchers settle, with an error if need be. `WriteBehind` adds the flush timer, where
  one is configured, and the next deferred operation (admitted or refused), which are such
  callbacks.
- `StampedeGuard`: timers and finally blocks only, never the tasks, which may hang.
- `SingleFlight`: time passes and each process that did not crash takes its next step; the
  fetcher is not assumed to end.
- `FetchGuards`: the drain and the timers run, and started fetchers settle.

In `MCSharedWork` the same conditions are stated for each part.

## 5. Proofs

Everything below is proved for every value of the constants, from the assumptions named in
the modules (`MaxKeyEpochsAssumption`, `MaxSafeIntegerAssumption`, `MaxListAssumption`,
`OpsAssumption`, `LimitsAssumption`, `LayersAssumption`, `NoneAssumption`,
`PolicyAssumption`, `CallersAssumption`, `MaxInFlightAssumption`, `FetchesAssumption`,
`ScopeAssumption`, `BreakerAssumption`, `QueueAssumption`, `RemoteAssumption`, `ListAssumption`;
for the parts of the two runs that have parts, in `MCSharedWork` and `MCStoredData`,
`LeaseAssumption`, `TimeoutAssumption`, `GracefulAssumption`, `NoTokenAssumption`,
`CallsAssumption`, `PartsAssumption`, `TagDataAssumption`, `MaxFilesAssumption`,
`GensAssumption`, `DurationsAssumption`), which the runs evaluate. They say that limits are
numbers, sets finite where the code counts or enumerates them, and undefined values none of the
others; `LeaseAssumption` also says that the renewal interval is shorter than the lease. The
theorems about `CacheStack` and `Entries` have hypotheses on the configuration, which are
discussed there and which the runs satisfy.

The parts of `shared_work` and `stored_data` do not interact, and each theorem is
about the specification of one part (`Disk!Spec`, say), with the property of the run.

- **`TypeCorrect`, `NoABA`** (`EpochFenceProofs`): type correctness, and
  `OvertakenFenceIsOutdated`. isWriteOutdated tests for difference, and difference is
  not preserved by later steps, so the property is not inductive. Age is: a held fence is
  never ahead of the epochs, and an overtaken one is strictly behind
  (`FencesBehindEpochs`), compared lexicographically by clear epoch and token. With
  `TokensAllocated` (every token in the table is at most `next`) each bump, prune and
  clear only moves the current fence of a key forward. The lemmas on the operators
  (`BumpStep`, `ClearStep`) are in `KeyEpochsLemmas` and cover the roll-over in the middle
  of a list and inside pruning.
- **`NothingLostNeedlessly`** (`EpochFenceProofs`): `UnrelatedInvalidationKeepsFences`, an
  action property. A bump of a list of keys leaves the token of every other key alone unless
  it prunes (`BumpAllKeepsOthers`), and pruning always takes a fresh absent token
  (`PruneRotates`), so a fence is outdated by the invalidations of other keys only
  if that token or the clear epoch moved.
- **`ChainsOrderWrites`** (`SharedWorkProofs`): `WriteChains` implements `OrderedWrites`.
  A call waits only for the last tail of each key, and a chain is forgotten when its last
  call is released, so the invariant says: the tail of a key is the last call admitted
  on it (`TailIsLast`), what runs has nothing unfinished before it (`RunsAlone`), and the
  awaited tails cover everything before (`TailsCover`).
- **`CountersExact`** (`SharedWorkProofs`): `CountersMatch`, by counting the calls a step
  adds to the pending ones or takes away from them. That a key without pending calls has no
  chain needs `TailIsPending`: a tail left in writeChains belongs to a call not yet released.
- **`TasksBounded`, `Deduplicates`, `MapLeaksNothing`** (`OneStackProofs`), read off one
  inductive invariant. releaseEntry and settleEntry recognise an entry of the map by
  identity and by a reference count. None of the three properties is inductive: they need
  that the count is the number of callers still to come (`ReferencesMatch`), that callers
  wait for created entries of their own key (`EntriesAreTasks`), that a caller gives up only
  what is out of the map for good (`LeaversDetached`), and that an entry in the map is
  undetached and held while a task that goes on is in the map unless it was detached
  (`MapMatchesTasks`). The decisive step is releaseEntry: a caller that finds its entry in
  the map did not give up, so it saw the task settle, and if it is not the last one then
  another holder remains.
- **`OneTaskCanStore`** (`OneStackProofs`): `OneStorableTask`. Every step of `FetchTasks` is
  one of the guard or leaves the guard alone, so the guard's invariant carries over
  (`GuardKeeps`), and with it that of two tasks of one key one was detached. A detached task is
  fenced off (`DetachedAreFenced`): the bump of onEntryTimeout outdates a fence because fences
  are never ahead of the epochs (`FencesBehind`), and an outdated one stays outdated whatever
  comes later. A call captures its fence before it can have a task (`StagesMatch`).
- **`StackTypeCorrect`, `StaleEntriesAreRemoved`, `WritesLandInOrder`,
  `CleanupFindsNothingNewer`** (`CacheStackProofs`): type correctness,
  `NoOvertakenEntryAtRest`, `NewerNeverOverwritten` and `CleanupSparesNewer` of `CacheStack`,
  for any keys, calls, number of layers, table size and last integer.
- **`RatesAreKept`** (`FetchGuardsProofs`): `RatesHold`, for any limits, scopes, buckets and
  fetches. The difficulty is that the limiter forgets: it prunes the starts of a bucket
  at some moments and not at others, evicts idle buckets when the table is full, and cleans
  them up by timers that may be late. The invariant compares it with `recent`, which
  forgets nothing that counts: a bucket that exists has all recent starts and counts
  what runs (`BucketsKnow`), one that does not exist has neither; what is queued waits once,
  in a bucket that exists (`QueuesHoldWaiting`), and after dispose() there are no buckets
  (`DisposedIsEmpty`). The lemmas on pruning carry it: pruning twice is pruning once
  (`RecentOfRecent`), it does not matter whether time passes before or after
  (`RecentOfOlder`), and a new start is kept (`RecentOfAppend`). `Least` gives the first
  start that has not expired, from the well-foundedness of the numbers.
- **`FetchGuardsTypeCorrect`, `BreakersAreFair`** (`FetchGuardsProofs`): type correctness of
  limiter and breakers, and `BreakersJudgeFetches`, an action property. A settled fetch stays
  settled, because what the queues hold is queued (`OverStaysOver`, from the limiter's
  invariant), so no failure is counted twice and each count stays within the failures of its
  own key (`BreakersInv`). The rest is about pruneIfNeeded: DropAt leaves the other entries
  in their order (`DropAtIs`, from the ranks of the positions that stay), FirstOf takes all it
  is given or as many as it may (`FirstOfIs`), so the second pass, the only one that can
  drop an open breaker, begins when no other ones are left (`PruneBreakersIs`).
- **`WriteBehindTypeCorrect`, `DeferredWritesAgree`** (`WriteBehindProofs`): type correctness,
  with a queue and a batch that stay within their bounds and hold no call twice, and
  `RemoteAgreesAtRest`, for any calls, keys, queue options and tables of tokens, under any
  refusals of the queue and of the admission limits.
- **`LocksAreSpared`** (`SharedWorkProofs`): `OthersSpareTheLock`, an action property, from the
  types alone: the lock is the token of one attempt of one process, so a script that compares
  the token cannot touch the lock of another one. **`RenewedLocksExclude`**, which no run
  checks: as long as no renewal fails there is one worker. Who works has the lock, and its next
  renewal is due before the lease runs out (`SteadyInv`); this is where the renewal interval
  has to be shorter than the lease. With failing renewals it is false, as it must be.
- **`MessagesArrive`** (`SharedWorkProofs`): `MessagesReachHandlers`. The shared subscription
  has one listener for the current subscription next to those that failed subscriptions
  have left, which is why a message may come twice (`ListenersMatch`); a SUBSCRIBE under
  way is the last command, and its caller has the turn (`TurnsMatch`); and whoever has a handler finds the channel subscribed and no command in
  flight (`HandlersListen`), so that no UNSUBSCRIBE overtakes it.
- **`InstancesAgree`** (`StoredDataProofs`): `NoOvertakenValueAtRest`. The property speaks of
  rest, the invariant of what is still to come before: an instance that holds a value that was
  overtaken has a message in its inbox (`OvertakenHasMail`), and one whose value is not the shared
  one has a message, or the instance that wrote the shared value is about to publish it
  (`DisputesEnd`). A get that has read counts as holding unless its fence was overtaken. The shared
  layer never has an overtaken value, as a write that was answered is the last (`RemoteIsLast`).
- **`RestoresAreWhole`** (`StoredDataProofs`): `RestoresReadWholeSnapshots`. A file is written by
  one call only (`FilesAreOwn`), path and open restore refer to files whose persist was answered
  (`ReadsAreOfDone`), and these are complete and not written any more (`DoneIsWhole`).
- **`DiskReadsAreNew`, `SetsKeepTheLimit`** (`StoredDataProofs`): `NoOldReads` and `SetsBoundFiles`.
  The queue is in the order of the calls (`WritesInOrder`), so no file is older than the last
  answered write of its key (`FilesAreNew`), although reads, and the deletions they make, pass the
  queue. A delete may be answered because the files it was to unlink are gone, or are those it
  could not unlink or list (`WorkMatches`), whose entries keep counting as the last answered ones;
  the limit holds because nothing but the running write adds files.
- **`WritesStayAnswered`** (`StoredDataProofs`): `AnsweredWritesAreLast`. Of the commands in the
  connection, those of calls that timed out included, none stores a value older than the last
  answered write, and behind the writer's own there is none that stores one
  (`CommandsInOrder`). Rewrites of old payloads are not covered (see section 3).
- **`TagsStayFindable`, `SearchesFind`** (`StoredDataProofs`): `TagsFindTheirKeys` and
  `SearchFindsKnownKeys` of `RedisTagIndex`. Between the commands of a pipeline the sets do
  not agree, so the invariant promises what is missing: a pipeline that adds tags to a key adds
  the key to the sets of these tags later and removes nothing after that (`Pipeline`); a key
  that has a tag is in the set of the tag, or some pipeline will add it there or delete its
  tags (`TagsWillMatch`). A removal of a key from a set can break this only for a pipeline that has
  already deleted the key's tags, and such a key has none (`HalfRemovedHaveNoTags`). For
  searches: a known key is in the legacy set or in the shards, and in the shards before a
  migration deletes the former (`KnownAreListed`); a search reads the shards last
  (`SearchesWillFind`). The pipelines are built from sets in an order that is not specified
  (`SetToSeq`), and of that order nothing is used (`SetToSeqElements`).
- **`GenerationsApart`** (`OneStackProofs`): `GenerationsStayApart`. A snapshot names a key without
  a prefix only if its value could be read when it was taken or was written without a generation
  (`ItemsMatch`), and only those writes make keys without one (`Unprefixed`). What is left of a
  generation is in the way of the cleanup that runs, or of one that waits, or it was written too
  late, or the cleanup is known to have failed (`CleanupsCover`).
- **`WindowsAreSpanned`, `FreshnessStaysLost`** (`OneStackProofs`): `LayersSpanWindows`, and
  `FreshnessNotRegained`, an action property. Each slot of a layer has a whole envelope, whose
  deadlines are in order and not further away than an envelope may name, and a TTL that spans them
  (`KeptSlot`); refreshing and expiring an envelope keep it whole (`RefreshedIsWhole`,
  `ExpiredIsWhole`), and the layer's TTL is what remains of it (`RemainingSpans`).

The argument for `WriteBehind`. Local and remote layer are written by different operations at
different times, and only what the line (the batch, then the queue) says of their order connects
them. The line holds each call once, after its immediate and before the end of its
deferred write, and only its head is in the chains (`LineWaits`, `StagesMatch`); a flush, in
whatever portions, leaves it as it is, and the end of an operation takes off its head, as a
refusal does. The local layer has the last current write of a key (`LocalIsLast`), and of the
calls in the line that
wrote the key its writer is the last (`LineInOrder`), since an operation is enqueued before the
next one of the chain writes. What the deferred write finds current, the immediate one did
(`ActiveWasCurrent`). From these follow the two parts about the remote layer: what it has came
from a deferred write, and if overtaken is about to go (`RemoteFromRuns`); a current local entry
is in the line, on its way, was the last to land, or was refused (`CurrentArrives`). The decisive
step is `Land`: when a set lands that is not the local layer's, its call is the head of the line, so the local
writer, if current, is still behind it. All invalidations are one lemma: fences on the
invalidated keys become outdated, and two that were current on another key stay so together or
not at all (`InvalidationFences`), which is where pruning comes in. A failed command ends what can
be said of the remote layer (`failed`), hence the split of the invariant into `Sound` and
`SoundDelivery`.

The argument for `CacheStack`. Its actions are of seven kinds: a call goes on by itself,
joins the chain, invalidates, runs its writes, checks them, ends its ordered operation, or
one of its commands is answered. Each kind is shown to keep the invariant for
whatever locals the call goes on with, then each action is shown to be of a kind.
`NoOvertakenEntryAtRest` says what holds while calls are still under way (a stale entry in
a sound layer has its write still running, or a delete on its way), and needs: entries and
sets in flight come from writes that found them current and still wait for that layer
(`EntriesFromRuns`); what a write sends, its cleanup reaches (`CleanupReaches`), except where
a layer failed (`OnlyFailedSkipped`) or for a backfill, whose layers are above the one it read
(`BackfillsGoUp`); and fences are never ahead of the epochs (`FencesBehind`), as in
`EpochFence`, so that an overtaken write is found outdated when it is checked.
`NewerNeverOverwritten` needs that commands belong to calls that are in the chain
(`CommandsHaveSenders`, `PcMatchesPhase`). `CleanupSparesNewer` needs that a write that runs
has the newest fence of all that ran on its keys (`RunningIsNewest`): whatever outdates it
outdates the entries in the way of its delete too. And it needs that a cleanup is sent and answered
inside the ordered operation (`CleanupIsOrdered`).

The hypotheses. The first three theorems assume `FailuresContained`: layers degrade
gracefully, or do not fail, or writes are best-effort over at most two layers. It is needed:
with the strict policy and no degradation a write rejects as soon as one layer does
(`internal/CacheStackLayerWriter.ts:206`) and returns without its check, while a set on its
way to another layer lands later; TLC finds `NoOvertakenEntryAtRest` violated with two layers,
one call that sets and one that deletes, and a failing layer 2. With three layers the
same happens to a best-effort backfill, which uses Promise.all under either policy.
`CleanupFindsNothingNewer` assumes `CleanupsAwaited`: no layer fails, or layers degrade and
there are at most two. Otherwise a failing cleanup (a backfill's is not guarded) ends the
ordered operation while deletes of other layers are in flight, and these may meet newer
entries. Both are statements about configurations, and every configuration of the runs
`cache_stack` and `cache_stack_batch` satisfies `FailuresContained`, as does
`cache_stack_best_effort`.

The hypotheses about `Entries`. `WithinTenYears`: no TTL, with its jitter and a window, is longer
than ten years. isStoredValueEnvelope rejects longer ones, so an envelope that names one is taken
for a plain value and its layer is given the fresh TTL only; validation does not exclude it.
`WindowsHaveTtls`: what is written with a stale window has a TTL. Without it the
envelope is not recognised either and counts as a fresh value for ever, which no expire
ends; `envelope_without_ttl` shows what a reader gets then. `WindowsAreSpanned` needs only the
first, `FreshnessStaysLost` both, and the options of `stored_data` satisfy both.

What stays with TLC, and why.

- Liveness (`AdmittedWritesFinish`, `EveryCallerReturns`, `WaitersReturn`, `QueuedFetchesRun`,
  `EveryCallReturns`, `QueueDrains`), as the prover does not handle fairness.
- `MatchesIsDenotes` and `BumpAllIsTheLoop`: what a recursive matcher and a loop compute for every
  input, which is induction over data.
- `TagsFindEntries` and `IndexIsExact` of `LocalCache`: the trie, the eviction order and the
  searches are folds over sequences of characters and keys, again induction over data.
- `LiveEntriesStay` of `MemoryLayer`: eviction and imports select from the sequence of entries
  (`SelectSeq`), of which the provers know nothing without such an induction.

## 6. Plan

Every safety property of a passing run that does not rest on induction over data is proved.
Liveness would be next, with a prover that handles fairness.

## 7. Not modelled

`PROJECT.json` lists each part with the reason. For good: validation, serialization and
payload protection (byte formats and cryptography), metrics, Prometheus formats, framework
integrations, decorators, HTTP and the CLI, the Memcached layer and the Redis generation
store (adapters: each operation is one client call, with no state of their own), namespaces
(they prefix keys and delegate).

Left out of parts that are modelled: signatures and the screening of bus payloads; ttlPolicy
(to the models one more TTL) and the pruning of access profiles; scans and pipelines of
`RedisLayer`; batching of key scans; the abort of refreshes at disconnect, the wait for
them, and the refresh timeout, which only reports; the parsing and size limits of
snapshot text. Calls that write outside the chain (expire, sliding TTL, importState) are
modelled one at a time (`LocalCache`, `Entries`, `Generations`), not against overlapping
calls, for which the code promises nothing.
