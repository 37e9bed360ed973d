# Formal verification of obsidian-tsdb

TLA+ modules for the time series database of the Obsidian plugin in this
repository, TLC configurations that check them on small instances, and proofs
that TLAPS checks for every value of the constants. Paths below are those of the
repository (`src/` in `PROJECT.json` is its root).

The plugin scrapes Prometheus-style metrics, stores them in SQLite (compiled to
WebAssembly, inside a worker or beside the renderer) through a virtual table of
its own, keeps a recovery log next to the database, and answers PromQL queries.

## Inventory

### sqlite-tsdb virtual table — `sqlite-tsdb/src/sqlite_tsdb.c`
*State*: `samples_head` (recent rows), `samples_blocks` (immutable compressed
blocks of one series and one time bucket), `samples_changes` (new samples of the
last batch, per timestamp), and the cached `cold_max_timestamp` of a connection.
*Operations*: `ingest-batch` (live or import), single-row insert,
`compact-before`, `delete-before`, reads that merge hot over cold.
*Hard*: late writes that hide cold points; one `LIMIT 1` covering block is
trusted to be the only one; the cached bound across rollbacks and reopenings;
undecodable payloads dropped in the middle of compaction.
*Correct when*: it behaves as a map from (series, timestamp) to the last value
written; maintenance is invisible; retention is exact; counts are exact.

### Metrics store — `src/storage/store.ts`
*State*: the promise queue of operations, the series cache, meta counters
(sample count, oldest and newest), minute rollups, `closing`/`closed`.
*Operations*: open (with wipe and second open), ingest, import, reads,
`compactBeforeBatch`, `deleteBeforeBatch`, `finalizeRetention`, vacuum, close.
*Hard*: a transaction that fails after the cache was extended; series ids that are
given again after a prune; retention in several batches with live writes in
between; counts that must follow the table.
*Correct when*: a sample stays with its series; the cache never knows a series the
database does not; the counts match what the table holds.

### Recovery log — `src/storage/wal.ts`, `wal-maintenance.ts`, `main.ts`
*State*: `metrics.wal`, the promise queue of appends and truncations, the append
epoch, the startup maintenance promise, the ingests in flight.
*Operations*: append after commit, flush (barrier, epoch check, truncate),
startup checkpoint or replay, the teardown flush.
*Hard*: every interleaving of the above; crashes that tear a line; unloading in
the middle of a replay; ingests that fail; the next load starting while the
previous teardown still runs.
*Correct when*: the log holds only committed batches; no batch that the database
or the log has is lost by a step of the plugin; sessions do not overlap; every
unload ends.

### Worker store — `worker-store.ts`, `worker-server.ts`, `worker-transport.ts`
*State*: pending requests by id, foreground and maintenance queues, one request
being dispatched, idle waiters, closing flags. *Hard*: priorities against close,
drain and close timeouts, answers after termination. *Correct when*: every
request is answered exactly once, one runs at a time, close ends.

### Plugin lifecycle and maintenance — `main.ts`, `compaction.ts`, `vacuum.ts`
*State*: timers, sweep promises, adaptive limits, `isUnloading`, the teardown
promise on `window`. *Hard*: the teardown of one load runs while the next starts;
sweeps, the size guard and unload interleave; a sweep that stops rescheduling
itself. *Correct when*: the database is open once, an unload leaves nothing
behind, at most one sweep of a kind runs, maintenance catches up.

### Scraper — `src/scrape/scraper.ts`, `src/health.ts`
*State*: generation, in-flight marks, statuses, timers. *Hard*: answers of an
earlier generation. *Correct when*: a stale generation writes nothing, one scrape
per target and generation runs, each target is scraped again and again.

### Query engine — `src/promql/*`
*State*: none of its own; a question requests its data from the store's queue.
*Hard*: writes between the requests of one question; data thinned to the steps by
SQL and walked with pointers; windows, offsets, counter resets; vector matching.
*Correct when*: a text means what it should, a question sees one moment, a range
query is its instants, estimates stay inside what was measured.

### Chunked adapter VFS — `src/storage/chunk-vfs.ts`, `backend.ts`
*State*: open files with a cache of chunks, the dirty set, chunk files and a size
file. *Hard*: a crash within a sync, a delete or the migration of a snapshot; a
rollback journal that is itself chunked. *Correct when*: with SQLite's rollback
journal a committed transaction is there after a crash and no other is.

### HTTP server, user interface, exporter, time
`api/server.ts` listens on the first free port of a range and is started and
stopped by the settings, a command and the teardown; that much is in `Plugin`.
The exporter registries, panels, settings and time selectors keep no state another
part depends on.

The parts interact as follows. `main.ts` owns one of each; the scraper hands
batches to `ingestDurably`, which ingests into the store and appends to the log;
the store is reached directly or through the worker protocol; its SQL runs on the
virtual table, whose file is kept by one of the file systems. Timers of `main.ts`
call compaction, retention, vacuum and the flush; the server and the panels ask
the query engine, which asks the store.

## Modules

| module | what it is |
|---|---|
| `SampleMap` | what the sample table promises: a map changed by one transaction at a time |
| `TsdbTable` | the virtual table and the transactions `store.ts` runs on it |
| `MetricsStore` | the store's queue, series cache, counts, open and close |
| `WalRecovery` | the recovery log with startup, flush, replay, unload and crashes |
| `SerialStore` | what a store promises to its callers, wherever it runs |
| `WorkerStore` | the client, the server and the messages of the store in a worker |
| `Plugin` | loads, unloads, timers and sweeps of the plugin, and its HTTP server |
| `Scraper` | timers, scrapes and statuses over restarts |
| `ChunkVfs` | database and journal on chunk files, migration, seeding of a node file |
| `PromqlAst`, `PromqlParser` | what an expression is; the parser |
| `Prefetch` | questions at the store's queue, its two reads, and what selectors see in the data |
| `VectorMatching`, `Evaluator` | vectors and the set operators; every other expression, and the answers |
| `Query` | texts, parsed and answered |
| `Ranks` | finite sets of numbers counted off, for `Prefetch`, `VectorMatching`, `Evaluator` and `ChunkVfs` |
| `TsdbTableProofs`, `MetricsStoreProofs`, `WalRecoveryProofs`, `WorkerStoreProofs`, `PluginProofs`, `ChunkVfsProofs` | theorems about the module of that name; `PluginProofs` also those about `Scraper` |
| `QueryProofs` | theorems about `Prefetch`, `VectorMatching` and `Evaluator` |
| `Sums` | induction over finite sets, and lemmas about sums, extrema, ranks and division, for the proofs |
| `MC…` | values of the constants for TLC |

`TsdbTable` implements `SampleMap`, and `WorkerStore` implements `SerialStore`
(INSTANCE with a refinement mapping): a call answered with success took effect, one that
failed may have, and none takes effect after its answer. The others are layered by what they take for
granted: `MetricsStore` takes the table for a pair of sets, as `TsdbTable` shows it
may; `WalRecovery` relies on one clause of `SerialStore` (an ingest whose promise was
rejected may have been committed, but will not be committed later); `Plugin` takes a
store for something open or closed with an amount of work left; `Prefetch` takes the
store's queue for a sequence of whole operations, as in `MetricsStore`.

Operators marked "Mutant of" restate a definition with one plausible bug. No
action uses them; they exist to see that the properties notice such a bug.

### TsdbTable

| variable | code |
|---|---|
| `head`, `blocks`, `changes` | the three shadow tables, as the open transaction reads them |
| `coldKnown`, `coldMax` | `cold_max_known`, `cold_max_timestamp` of `TsdbVtab` |
| `stmt`, `saved` | the open transaction: its statement, and the tables at `BEGIN` |
| `exact` | history: the connection began on a table without blocks, or looked the bound up before it wrote one |

A transaction is two steps: `BEGIN` with its statement, then `Commit` or
`Rollback` (whatever later statement of the transaction fails) or `Reopen` (the
process ends). JavaScript runs one store operation at a time, so no other
statement comes in between.

`View` is what a query returns for a sample: the hot row over the cold point, and
`Corrupt` where a block it has to decode does not (`tsdb_filter` asks `load_rows` not to
drop it, and the query fails with `SQLITE_CORRUPT_VTAB`). `Salvaged` is what maintenance
finds, which drops such a block and goes on. In `SampleMap` a sample may become
`Unreadable` and, by maintenance, readable or absent again; an import that is not `sure`
(not `exact`) may overwrite.

| action | code |
|---|---|
| `IngestBatch`, `RejectBatch` | `ingest_batch` from `ingestLocked`; the second is the cold check that meets an undecodable block |
| `InsertSample` | `insert_sample` |
| `CompactHotSlice`, `CompactOverlappingBlock` | the two paths of `compact_before` |
| `DeleteBefore` | `delete_before` |
| `ExpireBatch` | `deleteBeforeBatchLocked` |
| `Commit`, `Rollback`, `Reopen` | end of the transaction, end of the connection |
| `DamageBlock` | external: a payload stops decoding |

Abstracted: the codec (a payload is the points it decodes to and whether it still
does; the `min_ts`, `max_ts` and `sample_count` columns are functions of the
points), floating point values, SQL. Timestamps are `0..Horizon`.

### MetricsStore

| variable | code |
|---|---|
| `status`, `queue`, `pc` | `closing`/`closed`, the promise queue, where the running call or `init` is |
| `series`, `hot`, `cold`, `stats` | the tables: series, samples, `store_meta` with `sample_rollup_1m` |
| `saved` | the tables at `BEGIN` |
| `cache` | `seriesByKey` and `allSeries` |
| `recovered` | `recoveredFromCorruption` |
| `unloaded`, `overdrawn`, `deletedTo`, `dropped` | history, for the properties |

A call is one record in the queue. Where another task can see the cache or the
process can die, a call has several steps: an ingest is `IngestBegins`,
`CreateSeries` per series, `WriteRows`, or `IngestFails` at any of them, and then
`IngestRollsBack`, `ClearCache`, `LoadCache`; the rest are one transaction each
(`CompactBatch`, `ExpireBatch`, `SettleCounts` and `PruneSeries` for the phases of
retention, `TrimBefore`, `Read`), or `FailsWhole`. `Open` may wipe; `InitLoads`,
`InitCounts` and `InitStartsRollups` are the three parts of `init`, each with its
own transaction. A sample carries, as history, the series it was written for.

### WalRecovery

| variable | code |
|---|---|
| `db`, `damaged` | committed batches; whether the next open throws |
| `file`, `tail` | complete lines of `metrics.wal`, and what follows the last newline |
| `queue`, `epoch` | `SampleWal.queue`, `appendEpoch` |
| `stage` | how far `ingestDurably` is with a batch |
| `flush` | the `flushStore` calls: the timer's and the teardown's |
| `startup` | `maintainStartupWal` and `walStartupPromise` |
| `phase`, `recovered` | from load to unload; `recoveredFromCorruption` |
| `faults`, `interrupted` | bound on faults; history: a refill was interrupted |

Every `await` of the code is a step boundary: the flush is `FlushBegins`
(epoch and barrier), `FlushChecks` (compare, truncate), `FlushEnds`; the replay
is `ReadLog`, then one `ReplayTakesLine` and `ReplayIngests` per line, with
`ReplayStops` where `shouldContinue` is false. A waiter on the promise queue is
modelled by the number of entries still ahead of it.

Two simplifications: a batch is one model value, committed whole; and two calls
of the flush timer do not overlap.

### WorkerStore

| variable | code |
|---|---|
| `client`, `pending` | the flags and the map of `WorkerMetricsStore` |
| `outcome` | how the promise of each request was settled |
| `toWorker`, `toRenderer` | messages of `postMessage`, delivered in order |
| `foreground`, `maintenance`, `running`, `store` | the queues, the dispatch and `this.store` of `WorkerStoreServer` |
| `alive` | false once the worker is terminated or has died |
| `sent`, `started`, `ran` | history: order of posting and of dispatch; calls that took effect |

A message handler or the continuation of a promise runs to its end before the
next one, so `HandleRequest` and `Respond` contain the dispatch that follows, and
`HandleResponse` the idle notification. `Execute` is whatever the operation does: it
succeeds and has taken effect, or it fails and may have, since operations of the store
read after their commit (`store.ts:1138`, `1333`, `1431`) or make several transactions.
The three timeouts may fire at any time while they are armed.
`WorkerDies` is external: nothing in the client listens for the end of a worker.

Left out: `WorkerStoreServer.close`, which only tests call; the second `open` on
one worker, which the client never sends; answers that cannot be cloned.

### Plugin

| variable | code |
|---|---|
| `layoutReady` | `workspace.onLayoutReady` has fired |
| `tracked` | `window.__tsdbTeardownPromise`, as the load whose promise it is |
| `life` | per load: `isUnloading`, the stage of `initializeRuntime`, the stage of `teardown`, whether `this.store` is set |
| `web`, `port` | per load: the `ApiServer`, its handle and the calls on it; who listens on a port |
| `crossed` | history: the loads two of whose server operations, or one and the unload, overlapped |
| `care` | per load: the timers, `compactionSweepPromise`, `retentionSweepPromise`, the size guard, both limits |
| `db` | who has the store open; what is left to compact, to expire and to give back |

A load is one instance of the plugin class; load *i* + 1 begins once load *i* has
been unloaded, which does not mean taken down.

| action | code |
|---|---|
| `Onload`, `LayoutReady` | `onload`, `startRuntimeInitialization` |
| `WaitForPreviousTeardown`, `LoadSettings`, `OpenSucceeds`, `OpenFails`, `RetryOpen`, `CloseLate`, `ServerStarted` | `initializeRuntime` and `openMetricsStore`, from await to await, with the attempts and the legacy fallback |
| `Onunload`, `TeardownBegins`, `TeardownServerStopped`, `TeardownStoreCloses`, `TeardownEnds` | `onunload`, `teardown` |
| `UserServes`, `Bind`, `Closed` | the port setting and the toggle command; `listen` and its error; the callback of `close` |
| `DisposeServer` | `dispose`, in `TeardownServerStopped`: the handle and its listeners are dropped, so that whoever waited for the callback of `close` does not go on |
| `Ingest`, `CompactionTimer`, `RetentionTimer`, `CheckStoreSize`, `StoreSizeKnown` | a committed ingest or a full disk, the timers, the size guard with its await |
| `CompactionBatch`, `CompactionPause` | `runCompactionSweep`, and what `compactClosedBuckets` does when it settles |
| `RetentionCall`, `RetentionPause` | `runRetentionSweep`: deletion batches, both phases of finalizing, `runVacuumSweep` |

Nothing keeps the operations of users apart: `UserServes` may happen while another
operation is under way (each of `Handlers` has one at a time), and so may `Onunload`.

`NextLimit` is `nextCompactionPointLimit` and `nextVacuumPageLimit`, with the
durations reduced to one per case.

### Scraper

`generation`, `running` (keys with a timer), `inFlight` (the generation that scrapes
a key), `statuses`, `tasks` (calls of `scrapeSelf` and `scrapeTarget` under way),
`stored`, `now`, `disposed`. `Start` is `start` with a new configuration, `Interval`
a timer, and each await of a scrape is an action: `FetchRedirected`,
`FetchAnswered`, `FetchFails`, `IngestAnswered`, `IngestFails`, `RecordEnds`.
`Health` is `summarizeScraperHealth`. A scrape is represented by its `up` sample.

### ChunkVfs

| variable | code |
|---|---|
| `disk` | the stored chunk and meta files of the database and its journal |
| `open` | `openFiles`: size, cached chunks, dirty chunks, whether the meta is dirty |
| `written`, `pc`, `goal` | the sync under way, the call under way, opened to serve or only to seed |
| `legacy`, `node` | the snapshot of an older version, the file of the desktop |
| `old`, `new`, `version`, `missed` | history: the last commit, the transaction in flight, a failed migration |

`FlushChunk`, `FlushMeta` and `FlushFails` are `xSync` write by write; `Truncated`,
`WritePage`, `LoadChunk`, `Evicted` are what the calls do to an open file;
`MigrateChunk`, `MigrateMeta`, `MigrateRemoves`, `MigrateFails` are the migration;
`StartOnNode`, `SeedNode` the desktop's start; `DeleteChunk`, `DeleteMeta` the
removal of files. SQLite is external: `BeginTransaction`, `JournalSynced`,
`DatabaseSynced`, `Committed`, `RolledBack` and the playback of a hot journal are
the calls it makes for a transaction in the journal mode the code sets. A page is
the transaction that wrote it.

### PromqlParser, Prefetch, VectorMatching, Evaluator and Query

| variable | code |
|---|---|
| `samples`, `queue`, `arrived` | the store, its operation queue, the ingests of others begun so far |
| `asked`, `answer` | the question of `instantQuery` or `rangeQuery`, its text parsed; the answer |
| `fetched` | `SelectorData`: what the store answered, per request |
| `asOf` | history: the samples when the first request was answered |

`PromqlParser` is the parser from tokens on: a function takes the tokens left and
returns what it read. `Prefetch` is the state machine: a store whose queue holds ingests
and fetches (`Ingest`, `ServeIngest`, `ServeFetch`), and a question that is asked
(`Ask`: all its requests reach the queue in one turn), evaluated (`Evaluate`) and
answered (`Deliver`). It has the arithmetic of both reads of the store (`Fetch`: all
samples of an interval, or the last one before each step), the bounds and keys of
requests (`RequestOf`, `Requests`), and how selectors walk the data with pointers
(`LatestOf`, `WindowsOf`). The expressions, their selectors and the evaluation are
constants there, so that what selectors see can be proved whatever the parser and the
evaluator do. What is assumed of them is named: `AskedQuestions`, `ExpressionTrees` (the
parser returns a finite tree, and every selector in it is found) and the like, which TLC
evaluates for the parsed texts of `query`.

`Evaluator` is the rest of `engine.ts`, one operator per method (`EvalRangeFunc`,
`EvalCall`, `EvalAggregation`, `VectorVectorOp`, `InstantAnswer`, …), with the set
operators in `VectorMatching`. `Values` is `Evaluator.eval`, a function over an
expression and all inside it. Numbers are exact fractions. `Query` puts the parser in
front and supplies the constants: `CollectSelectors` and `SubExpressions` walk the
trees.

Times are numbers of parts of a millisecond (`Millisecond` parts each). Samples, ranges,
offsets and the lookback are whole milliseconds; the start, the end and the step of a
question need not be, since panels (`panels/config.ts:31`), notes
(`time/context.ts:75`) and the debug API (`api/debug-global.ts:83`) hand on what they
are given, and `64.1 * 1000` is not whole. The store rounds what it is asked
(`Floored`, `Raised`, `OneAtLeast`, at `store.ts:868` and `944`) and the evaluator does not.
`Second` is the length of a second in parts; TLC gives it a small value to keep rates small.

## Runs

| run | question | bounds |
|---|---|---|
| `table_core` | Does every interleaving of writes and maintenance with commit, rollback and reopening keep the table a map, and the counts as exact as they can be? | one series, 3 timestamps in one bucket, 2 values, blocks of 2 points |
| `table_faults` | Do compaction and retention leave the right samples, and do they end, with damaged payloads and reopenings? | one series, 4 timestamps in two buckets, 1 value |
| `metrics_store` | Do samples stay with their series, and cache and counts with the tables, whatever fails? | 2 series, times 0, 1 and 4, rollups of 2 in spans of 4, 4 calls, 1 waiting |
| `wal_recovery` | Is anything forgotten, do sessions overlap, does unloading end? | 3 batches, 3 faults |
| `wal_unload` | finding | 2 batches |
| `worker_store` | Is each request answered once and run in order on an open store, and do open and close end? | 2 foreground and 2 maintenance requests |
| `plugin_reloads` | Is the database open once, does an unload leave nothing behind and end? | 3 loads, 2 ports, 2 attempts to open, no server operations of users |
| `plugin_care` | Does maintenance go on, run once, and catch up, and does an unload leave nothing behind, whatever a user does to the HTTP server and whenever? | 1 load, 1 port, 3 points written, 2 samples to expire, 1 fault |
| `scraper` | Is each target scraped alone, is what is shown true, do scrapes go on? | one store of the plugin, one HTTP target, 1 redirect, 2 starts, a clock to 1 |
| `chunk_vfs` | Is a committed transaction there after a crash at any write, and no torn one? | chunks of 2 pages, 3 pages, 3 transactions, 2 faults |
| `chunk_migration` | finding | as `chunk_vfs` |
| `query` | Does a text mean what it should, does a question see one moment, are its answers consistent? | six series, some sixty expressions, three arriving samples, a millisecond of 2 parts |

The table bounds are the smallest at which the interesting layouts exist: two
blocks of one bucket with a gap between them, a run of hot rows that straddles a
block, a block that a cutoff splits, a hot row over a cold one, and (in
`table_faults`) a second bucket. `MaxChunkNo` bounds rewritten chunk numbers,
`MaxBatch` the records of a batch, `Limits` the point limits of maintenance.
`Implements` is checked on undamaged tables and proved for damaged ones as well. In
`metrics_store` a cutoff cuts one minute in two and drops another whole, and four
calls suffice to write, prune, write under a reused id and read. Three batches
allow one line in the file, one in the queue and one in flight; three
faults allow damage, a torn line and a crash together. `Tears` is `{"fragment"}`:
with a torn append that loses only its newline, the next append glues two intact
lines into one that does not parse, and `NothingForgotten` fails for the first
of them once the database is damaged too. For the worker
two requests of each class are the fewest that can be overtaken within a class
and between them; open and close come on top. Three loads let the promise of one
teardown be replaced by that of the next while a third waits. Two starts of the
scraper leave tasks of one generation under a second and a third. Chunks of two
pages make a transaction touch a chunk it does not fill, three pages a database of two
chunks, two faults a crash in the recovery from a crash. The questions of `query` have
each operator, function and clause at least once, instantly and over ranges, with
windows that begin before the samples, gaps longer than the lookback, an offset and
a counter reset. Two parts of a millisecond are the fewest that leave something between
two of them; questions begin and end there, and step there (2.5 ms, 0.5 ms).
`UnloadEnds` is checked in `plugin_reloads` only, without operations of users: an unload
waits for none of them, only for its own closing of the server.
One operation of a user at a time in `plugin_care` suffices for a stop, a start or a
restart to meet those of the plugin's own start and teardown, or the unload; the port may
be taken by another program. Two operations of users that meet are in the proofs only.

`CHECK_DEADLOCK FALSE` is used where the bounds (batches sent once, faults)
let the model come to rest.

### Properties

Table: `BlocksDisjoint`, `BlocksWellFormed` (structure the reads rely on),
`CompactionKeepsSamples`, `RetentionExact` (maintenance against the query
answers), `ChangesAreNew` (counts, and with them the cached bound: when it is too
low, an overwrite is counted as new; the property speaks of connections that are
`exact`; what it leaves is stated as `CountsAreOfNew`), `MaintenanceMakesProgress`
(each batch shrinks what the next one sees, so the sweeps end), and `Implements`:
`TsdbTable` implements `SampleMap` under the refinement mapping that takes the query answer over the last
committed tables. `CompactionKeepsSamples` and `RetentionExact` count a failing query as
an answer: maintenance may end a failure by dropping the block, and then the query
finds the hot row or nothing, but it takes no other answer away.

Store: `SamplesKeepTheirSeries` (ids are given again after a prune),
`CacheFollowsTable`, `CountsFollowSamples` (up to what retention and damage take
away behind the counters; the exceptions are named in the property),
`StatisticsAgree` (the quick statistics against the scan), `CloseReturns`
(liveness).

Log: `LogIsCommitted`, `NothingForgotten` (an action property: what the database
and the log together hold only grows, unless a refill was interrupted or the
database is damaged in that step), `SessionsDoNotOverlap`, `TeardownEnds`
(liveness).

Worker: `RunsOnOpenStore` (close overtakes no call), `OnlyMaintenanceIsOvertaken`
(order across both queues), `OpenAndCloseReturn` and `EveryCallIsAnswered`
(liveness), and `Implements`: `WorkerStore` implements `SerialStore`.

Plugin: `OneOpenStore`, `NothingLeftBehind` (no store, timer or port of a load that is
taken down; of loads that are `crossed`, no store and no timer), `UnloadEnds` (liveness),
`CompactionGoesOn`, `OneRetentionSweep`, `CatchesUp` (liveness).

Scraper: `OneScrapePerTarget`, `StatusTellsTheTruth` (statuses of this generation,
stored where shown as up, and the summary of them), `KeepsScraping` (liveness).

Files: `CommitsSurvive`; `SeedIsCommitted` for the file the desktop is seeded with.

Query: `ReadsAsMeant` (an expression printed with the fewest parentheses is read as
itself), `OneMoment`, `SelectorsSeeTheirSamples` (thinned data and pointers against
the plain definition: of range selectors for any grid, of instant ones for steps of whole
milliseconds; what it leaves is stated as `LastSampleIsKept`), `RangeIsInstants`,
`SetOperatorsWorkBySample`, `EstimatesStayInside` (increase, quantiles, histogram quantiles).

The type invariant is in the runs of the table. Those of the log, the worker, the
scraper and the plugin (`Shapes`, the part that is needed) are proved as part of the
inductive invariants below, as are `MetricsStore.TypeOK` and `ChunkVfs.TypeOK` (both
`TypesHold`).

### Fairness

Fairness is only what the JavaScript runtime gives. In `WalRecovery`: a
call that was made returns or throws, and the code after an `await` runs once its
promise settles (weak fairness of each such step). Loading, unloading, scraping,
the flush timer, crashes and damage are never promised. A call that never
settles is outside the assumption; the worker store turns it into a failure by
its drain and close timeouts. In `WorkerStore` fairness covers the renderer alone
(messages are delivered, promises resume, timers fire), so that
`OpenAndCloseReturn` holds with a worker that hangs or has died;
`EveryCallIsAnswered` adds `WorkerProgress` as its own premise. That maintenance
is not starved there is due to the finite number of requests: the code gives
maintenance no share of its own. In `MetricsStore` a statement that was started
returns (`StoreStep`). In `Plugin` the layout becomes ready, the tasks of a start, a
teardown and a sweep go on, the compaction and retention timers fire, and `listen`
and `close` are answered; users load, unload and press keys as they like, and the size
guard is not relied on. In `Scraper` the interval timers fire, and the calls of each key
and generation are answered, in whatever order. `ChunkVfs` and `Prefetch` state no
liveness.

### What the violations show

1. `wal_unload` — unloading during a refill stops the replay, and the flush at
   the end of the same teardown truncates the lines not yet replayed
   (`wal.ts:137`). The same property is broken when an ingest is rejected during the
   replay: its line is skipped like a torn one, and the log is truncated afterwards.
2. `chunk_migration` — the migration of a snapshot fails once, and the plugin goes on
   with a new database. The journal of its first transaction reaches the disk, the
   process ends before the meta file of the database is written. The next start finds
   no database, migrates the snapshot after all and removes it; SQLite then
   finds the journal hot and plays it back into the migrated database, which is cut
   to the size the other database had. The guard (`chunk-vfs.ts:353`) looks at the meta
   file of the database only.

### Stated, not held, and not among the runs

These are stated in the modules and do not hold. TLC finds each violated at once under
the configuration named.

* `TsdbTable!CountsAreOfNew`, `TsdbTable!ImportKeepsExisting` (`table_core`) — after a
  reopen the bound of the cold timestamps is unknown; the first block written sets it to
  that block's own maximum (`sqlite_tsdb.c:1139`), which may be below older blocks. Until
  the next reopening, inserts above it skip the cold lookup: a live ingest counts an
  overwrite of an older cold sample as new, so that the store's sample count and rollups
  run ahead, contrary to `ARCHITECTURE.md:380`, and an import overwrites samples that line
  378 says it preserves. An ingest that comes before the first block looks the bound
  up, and then both are right: that is `exact`.
* `Prefetch!LastSampleIsKept` (`query`, with `Texts <- MCBrokenSteps`) — with a step of
  3.5 ms the evaluator's steps are 0, 3.5 and 7 and the store's 0, 3, 6 and 9, of which the
  last is past the end. A sample at 7 ms is kept for no step of the store and so is
  missing at the last step of the evaluator, against `ARCHITECTURE.md:454`. A step of 64.1 s
  is 64099.99999999999 ms in JavaScript, the store makes it 64099 (`store.ts:946`), the
  evaluator does not (`engine.ts:1266`), and the two grids drift apart by a millisecond per
  step.
* `TsdbTable!NoOldWriteReturns` — retention deletes hot rows and blocks in separate
  steps and batches; a hot row that hid a cold point may go first and the overwritten
  value is read again until the sweep has removed the block.
* `Plugin!BoundPortTells` for loads that are `crossed` (`plugin_care`) — a start and a
  stop of the HTTP server that overlap leave a server listening that no handle knows, and
  a start that is still waiting for `listen` when the plugin is unloaded binds its port
  after the teardown has looked for one to close. `NothingLeftBehind` says nothing of the ports of
  such a load, which may stay.

## Proofs

Each theorem is about every value of the constants that satisfies the module's
assumption (`TableAssumption`, `StoreAssumption`, ...). `NothingIsForgotten` has a
hypothesis besides (on `Tears`); the others have none.

### TsdbTableProofs

`TypeCorrect` (`TypeOK`), `BlocksStayDisjoint` (`BlocksDisjoint`),
`CompactionIsInvisible` (`CompactionKeepsSamples`), `RetentionIsExact`
(`RetentionExact`), `BlocksStayWellFormed` (`BlocksWellFormed`),
`MaintenanceProgresses` (`MaintenanceMakesProgress`), `ChangesStayNew`
(`ChangesAreNew`) and `TableImplementsMap` (`Implements`: initial states map to initial
states, and each step to a step of `SampleMap` or a stutter), all with any damage and
reopenings.

The inductive invariant `IInv` adds to `TypeOK` that the blocks, now and at
`BEGIN`, are *good*: their points lie in their bucket and no two of one series
interleave; and that an idle connection has nothing unsaved. Disjointness alone
is not inductive: sealing a slice bounds it by the next block of the *same*
bucket, so one needs that blocks of other buckets stay in theirs. Disjointness is
also what makes maintenance invisible, for a timestamp then has at most one cold
point, so that the value a read finds in the blocks is determined
(`ColdUnique`), and rewriting a block answers for exactly the timestamps the old
one did (`MoveKeepsSamples`). Where a query fails over a block that is dropped, it finds
the hot row afterwards or nothing (`UndecodableIsHot`), and elsewhere what it found before
(`QueryKept`). `SealSlice`, the rewrite of a covering block and
`delete-before` each have a lemma of that form (`CompactHotSliceDone`,
`CompactOverlappingBlockDone`, `DeleteBeforeDone`); `StepIInv` has one step per
action.

The second invariant, `JInv`, is about size and keys: the blocks, now and at
`BEGIN`, are *well kept*, that is of one to `MaxBlockPoints` points and with chunk
numbers of their own. Cutting rows into pieces by rank gives pieces of at most that
size, numbered from the first free number (the maximum plus one) up, so they meet no
block that is there and not each other. Progress is the other half: a compaction
takes the row it started from off the head, and what an expiry batch takes is counted
by sums over the blocks (`Sums`).

The third, `KInv`, is about the cached bound: while the connection is `exact`, every
point of the blocks, now and at `BEGIN`, is at or below a known `coldMax`, and there is no
block as long as it is unknown (`BoundBy`). A rollback keeps the bound, which is why both
sets of blocks are needed; a lookup makes a connection exact whose bound was unknown. Then
the cold check misses no sample: an import writes only where nothing is read
(`StatementDone`), and the changes recorded are the samples that are new. A connection that
is not exact may overwrite with an import, which `SampleMap` allows it. With that, each
commit is the statement of `SampleMap` that the transaction ran.

### MetricsStoreProofs

For any numbers of calls, series ids and failures, any keys, and any finite set of
timestamps (`Times` is the set the samples may have; a store holds finitely many):
`TypesHold` (`TypeOK`), `SamplesStayWithTheirSeries` (`SamplesKeepTheirSeries`),
`CacheIsTheTable` (`CacheFollowsTable`), `CountsAreOfSamples` (`CountsFollowSamples`),
`StatisticsAreOfSamples` (`StatisticsAgree`).

The invariant has three parts. `QueueOK` says what may run when: `init` while
opening, nothing while closed, and behind each part of an ingest a call in the queue.
`TablesOK` says what a rollback goes back to: the transaction of an ingest has only
added series, so that the samples agree with the series table at `BEGIN` as well as
with the one now (`TransactionOK`), and that the cache is the table when `init`
comes to the counts. `CountsOK` is `CountsGood`: besides what the counts promise, what a
store that has no count yet may rely on when it starts to, and that the bounds hold all
samples as soon as there is a count. Its steps are about cardinalities: a written batch
adds to each bucket as many as its new places, counted both as a sum over the buckets and
as the size of their union (`CountByParts` of `Sums`), retention empties whole
buckets or leaves their rollup behind `deletedTo`, and the sum over the rollups follows
bucket by bucket.

### Sums

`LeastNatural` and `FiniteInduction` state induction without an operator parameter:
every set of finite sets of a kind has a smallest member, so a counterexample to a
statement that grows by one element has a smallest one. From them follow that the
recursive function inside `MapThenSumSet` exists and that it does not depend on the
order in which it picks (`SumFcnExists`, `SumPick`, `SumRemove`), and the usual laws of
finite sums, minima and maxima. For the operators of `Ranks` it shows that a finite set
of numbers is counted off without gaps (`NthHasRank`, `InOrderIs`), and that up to a bound
(`UpToABound`), or between two (`CountBetween`, `NthBetween`), the members are a prefix or
a stretch of that count: what a pointer into sorted points stands for. `DivMod` and
`DivMonotone` are what the proofs need of division.

### WalRecoveryProofs

`LogTypeCorrect` (`TypeOK`, a lemma of the others), `SessionsNeverOverlap` (`SessionsDoNotOverlap`),
`LogStaysCommitted` (`LogIsCommitted`), `NothingIsForgotten` (`NothingForgotten`, if
`"newline"` is not in `Tears`).

None of the last three is inductive. `SessionsDoNotOverlap` needs what each part
of unloading has waited for when the next one runs (`TeardownOrder`): the store
is closed after the startup maintenance and the last commit, the flush begins
when no ingest is in flight, and as long as the queue is not empty some flush
still waits for its last entry. `LogIsCommitted` needs that a promise that
resolves to a commit finds the batch in the database (`CommittedFirst`) and, for
the moment a refill ends, that everything logged is in the database or in the
text still to be replayed (`TextCoversLog`), which in turn needs that nothing
truncates meanwhile (`NothingTruncates`) because a flush does not begin while the
startup maintenance runs. `NothingIsForgotten` then follows: a truncation that
runs finds the log covered (`TruncatesCovered`), and no other step takes a batch
out of the log (`LoggedStays`), which is where `TailIsTorn` is needed.

### WorkerStoreProofs

For any sets of requests of both classes: `RunsOnOpen` (`RunsOnOpenStore`),
`ImplementsPromise` (`Implements`: the initial states of `WorkerStore` map to those of
`SerialStore`, and each step to a step or a stutter) and `OrderIsKept`
(`OnlyMaintenanceIsOvertaken`).

The invariant: a request is at one place at a time, posted, queued, running or
answered, and only while its promise is pending (`InOnePlace`); an answer of success is
that of a call that took effect (`AnswersAreTrue`); which requests may be pending follows from
the state of the client (`PendingByState`); and from the success of open to the
dispatch of close a live worker has the store open (`OpenInBetween`). The refinement
needs the first two to show that an effect happens once and while it is
waited for; the third, to show that terminating the worker leaves nothing that could
take effect later.

For the order, `OInv` relates the two histories of calls to the three queues: a
request is sent once, what was sent waits or was dispatched as long as the worker
lives, and the channel and each of the two queues are in the order in which their
requests were sent, every one behind what was dispatched of its class (`Ordered`).
Then the head of a queue can only overtake what waits in the other one, and the
maintenance queue is served only when the other is empty.

### PluginProofs

For any number of loads, ports and attempts, any limits and faults, and any operations
of users at any moment: `LoadsFit` (the invariant), `DatabaseOpenOnce` (`OneOpenStore`),
`CompactionStays` (`CompactionGoesOn`), `RetentionOnce` (`OneRetentionSweep`),
`ServersFit` (the second invariant), `PortsAreTold` (`BoundPortTells`), `NothingStays`
(`NothingLeftBehind`).

A start waits for one promise, that of the load before it, or for none. That this is
enough for *all* earlier loads is the invariant's work: loads follow each other
(`InTurn`); a load that is past its wait, or waits for nothing, finds every earlier
one over (`WaitsForOthers`); the promise on the window is that of the last load
unloaded, or none is needed (`TracksTheLast`). With that, whoever has the database open
is past its wait and not over (`OpenFits`, `MayHold`), so that two of them would
contradict each other. The last conjunct, `CareFits`, says that only a load that is
ready has timers and sweeps, that a retention sweep is the one its promise stands for,
and that a compaction sweep excludes a timer and the other way round.

That no timer stays follows from the waits of the teardown alone (`TimersInv`). What is
left behind of the server needs a second invariant, `ServerInv`, about the loads that are
not `crossed`: of the operations of a load at most one is under way, none of a user while
it is unloaded (`TasksFit`), and while a port listens for it none is, its handle is that
port, and its teardown has not come past the wait for the start (`ListensAlone`). The
teardown then finds in the handle whatever is left to close. An operation that meets
another, or the unload, breaks the first and with it the others: a stop that runs while a
start is waiting for `listen` finds no handle to close. From then on the load is `crossed`,
and the invariant says nothing of its server.

Scraper. For any sets of stores and targets, any number of restarts and redirects:
`OneScrape` (`OneScrapePerTarget`), `StatusesStayCurrent` (`StatusesAreCurrent`), and
`HealthIsTrue` (the whole of `StatusTellsTheTruth`).

The invariant adds that a task of this generation scrapes a key that runs and holds
its mark (`CurrentIsMarked`), so that the timer leaves the key alone, and that no task
or mark is of a generation to come (`NothingFromTheFuture`), so that a new generation
starts without rivals. For the summary, a status has a time exactly if a scrape has set
it (`StatusesReported`); up, down and pending then make up the whole, and the newest
error is that of a greatest time, which a finite set of statuses has.

### ChunkVfsProofs

For chunks, caches and databases of every size and any number of transactions, failing
syncs and crashes: `CommitsAreKept` (`CommitsSurvive`), `SeedIsKept`
(`SeedIsCommitted`), `TypesHold` (`TypeOK`), all from `Invariance` (`IInv`). A failed
migration is part of it as in the properties: after one, a reader may also find a new
database, and `MigrationTakesOver` remains the violation above.

A file is spoken of by its pages: `Pages(d, m)` for an open file over what is stored,
`OnDisk(d)` for what is stored alone. `Recovered` is what a reader finds who has
only the stored files: the pages on disk and, where the journal is hot, the records
it tells laid over them. The invariant has three parts.

* `Sound`: what is recovered is whole, of a size within the file, and allowed. It holds
  of the stored files in *every* state, so a crash, which forgets the rest, keeps it.
* `Staged`: one predicate per stage of the calls. While the journal is
  flushed, no page of the transaction is in the file, so that it does not matter whether
  the journal that reaches the disk chunk by chunk is already hot (`AtJournal`); while the
  database is flushed, the journal is stored and tells every page that may be
  replaced (`AtDb`); when the journal is cleared, the pages are stored (`AtCommit`);
  a rollback has the old pages open and may find the journal stored in part
  (`AtUndo`, `AtUndone`), and a recovery is one that may be interrupted and begun again
  (`AtReplay`).
* `Fits`, for each open file: a cached chunk is dirty and not yet written, or as
  stored, and the dirty chunks are cached. It is why writing a chunk changes the
  pages of the stored file to those of the open file and no others (`ChunkFlushed`), and
  why dropping clean chunks from the cache changes nothing (`EvictedIs`).

Records carry the nonce of their transaction; a journal that is reused holds those of
older ones behind its end, and `Told` stops at the first that does not belong. This is
what `Tells` is for: what has the present nonce tells the truth, wherever it lies.
Writing a set of pages, truncating and playing back are described page by page
(`WriteMany`, `TruncateBoth`, `PlayedBack`).

### QueryProofs

**One moment.** `OneMomentAlways` (`OneMoment`) needs an invariant about the place of the
requests in the queue (`PrefetchInvariant`): they wait next to each other (`Together`);
once one of them is answered the rest is at the head, and the samples are still those it
read (`AtTheHead`); what waits has not been answered yet (`Awaited`); what was answered is
what the store held then (`ReadFromOne`). Writes of others join behind or are served
before, never in between.

**What selectors see.** `SelectorsAlwaysSeeTheirSamples` (`SelectorsSeeTheirSamples`)
combines that with `SelectorSeesItsSamples`, which is about one selector over any store,
any start, end, offset, range and lookback: a range selector on any grid of steps, an
instant selector on steps a whole number of milliseconds apart, wherever they start. The
condition is the code's: without it the two grids are not the same, as `LastSampleIsKept` shows.
Its parts are: rounding start and end to milliseconds leaves no sample out and, the step
being whole, moves the whole grid by less than a millisecond, across no sample (`RoundingIs`,
`WholeTimes`, `WholeGrid`, `WholeStays`); a pointer that moves on
from bound to bound stands at the number of points up to the bound (`PointersCount`, since
the bounds rise, `GridRises`); `FirstEval` is the first step at or after a sample
(`FirstEvalIs`), so the newest sample in the lookback of a step is selected for it and
nothing newer is (`SelectedForAStep`), whence `LatestIsSeen`; the points between two
pointers are those of the half-open window (`WindowIsSeen`), which the bounds of the
request cover. `StepsAreSeenAlone` follows: a step of a range query sees what it sees in
an instant query, the part of `RangeIsInstants` that is due to fetching and thinning.

**Set operators.** `SetOperatorsBySample` is about `EvalSetOp` on any two lists of series:
the labels that match are those on which the signature is taken, a series of the left
stays at the steps where its signature is present on the right, or is not, and one without
a value left is dropped without losing a sample (`FilteredCells`, `KeptKeepsCells`).
`SetOperatorsAlwaysWorkBySample` (`SetOperatorsWorkBySample`) says it of every state of
the specification, whatever the operands are. It takes two inductions on the size of an
expression: the recursive function inside `Values` exists and gives each part what
`ValueOf` makes of its operands (`ValuesAre`), and every value that is a vector is a list
of series (`ValuesFit`), because each of the operators of `Evaluator` makes a list out of
lists (`ValueOfFits`, one lemma per kind of expression and call) and the store answers
with rows (`FetchIsRows`).

### Model-checked only

* `ReadsAsMeant`: the parser consists of RECURSIVE operators, for which the prover has no
  backend.
* `RangeIsInstants`: an induction over expressions with a bag of rows at each step, which
  needs that every aggregate is independent of the order of its values, infinities and
  NaN included. `StepsAreSeenAlone` is its base case.
* `EstimatesStayInside`: inequalities between products of fractions in lowest terms, and a
  sort.
* Liveness under fairness: `TeardownEnds`, `OpenAndCloseReturn`, `EveryCallIsAnswered`,
  `CloseReturns`, `UnloadEnds`, `CatchesUp`, `KeepsScraping`. The prover does not reason
  about ENABLED. (`MaintenanceMakesProgress`, on which the end of a sweep rests, is a
  theorem.)

## Not modelled

* The Gorilla bit codec, SQL, the lexer of PromQL, floating point: rounding (times
  too: a step between milliseconds is an exact fraction here), the sign of zero, square roots, exponentials, logarithms, `stddev`, broken exponents. The
  order of result rows and number formats.
* `scrape/parser.ts`, the label rewriting of the scraper (collisions of `exported_`
  labels) and its own metrics; a batch is represented by its `up` sample.
* `migrateLegacyStorageToOpfs` (`main.ts:721`): a long copy with progress for
  the user interface, which checks that none runs before its first await and records
  that one does after it. Copying a snapshot to the file of the desktop is not
  atomic either. Both are one-time moves outside the running system.
* In `ChunkVfs`: adapter calls fail only while a transaction is flushed and in the
  migration, not in recovery nor while the header of a journal is reset; reads do
  not fail (the code takes a read that fails for a chunk of zeros); a wipe; chunk
  files that vanish (a seed would then be short).
* The OPFS and node file systems, which hand each call to one handle; the probe.
* The request routing of the HTTP server, the metric registries, panels (their
  refreshes may overlap, `panels/panel.ts:185`), settings and the time selector:
  rendering and parsing without state another part relies on.

## Plan

What is left, in the order of what it would add: failures of adapter reads and of the
calls made in recovery; the migration to OPFS; that aggregates do not depend on the order
of their values, as a first step from `StepsAreSeenAlone` to `RangeIsInstants`. The order
so far was table, log, worker, store, plugin, scraper, files, query; the proofs followed
the same order.
