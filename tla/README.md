# A TLA+ verification project for bdslib

bdslib keeps JSON documents in time-partitioned shards.  A document is stored
as a row (DuckDB), indexed by full text (Tantivy) and by vector (VecStore),
deduplicated and classified as primary or secondary against what its shard
already has, and cached as JSON in memory.  Its log lines are mined for templates on
the way.  The server `bdsnode` takes documents over JSON-RPC, queues them on a channel
and stores them in batches from a thread; it also keeps free documents with their own
index, and runs scripts (BUND) for its clients, at once, queued, or at scheduled minutes.

This directory models the part of it where order, concurrency, restarts and
partial failure decide whether data stays findable: routing to shards, the cache of
open shards, the three stores of a shard, deduplication and
classification, the record cache, the ingest path, the document stores, the template
miner, and the scheduling, results and contexts of scripts.  The modules are checked with
TLC on small instances, and their safety properties are proved with the TLAPS proof manager.

## 1. Inventory

Paths are relative to `src/src/`.

| Component | State | Operations | Correct when |
|---|---|---|---|
| Time ranges (`common/timerange.rs`) | none | truncate an instant, round it to a minute, hour, day or shard interval | an interval contains its instant; intervals of a width tile the time line; calendar intervals nest |
| Shard cache and catalog (`shardscache.rs`, `shardsinfo.rs`) | map of open shards, LRU list, catalog table, all but the table under one lock | `shard`, `shards_span`, `sync`, `close`, opening a data directory | bounded; map and list agree; routing is stable; a span has every interval once; nothing is open that the catalog cannot find |
| Shard (`shard.rs`, `fts.rs`, `vectorengine.rs`) | row store, full-text index, vector store, each opened at its first use | `add`, `add_batch`, `delete`, searches, `sync` | the stores agree on which records exist; acknowledged records are found; deleted ones are not |
| Observability storage (`observability.rs`) | tables `telemetry`, `primary_embeddings`, `primary_secondary`, `dedup_tracking`; a cache of primary embeddings | `add`, `add_batch`, `delete_by_id`, queries | a (key, data) pair is stored once; no two similar primaries; every record can be reached |
| Shards manager and record cache (`shardsmanager.rs`, `common/cache_json.rs`) | bounded JSON cache with expiry | `add`, `add_batch`, `update`, `delete_by_id`, searches | what is cached is current; deleted records fade; secondaries show up; size is bounded |
| Ingest path (`common/pipe.rs`, `bin/bdsnode/server/add.rs`, `bin/bdsnode/jsonrpc/add*.rs`, `bin/bdsnode/main.rs`) | bounded channel, batch of the thread, phase of the shutdown | `v2/add`, `v2/add.batch`, the `bds-add` thread, shutdown | conservation and order from channel to store; bounded queues; every accepted document reaches `add_batch`; shutdown ends |
| Global database, periodic sync (`globals.rs`, `bin/bdsnode/server/sync.rs`) | one manager per process | open, sync at an interval and at the end | an orderly stop loses nothing |
| File ingest (`bin/bdsnode/server/add_file*.rs`) | two more channels and threads | one message expands to the lines of a file | as the ingest path |
| Document storage (`documentstorage.rs`, `datastorage.rs`, `shardsmanager_docstore.rs`) | metadata, content and frequency tables, one vector index in memory | add (four ways, files too), update, delete, re-embed, reindex, sync | what was embedded is found as it is stored; what was deleted is gone; a file's record lists chunks that exist; chunks cover the file |
| Log templates (`common/drain.rs`, `shardsmanager_tplstorage.rs`, `shardsmanager_drain.rs`) | Drain tree, map from clusters to template documents, observations per shard | learn a line or a batch, generalise, store, observe, delete, reload at a start | a recent line has a recent template; the map names the current document; a known line stays known; a template never costs a document |
| BUND workers and results (`vm/workers.rs`, `vm/result_queue.rs`, `bin/bdsnode/server/results_sweeper.rs`) | job channel, pool of threads, result queues | submit, run, push, pull, sweep | jobs are taken while workers come back; results stay for their time to live and no longer |
| BUND contexts (`vm/context.rs`, `bin/bdsnode/server/bundcleanup.rs`) | named VMs with their last access | get or create, evict stale, close | calls of a context run one at a time; a context in use keeps its VM |
| Script scheduler (`scheduler.rs`, `shardsmanager_scripts.rs`, `bin/bdsnode/server/scheduler.rs`) | metadata and body of each script | add, update, delete, tick | at most one run a minute; the body belongs to the schedule |

Interaction.  A JSON-RPC handler pushes documents onto the `ingest` channel; the
`bds-add` thread collects them and calls `ShardsManager::add_batch`, which runs the text
of every document through the shared Drain parser, stores new templates, asks the
shard cache for the shard of every timestamp and calls `Shard::add_batch`,
which calls the observability storage and, for its primaries, the two indexes.
Searches and deletions come from handlers and BUND scripts straight to the manager, in
parallel.  The shard cache hands out clones of shards; a clone outlives the
eviction of its shard, and the next call opens a second instance on the same directory.
The sync task and `close` go through the open shards while calls hold them.
Documents, signals, scripts and templates are all kept in stores of the kind of
`documentstorage.rs`, which several threads change at once.  The scheduler lists the
scripts each minute and sends the due ones to the worker pool; v2/eval.queued sends
to the same pool, whose results wait in queues until they are pulled or swept.

What is hard here, in the order in which it decides about data:

1. the lock of the shard cache is held for one `shard()` call, not for the
   operation that uses the shard, so eviction, `close` and `sync` run under
   running operations;
2. the stores of a shard, and those of a document, reach the disk at different times:
   rows and full text with every statement, vectors with `sync` only;
3. deduplication, classification and storage are separate statements, and
   only classification has a lock;
4. in-memory caches (primary embeddings, JSON records, the cluster map, the primary
   rows a reindex has listed) are read before and written after the stores change, by
   several threads;
5. the thread that stores batches must drain exactly what was accepted, at
   any moment of a shutdown and whatever `add_batch` does;
6. catalog and cache keys are named by intervals, computed from a width that may have
   changed since the last start;
7. clocks drift against each other: the scheduler's sleep against minutes, sweeps
   against the times they compare with, evictions against calls that still run;
8. a panic ends a worker or the batch thread for good, and may poison the lock of the parser;
9. two statements that belong together are cut apart by an error or the end of the process.

`PROJECT.json` lists the hazards line by line, with the properties that cover them.

## 2. Modules

| Module | Code | Uses | Checked by | Proofs |
|---|---|---|---|---|
| `TimeRange` | `common/timerange.rs` | | (through `ShardsCache`) | in `ShardHandlesProofs` |
| `ShardsCache` | `shardscache.rs`, `shardsinfo.rs` | extends `TimeRange` | `MCShardsCache` | in `ShardHandlesProofs` |
| `ShardHandles` | `shard.rs`, `fts.rs`, `vectorengine.rs`, `sync` and `close` of `shardscache.rs`, delete and search of `shardsmanager.rs` | extends `ShardsCache` | `MCShardHandles` | `ShardHandlesProofs` |
| `Observability` | `observability.rs` | | `MCObservability` | `ObservabilityProofs` |
| `RecordCache` | `common/cache_json.rs`, the callers in `shardsmanager.rs` | | `MCRecordCache` | `RecordCacheProofs` |
| `IngestLog` | what the ingest path promises | | | |
| `IngestPipe` | `pipe.rs`, `server/add.rs`, the RPC methods, `main.rs` | instance of `IngestLog` | `MCIngestPipe` | `IngestPipeProofs` |
| `Documents` | `documentstorage.rs`, `datastorage.rs`, their callers | | `MCDocuments` | `DocumentsProofs` |
| `Chunking` | `split_into_chunks` of `documentstorage.rs` | | `MCChunking` | in `DocumentsProofs` |
| `Templates` | `drain.rs`, `shardsmanager_drain.rs`, `shardsmanager_tplstorage.rs`, `add` and `add_batch` of `shardsmanager.rs` | | `MCTemplates` | `TemplatesProofs` |
| `Scripts` | `shardsmanager_scripts.rs`, `scheduler.rs`, `vm/workers.rs`, `vm/result_queue.rs`, their tasks in `bdsnode` | | `MCScripts` | `ScriptsProofs` |
| `Contexts` | `vm/context.rs`, `v2/eval`, `bundcleanup.rs` | | `MCContexts` | `ContextsProofs` |

How state corresponds:

- **TimeRange.**  An instant is a natural number of ticks, `Sec` ticks to the
  second, so that `SystemTime` values between two seconds exist.  Functions keep the
  names of the source.  `floor_to` cuts the fraction off before it rounds, as
  the `as_secs` calls do.
- **ShardsCache.**  `catalog` is the set of rows of the `shards` table, `open` the
  keys of `CacheInner.map`, `lru` is `CacheInner.lru` as a sequence, front first,
  `duration` the configured width of this run of the process.  `shard()` is one step,
  since it holds the lock throughout: `CacheHit`, `CatalogHit` and `AutoCreate` are its
  three branches, `Insert` its common end with the eviction loop.  The loop is
  modelled by how many keys it pops (`Evictions`), not by how many it should:
  when list and map disagree it stops where the code stops.  `shards_span` is
  `SpanStart`, a `SpanStep` per interval, and `SpanReturn`, and everything else
  happens in between.  `Restart(d)` is a start on the same directory with any width.
- **ShardHandles.**  `inst` has the live `Shard` instances, `cached` those in
  the map, `work` what each thread does and which instance it holds, `syncing`
  a running `sync()`.  `rows`, `fts` and `saved` are what is on disk; the vectors of
  an instance (`vec`) are in its memory until `Synced`.  `Settle` drops an instance
  that neither the map nor a call holds, with its directory lock and its unsaved
  vectors.  An add is `AddBegin`, `AddRow` (or `AddDuplicate`), `AddFts`, `AddVec`,
  in the order of `Shard::add`; a batch has the last two in the order of
  `Shard::add_batch`.  `FtsLocked` is the error of the second index writer.
  `DeleteVisit`, `DeleteMiss`, `DeleteRow`, `DeleteFts`, `DeleteVec` follow
  `ShardsManager::delete_by_id` and `Shard::delete`.  What a step does to the map, the list and
  the catalog it takes from the actions of `ShardsCache`.  `Crash` and `Stop` start with any width of
  `Durations`.
- **Observability.**  A `content` stands for a (key, data_text) pair, and
  `Similar` for cosine similarity at the threshold (symmetric, not transitive).
  Each SQL statement is a step, the transaction of `add_batch` is one, and `Classify`
  is one because it holds the lock of the primary cache.  `used` holds the ids
  given out; those in `CallerIds` can be supplied by callers.  A deletion is of an id that is stored, or
  of a generated one that no longer is, or never was since its add failed (`Spent`).  `Reopen` is a start,
  orderly when nobody is at work and a crash otherwise.  `raced`, `deleted`, `cut` and
  `failed` are history: the contents two calls were at work on at once, those somebody
  deleted, those a crash cut off, and those of an add that returned an error.  The properties name them as exceptions, so that they
  speak about all other records in every behaviour.
- **RecordCache.**  A record is its id and its timestamp; the cached document
  carries the timestamp it was read with and its secondaries, which is all the
  properties compare.  Entries have a time to live in ticks.  The stores behind the
  cache are `rows` and `links` and change in one step, since their own steps are
  in the two modules above.  `mixed` has the ids for which a delete met another call, or
  under which a duplicate was cached.
- **IngestPipe.**  `phase` is the progress of `main` through its shutdown, `calls`
  the state of each RPC call, `thread`, `resume` and `batch` the `bds-add` thread:
  `resume` is the place in the code from which `flush` was called.  `log` and `handed`
  are history variables: everything pushed and everything given to `add_batch`.
  `stored` and `dropped` are what `add_batch` did with it.  `Flush` is a call of it that returns, with
  an error or not, `Panic` one that a document of `Blank` unwinds: the lines of a batch are parsed before
  any document is stored, nothing catches the panic, and the thread is `dead` with whatever the channel
  holds.  `AddNow` is `v2/add` with `sync`, which stores the document in the handler.  `IngestLog` sees
  of the thread only whether the path is open, closed or broken (`PathState`).
- **Documents.**  `rows` are the versions of metadata and content in the two tables,
  `vectors` the index in memory and `saved` the one on disk, each with two entries for
  a document as in the code (`<id>:meta`, `<id>:content`).  A call is the sequence of its
  statements (`AddDocument`, `AddFile`, `Revise`, `Delete`, `Reindex` and so on, each
  written in the order of the code), of which one is a step; a reindex takes the listed
  documents in any order.  `ReadRow` puts what it
  has read in front of the rest, so that a value read before another thread's update is
  embedded after it.  `Fail` ends a call at any statement, `Restart` goes back to
  `saved`.  `fate` says how the last call about a document ended; `kept` has the documents
  synced since; a document that two calls were busy with at once is `broken` afterwards,
  until a later call about it alone.
- **Chunking.**  A text is the sequence of positions where its atoms end, which is all the
  loop looks at.  The variables are the loop's; `Extend`, `Emit`, `Keep` and `Slide` are one
  round of its three inner parts.
- **Templates.**  `clusters` are those of the tree, in the order of their numbers, with the
  leaf they hang on: of the token path only the first token is kept, since the depth is
  fixed and a full node sends new tokens to one bucket.  `lock` is the mutex of the parser,
  held over all documents of a call, `map` is `drain_cluster_map` with its own mutex.  A call
  is `Begin`, a `Parse` per document, `InsertMappings`, then `Observe` and `Store` in the
  order of `add`, or the other way round as in `add_batch`.  `ParseAs` is
  `parse_json_with_callback` with the callback that stores the template, which may
  fail before or after the document is stored.  `Panic` unwinds the call and
  poisons the lock; `Restart` and `Seed` are `drain_load`, which goes through the shards in order of time, and
  through the documents of a shard in an order its statement leaves open (`Listings`).  `seen` is
  `matched_cluster_ids`; the document it keeps with each cluster serves only the history `reported`.
- **Scripts.**  `meta` and `body` are the two rows of a script, `editor` a call that
  writes them one after the other (`EditRow`) and may fail at either (`FailEdit`), `tick` the scheduler task (`asleep`, `listing`, `firing`),
  `jobs` the channel, `worker` the pool, `created_at` and `values` the result queues.  A
  schedule is the set of minutes it is due in.  `Elapse` is the clock: the sweeper is on time,
  the scheduler and everything else may be late by any amount.  There is one clock for the sleep and
  the minutes.  `Restart` is the end of the process at any place and its next start, with the rows as they
  were.  Of the history, `torn` has the scripts edited since the scheduler listed them, `apart` those whose last
  edit overlapped another or was cut between its statements.
- **Contexts.**  `entries` is the registry, a VM has the name of the call that created it, `holder`
  is its write lock.  `get` is one step (the lock of the registry), `Acquire` and `Finish`
  are the evaluation under the lock of the VM.

The other modules are small: an `MC` module gives values that a `.cfg`
cannot write, and declares the constants of the instance.

**Slip operators.**  An operator whose name begins with `Slip` is a wrong variant
of the operator after it, with the kind of mistake a change of the code could make:
a dropped guard, an index written before its row, a queue that is not
reset.  No action uses them.  Put in that operator's place, each makes the property
named beside it in `PROJECT.json` ("mutants") fail, which shows that the
property depends on that code.

## 3. Runs

`tlc -config <cfg> <module>`, in this directory.

| Run | Instance | Shows |
|---|---|---|
| `widths` | six instants of half a second, widths of 2 s and 3 s, two open shards, one `shards_span` caller | the cache is bounded, the list reaches every open shard, every open shard is registered, across changes of the width; and while the catalog has one width only: the shard just used is not evicted, shards are disjoint, routing is stable, spans are complete |
| `roomy` | two workers, one record in each of two shards, adds, batches, deletions and searches, no eviction, orderly stops, a sync at any time | acknowledged records are found by text and vector; deleted ones are not |
| `evicted` | two workers, two records in one shard and one in another, a cache of one shard, batches, a sync at any time, `close`, crashes | indexes never run ahead of rows; what a search by vector finds stays found through evictions and reopenings |
| `dedup` | two threads, three contents of which two are similar, batches of two, deletions also of ids that are gone, restarts, one crash | no two similar primaries; every record reachable; a pair stored once and logged only while it is stored |
| `records` | two threads, two ids of which one is supplied again, two timestamps, one entry, a tick to live, fairness | never over capacity; what is cached is current; a deleted record fades although a racing search puts it back; secondaries show up in the end |
| `ingest` | two clients, three documents of which one is unsound and one is a blank line, queued and synchronous adds, a channel of one place, batches of two, a shutdown at any time, fairness | conservation, order, every accepted document stored or in a failed `add_batch` as long as the thread lives, batches flushed, shutdown ends whether it lives or not, the refinement to `IngestLog` |
| `documents` | two threads, two documents (or a file and its chunk), two versions, four calls or restarts, failures | what was embedded is found, what was deleted is gone, with a sync in between after restarts too; a file's record lists chunks that exist |
| `chunks` | every text of up to four atoms of up to four characters, chunk sizes up to 3, overlaps up to the chunk size | chunks cover the text, in order; they and their overlaps are bounded |
| `templates` | two threads, two calls of up to two documents, five lines of which one is blank, full nodes, and one failure, deletion or restart | a recent line has a recent template; a cluster is mapped to the document of its template; a parsed line stays known |
| `blank` | as `templates`, without the extras | **fails**: a blank line costs the documents of its call (section 6) |
| `scripts` | one script, one editor whose statements may fail, one queued job, two workers that may die, a sweep each second, minutes of two, restarts at any time | at most once a minute; the body goes with the schedule; results last; jobs are taken |
| `contexts` | three calls, two contexts, a time to live of two, a scan each second, shutdown | calls of one context exclude each other; sessions last |

Bounds and why they are enough.

- `widths`: the instants 0, 1, 3, 4, 6 and 8 (half seconds) reach three intervals of the one width and two of
  the other, with a limit of two: so eviction happens, and an interval of one width
  overlaps two of the other.  `MaxList` bounds the LRU list at 4 by a
  constraint, because it may grow for ever when widths are mixed (section 6); two
  more than the limit is where list and map can first disagree.
- `roomy`, `evicted`: two workers are two operations that overlap;
  three would queue at the same locks.  `Instances` bounds the live `Shard`
  instances.  In `roomy`, without eviction, two are alive at most.  In `evicted` three are: one in the map
  and two that were evicted under a call or a sync, so that a call can work on an instance
  that a sync holds too, and a third one of the same shard is in the map; behaviours with a fourth are cut.
  Two records of one shard are one that was found before and one that is
  being added to another instance.  The batch stores vectors before the full text, so that
  these do not wait for the index writer.  `evicted` has one width, for which
  `VectorsStayFound` is stated; `IndexedHaveRows` is proved for changing ones too (section 4).
  Workers, and records of one shard, are symmetric, since no property and no `CHOOSE` tells them apart.
- `dedup`: three records for three contents: two that are similar, and one that
  is like neither, so that a batch can have a primary, a secondary and a duplicate.  One
  crash in a behaviour, since `cut` would otherwise excuse everything.  `MaxLog`
  saturates the length of a dedup log: longer logs are not told apart.
- `records`: two ids are a primary and its secondary, or two records that
  compete for the one entry; `Ttl` of one tick is enough for "live" and "expired".
- `ingest`: `MaxLog` bounds the documents ever pushed at 6, a refused
  batch and its retry included, by not starting a call that could exceed it.  A batch
  of two fills, half-fills and straddles two calls.
- `documents`: two versions tell an old value from a new one.  `MaxCalls` of four lets
  an add, an update, a reindex that meets it, and a sync or restart follow each other; a file
  takes both documents.  `MaxChunks` is one, which with the record is two documents.
- `chunks`: with four atoms a window slides twice; lengths reach one more than the chunk size,
  as a cut word may.  The proofs cover all texts.
- `templates`: one child per node is the full node; of the lines `a b`, `f b`, `f e`, `g e` the
  first takes the node's one place and the others share the bucket, where the third may join
  either neighbour.  Shards are one tick wide, time has two instants, so that a document can
  be backdated into another shard; both windows are the current tick.  `MaxEvents` is one failure, deletion or
  restart.
- `scripts`: times run from 1 to 5 with minutes of 2 and the first wake-up at 3, so that there are
  two ticks: the second is the one that could fall in the minute of the first.
  Sweeps and the time to live are a second each.
  `Interval` is a minute, which is the default.  Nothing in the code keeps it from being
  shorter, and then a script does run several times a minute; the assumption
  `Interval >= Minute` says so.  Schedules are every minute and every odd
  one, so that an update changes whether a script is due.  `MaxEdits` counts editor
  calls: an add and an update or a deletion, of which a failure or a restart may cut either.
- `contexts`: three calls are a holder, one that waits or finds a new VM, and one
  that keeps the context in use; `MaxTime` lets the time to live pass three times.

Deadlock is checked in `widths`, `roomy`, `evicted` and `dedup`.  In the others the system stops where
the bounds do, or because it is done: the ids are used up (`records`), the node is down (`ingest`),
the text is split (`chunks`), calls and times have run out (`documents`, `templates`, `blank`, `scripts`, `contexts`).

**Fairness.**  `RecordCache`: a call goes on once begun (`Proceed`; threads are
scheduled), time passes (`Tick`), and the cleanup thread of the cache wakes up at its
interval (`Sweep`).  New calls are not fair.  `IngestPipe`: running RPC
calls (`Answer`; `send_many` never blocks), the `bds-add` thread (`Add`; its
`select!` has a timeout, so that it cannot sleep for ever; once it is dead nothing of it is enabled, and
`AcceptedGetStored` says so), and `main` once the signal
has come (`Shutdown`).  Neither the signal nor clients nor retries are fair.
`Scripts`: some idle worker takes a job (a thread that waits in `recv` wakes up); nothing says that
an evaluation ends, and `JobsAreTaken` has that as its premise.  All weak:
each of these is continuously enabled until it is done.

## 4. Proofs

`tlapm <module>`.

- **`ShardHandlesProofs`** has the proofs about `TimeRange`, `ShardsCache` and `ShardHandles`, of
  which each extends the one before.

  *Intervals* (from `SecAssumption`).  `AlignCovers`: an instant lies in
  the interval it is aligned to, for every width of at least a second.  `AlignTiles`: for
  widths of whole seconds, two intervals are equal or disjoint.  `AlignUnique`: an aligned interval that covers an instant is the instant's.
  The argument writes an aligned start as a multiple of the width (`AlignedStart`).
  `CalendarRangesNest`: a minute range lies in its hour and an hour in its day, for every
  count of minutes the code admits: the larger length is a multiple of the smaller
  one, and rounding down to a multiple of `k * q` never passes one of `q` (`FloorsNest`).

  *Cache and catalog* (from `CacheAssumption` and `WholeWidths`: the widths are whole seconds, any
  number of them, and each restart may choose another).  All safety properties of the run `widths`, for every
  set of instants, every limit and any number of callers: `CacheStaysBounded`, `OpenStaysEvictable`,
  `OpenStaysRegistered`, `UsedStaysOpen`, `ShardsStayDisjoint`, `SpanIsExact`, `RoutingIsStable`.  None of them is
  inductive.  There are two invariants.  `WidthInv` holds at all times: every
  catalog row is an aligned interval of some width, open shards are rows, and every open shard is in the LRU list, which may
  have a key twice and keys that are not open; that is enough for the eviction loop, which stops at the
  limit or at the end of the list.  `AllInv` holds while all rows have the configured width
  (`SameWidth`): then the aligned key, the catalog row and the directory name of a shard are the same thing
  (`catalog \subseteq Slots(duration)`), the LRU list has
  exactly the open shards, each once (`ListExact`), and a running `shards_span` has the intervals up to its
  cursor (`SpanInv`).  A step can make `SameWidth` true only by a restart, which
  empties the cache.  `OneWidth` says that it always holds where the width is configured once.

  *Operations on shards* (from `HandleAssumption` too).
  `RowsComeFirst`: `IndexedHaveRows` for every set of widths, which every restart may
  choose from.  The invariant is that an instance that nobody holds is empty and
  an index writer is taken only by an instance whose directory has none (`InstInv`); what an index
  of a shard has, or a running add is about to put there, has its row as long as nothing has been deleted
  (`StoredInv`); a deletion visits shards of the catalog only (`TodoInv`).  Steps are grouped by what they do to the instances
  (open one, let one go, fill one), so that each group is argued once.

  `FoundStays`: `VectorsStayFound` for one width (`SingleWidth(d)`), and any workers, records, instances and limit,
  with `close`, sync, orderly stops, crashes and deletions.  What has to be known is `KeptInv`: the map has
  one instance for every open shard (`MapInv`, which needs that list and map agree, and therefore one
  width), an instance has vectors of its own shard only (`OwnKeys`), and a deletion that is
  at work on the stores is of a record that is marked as deleted (`Deleting`).  Then an instance that leaves
  the map writes what a search found in it, and the next instance reads that, unless a sync comes in
  between with an earlier instance of the shard: `StaleSync`.

  `AddedIsFound` and `RemovedIsGone`: `AckedIsFound` and `DeletedIsGone` under `Roomy`, which are the conditions of the run
  `roomy` for any numbers: one width, room for every shard, no `close` or crash, and no deletion of a
  record whose add is still running.  Outside them the properties are false (section 6).  `HandlesInv`: every handle is that of a
  cached instance, so no vector is lost with a clone; `HomeInv`: a record is only ever in the
  shard of its timestamp; `RecordInv` says for each record which statement of which running call
  still owes an index what the rows have, or has still to take it away.
- **`ObservabilityProofs`** (from `ObservabilityAssumption`; `PrimariesDiffer` and `RecordsStayReachable` also from
  `CallerIds = {}`: ids are generated).  For any threads, batches, contents and symmetric similarity,
  through deletions, restarts and a crash.

  `PrimariesDiffer`: what makes `NoSimilarPrimaries` true is not visible in the rows: every
  stored primary is among the entries that `Classify` compares with (`PrimariesKept`), and those
  are free of similar pairs (`JudgedInv`), because the lock covers the comparison and the insertion of the new entries.
  A restart replaces the entries by the table, so `PrimariesKept` also says that
  the embedding is stored or that its call is still at work, which is where `cut` comes
  from.  `OwnIds` and `NotYetStored` say that nobody else stores or deletes an embedding
  under the id of a running add; they are false if callers supply ids, and then a stored primary can be without its embedding.

  `PairsStoredOnce` and `LogsAreAboutRows`, with ids of callers too: `Meet` puts into `raced` what two calls are at work on
  at once; `NewInv`: what a call that nobody races has found to be new is still new
  when it inserts, and what it has found to be a duplicate is still stored or among its own new
  records; `LogInv`: a log is of a content that has its row, or will have, or whose log is about to go.  That the
  first of several equal documents in a batch is the one counted as new needs a least index (`WFMin`).

  `RecordsStayReachable`: `CacheBacked` says that a cache entry is a primary that is stored, will be, or was
  deleted or cut off, although deletions do not tell the cache; `VerdictInv` that what a record is about to be
  linked to is such an entry; `RowsFindable` is the property while calls are at work.
  A deletion may be of an id that is not stored: `Void` says that it meets no add, so that it takes
  nothing from one; and an add whose link is rejected would leave its row without one: `Unlinked` says
  that with generated ids no link is taken before its own add.
- **`RecordCacheProofs`** (from `RecordCacheAssumption`).  `CacheStaysInBounds`: by cardinalities, an insert takes an
  entry away first or finds room.  `EntriesStayCurrent`: an entry and what a thread is about to cache agree with
  the row (`EntryInv`, `WorkInv`), because a row is not replaced under its id, and a delete that meets nobody
  (`DeletesAlone`) has removed the entry before the row.
- **`IngestPipeProofs`** (from `IngestPipeAssumption`), for any documents, clients, capacity and batch
  size, and wherever a blank line kills the thread.  `IngestSafety`: queue bounds, conservation and order; a thread that
  has stopped left nothing behind, and one that died was handed a blank line and holds no batch.
  `AcceptedSurvive`: when the node is down, every accepted document is stored or was dropped by an
  `add_batch` that failed; or a blank line was handed over, and the others are in the channel.
  `IngestImplementsLog`: the refinement; `Panic` is a `Hand` of a batch with a blank line that breaks the path.
  The strengthening relates the three
  actors: no handler is sending once `main` has begun to drain
  (`QuietWhenDraining`), the thread drains only then (`DrainsWhenTold`), and a
  thread that is about to stop has seen the channel empty (`ChannelDrained`); so nothing
  can be pushed behind its back.  `DeadOfBlank` is the one cause of its death.  `Tracked` follows a document from
  call to store: accepted, it was pushed or stored by its handler; handed over, it was stored or dropped.
- **`ScriptsProofs`** (from `ScriptsAssumption`: a refire interval of at least a minute, times
  to live within the horizon).  `FiredOnce`, `BodyFits` and `ResultsStay`, for any scripts,
  workers, editors and horizon.  Each has an invariant of its own.  `OnceInv`: no
  minute that has fired reaches the minute of the next wake-up, which is what a sleep of at least a minute gives.
  `BodyInv`: the rows of a script fit unless a call is between the two, or calls left them `apart`; a call that
  had its script to itself from its first statement to its last (`alone`) brings them together again.
  `ResultInv`: a queue was created by its first push, and the next sweep comes within an interval.
- **`ContextsProofs`** (from `ContextsAssumption`).  `CallsExclude`: `Serialised`, for any calls,
  contexts, times and time to live.  By itself it is not inductive: that two calls of one context have
  different VMs has to be traced to an eviction.  `EvictedInv` says that a call whose VM
  the registry no longer has is one that was old when it was evicted, while the registry is open; `ApartInv` says of two calls
  with different VMs of one context that one of them is old; `LockInv` gives a VM
  one holder.  `StateLasts`: `SessionsLast`.  `RecentInv`: the registry has the VM the context was last given, unless that
  was longer ago than the time to live; so two gets that are kept up (`KeptUp`) got the same VM (`SameInv`),
  and of two calls on one VM the later finds the earlier one (`SeenInv`), since they hold its lock in turn.
- **`DocumentsProofs`** (from `DocumentsAssumption`; there are finitely many ids, so that a reindex
  lists finitely many documents).  `WhatWasEmbeddedIsFound`, `WhatWasDeletedIsGone` and `FilesHaveTheirChunks`, for any
  documents, versions, threads and sizes of files.  The three properties say nothing of a running call;
  the invariant is about what is left of it.  `EndsEmbedded` says of a sequence of statements
  that, from the present rows and vectors on, it ends with the entry embedded as it is stored then: it is so already
  and no statement is left about it, or a statement embeds what was or will be written, or one reads what will be there.
  `EndsDeleted` is the like for deletions, and `OutcomeInv` has them for every call that is
  alone with its document.  `EmbedStep` and `DeleteStep` say that carrying out the
  first statement keeps them; they hold for any sequence, so that each of the calls has only to be shown to begin with
  such a sequence (`Sound`: `AddIsSound`, `FileIsSound`, `ReindexIsSound` and so on).  A reindex reads contents
  that may not be there, and then leaves an entry alone; `ContentInv` says that there is no vector of such a content
  either, which needs that deletions drop the metadata first (`DropInv`), that metadata are stored once
  (`StoreInv`) and that ids are not used again (`BusyInv`).  `ChunkInv` says of a running ingest that the
  chunks of its record are stored or come before it.

  The same module proves `CoversText` and `BoundsChunks` of `Chunking` (from `InputsAssumption`: atoms are not
  empty, the chunk size is not zero), for texts of any length, every chunk size and every overlap.  `WindowInv` says that
  the window is where it should be (`win_len` is its length, the atoms up to `overlap_end` are old and fit the
  overlap, those after it are new and either fit or are one), `LastInv` relates it to the last chunk
  emitted; together with the two properties they are inductive.

- **`TemplatesProofs`** (from `TemplatesAssumption`; lines are sequences).  `LinesKeepTheirClusters`, `MapNamesTemplates` and
  `LinesStayReported`, for any lines, children of a node, threads, batches, widths and windows, through failures,
  panics, deletions and restarts.

  `KnownInv` says more than that a parsed line has a match: its cluster covers it and hangs on the leaf the line goes to.
  The leaf stays (`LeafStays`), since either the place of the first token or the bucket of a full node is there; and
  a line that joins leaves the others similar enough (`GeneralisedIsSimilar`), since the tokens that it shares
  with the template, which are not masked, are those that the template shares with every line it covers.  With masked tokens in
  lines this is false: `a b` and `<*> b` make the template `<*> b`, which `<*> c` joins by its masked token, and then
  `a b` has nothing in common with `<*> <*>`.

  `MapInv` says of a cluster that the map is current or that exactly one thread has a mapping for it, whose latest
  document has the template (`WillMap`); a second thread makes the cluster `troubled`.  `SeenInv` follows a matched
  line from the cluster to the document that the map will name when the call is observed, although others may have
  generalised the cluster since; and `ReportedInv` keeps that document with an observation in the shard of the line.

Model-checked only: every liveness property (`DeletedFades`, `SecondariesShowUp`, `AcceptedGetStored`,
`ShutdownEnds`, `JobsAreTaken`), which the prover does not treat.

## 5. What the models leave out

- DuckDB, Tantivy, VecStore, the ONNX model and the JSON-RPC server are not under
  `src/src`.  A committed statement is durable and atomic; concurrent statements do
  not fail with conflicts; two instances on one DuckDB file see the same rows (they
  are in one process).  The index writer is exclusive per directory.  The RPC
  server's `stopped()` waits for the calls that run.
- Ranking, MMR, aggregation, n-grams, TextRank and other analysis: they read and
  compute in floating point.
- Grouping of a batch by shard in `ShardsManager::add_batch`: a failing shard appears
  as the documents of the batch that are not kept.
- `delete_by_key`, which is a loop of `delete_by_id` and one more statement.
- In `Documents`: searches and getters, which change nothing; the caller's own metadata.
  In `Chunking`: `build_atoms`, which works on characters (section 6 names what can be seen
  in it).  In `Templates`: documents without a timestamp; masking of tokens by pattern;
  `tpl_reindex`, snapshots and template searches.  In `Scripts`: cron syntax, `script` results
  other than their number, the table of running jobs and the ring of recent ones, which are
  only shown.  In `Contexts`: what a script does, and the ephemeral VMs, which no two calls share.
- Panics other than that of the Drain parser (in `Templates` and `IngestPipe`) and of a script; a wall clock that is
  set while the scheduler sleeps, which may put two ticks into one minute; in `Observability`, the deletion of an id of a
  caller's that is not stored; failures of disks; the
  catalog row and the directory of a new
  shard are one step (a directory without a row is opened again under its name).
- The components marked `not_modelled` in `PROJECT.json`: statistics and text
  analysis, clients, parsers, generators and the bindings to libraries, where there is no state
  that two steps share, so that a model would repeat the code; and the file ingest threads,
  which are planned (section 7).

## 6. Where the code and its documentation disagree

One is a run, quoted in full under "findings" in `PROJECT.json`:

- `blank`: a line of white space only makes the Drain parser panic while its lock is
  held.  The documents of the call are not stored, although `add` promises that Drain errors
  cost no document, and nothing is mined any more until the next start.  In `bdsnode` the thread that
  stores batches ends with the panic; `ingest` has what becomes of the documents it was to store.

The others can be seen by changing a constant or a property of a run:

| Change | Fails | Behaviour |
|---|---|---|
| `roomy` with `Events = {"sync", "crash"}` | `AckedIsFound` | vectors are in memory until the next `sync`, nothing rebuilds them, and adding the record again is a duplicate that indexes nothing (`DATABASE.md:644` and 636-637: an unclean shutdown loses nothing, vectors are durable) |
| `roomy` with `Events = {"sync", "close"}` | `AckedIsFound` | a vector stored through a clone after `close` (or eviction) is never saved (`SHARDSCACHE.md:221`: "no data loss") |
| `evicted` with `VectorsStayFound` without `StaleSync` | `VectorsStayFound` | a sync has taken its clones, the shard is evicted, opened again, gets a record and is closed: then the sync writes the older instance, and the record is not found by vector any more (`shardscache.rs:236-247`, `vectorengine.rs:260-264`; `SHARDSCACHE.md:221` again) |
| `roomy` with `"delete_busy"` in place of `"delete"` and `"search"` | `DeletedIsGone` | deleting, by the id a duplicate returned, a record whose first add is still running leaves its index entries (`SHARD.md:392`) |
| `widths` with `JustUsedIsOpen` without `SameWidth` | `JustUsedIsOpen` | after a change of width the cache misses every time, inserts a key that is already there and lists it again; popping the older copy evicts the shard just used, and the list grows (`shardscache.rs:48-49`: "the least-recently-used shard is synced and evicted") |
| `dedup` with `Ids = {r1, r2}`, `CallerIds = {r1}`, without `SYMMETRY` | `RecordsAreReachable` | a batch's primaries enter the cache before the transaction, which an id in use makes fail; later records are linked to records that do not exist |
| `dedup` with `StoredOnce` without `raced` | `StoredOnce` | both SELECTs come before either INSERT: a pair is stored twice (`OBSERVABILITYENGINE.md:108`) |
| `dedup` with `LoggedIsStored` without `cut` | `LoggedIsStored` | a crash inside `delete_by_id` leaves the log |
| `dedup` with `LoggedIsStored` without `failed`, five ids and batches of three | `LoggedIsStored` | a batch logs its own repetitions before it stores anything; when it then fails the log stays, about no record |
| `dedup` with `RecordsAreReachable` without `deleted` | `RecordsAreReachable` | a deleted primary stays in the cache, and a similar record is linked to it (`OBSERVABILITYENGINE.md:110`) |
| `records` with `EntriesAreCurrent` without `mixed` | `EntriesAreCurrent` | a duplicate is cached under the first record's id with its own timestamp, so that an id has two entries (`cache_json.rs:261-262`); a search that read the old record caches it after the update |
| `ingest` with `AcceptedAreStored` without its second disjunct | `AcceptedAreStored` | a blank line ends `bds-add`; documents are accepted until the channel is full, `main` logs the result of the join (`add.rs:75-77`), and the node goes down with them in the channel (`add.rs:88-89`: "ensuring no data is lost on server shutdown") |
| `ingest` with `AcceptedAreStored` as `accepted \ Bad \subseteq stored` | `AcceptedAreStored` | one document without a timestamp fails the batch it is in, other clients' documents included (`add.rs:88-89`) |
| `documents` with `kept` dropped from `EmbeddedIsFound` | `EmbeddedIsFound` | `v2/doc.add` saves no index, and neither does an orderly stop, whose `sync_db` goes through the shards only (`globals.rs:47-49`); after a restart the document is not found (the notes of `v2_doc_reindex.md`: "`v2/doc.add` and `v2/doc.add.file` both embed and flush the index atomically before returning") |
| `documents` with `kept` and `mixed` ignored in `End` | `DeletedIsGone` | a reindex or re-embedding that had listed the document embeds it again after its deletion; and without a sync a restart brings its vectors back (`v2_doc_delete.md`: "no longer returned by" any search) |
| `chunks` with `ChunksAreBounded` without its last disjunct | `ChunksAreBounded` | the overlap and one long atom together exceed `max_chars` (`documentstorage.rs:679-680`: chunks "do not exceed `max_chars` characters each") |
| `templates` with `LinesAreReported` for documents of several shards in one call | `LinesAreReported` | the observations of a batch go to its first shard, at the present time (`shardsmanager_tplstorage.rs:25-28`, 342-344 and 360-362: "always written to the current-time shard") |
| `scripts` with `mixed` in `FireScript` without `apart` | `BodyGoesWithSchedule` | `update_script` returns between its two statements, or the process ends there: the old body runs at the new schedule until somebody edits the script again (`shardsmanager_scripts.rs:130-131`; line 114: "Replace both metadata and body") |
| `contexts` with `Serialised` without its conclusion | `Serialised` | a VM is evicted while a call runs on it, and the next call of that name runs beside it on a new one (`v2_eval.md:62`: "concurrent requests to the same context name are serialised") |
| `contexts` with `SessionsLast` without the condition on times | `SessionsLast` | the state of a context goes with its eviction (`v2_eval.md:61`: it "persists for the lifetime of the `bdsnode` process") |

By arithmetic: a shard width of 1.5 s is floored to whole seconds but added in full, so that intervals overlap
(`timerange.rs:70-71` says they do not); `AlignTiles` asks for whole seconds.

Seen in the code, with no property yet:

- an add whose full-text call finds the index
  writer held by an evicted instance fails after its row is committed, and later
  adds of the record are duplicates that index nothing (`FtsLocked` in the model);
- an entry that `add` cached has no secondaries, and one that a search cached has those of that
  time (`SHARDSMANAGER.md:286`: every secondary); each duplicate submission hides them again until the entry expires;
- a full JSON cache evicts an entry at random, where `v2_status.md` and
  `DATABASE.md` say LRU;
- `select!` starts its timeout anew with every document, so
  that a trickle delays a batch beyond the "~500ms worst case" of `add.rs:11-12`;
- `OBSERVABILITYENGINE.md:466` says that two threads may both store similar records as
  primaries, `DATABASE.md:599-602` that they may not; the code does what the
  second says (`NoSimilarPrimaries`);
- `build_atoms`: `word_split` drops the space between two pieces and paragraphs lose their
  trailing white space, so that concatenated atoms can glue words together, where `sentence_split` says that
  "concatenation preserves the original spacing"; lengths are bytes where the documentation says characters, and a
  word cut within `max_chars` bytes keeps all of its last character, up to three more bytes;
- `reindex` never removes an entry of a document that is no longer there;
- a template whose document fails to be stored is not stored later unless it
  changes again, and an embedding failure in `add_batch` loses the batch's documents; a deleted template stays
  in `drain_cluster_map`; `drain_load` seeds the tree with superseded versions too;
- the scheduler sleeps a full interval after each tick, so that a minute can be skipped
  (`BDS_UI.md:770`: a script "runs every minute");
- two concurrent `update_script` calls can leave the metadata of one with the body of the other;
- a worker whose script panics is not replaced.

## 7. Plan

Done: the modules above, in the order of the table in section 2; with proofs
of every safety property.

Next, most important first:

1. An abstract specification of a document store that `Documents` implements while no two
   calls are busy with one document, and its refinement as a theorem: `OutcomeInv` is most of it.
2. An abstract map from (key, data) to records that `Observability` implements while nobody races.
3. The file ingest threads, as further consumers under the same shutdown; a clock for the
   batch timer.
4. `add_batch` of the manager across shards, composed of `IngestPipe`, `Templates` and `ShardHandles`.
5. `build_atoms` over characters.
