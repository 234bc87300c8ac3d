# RichGraph in TLA+

A verification development kept beside RichGraph (`src/`): TLA+ models of its
concurrent and crash-prone parts, TLC runs on small instances, and TLAPS proofs
for every size.

## The system

Paths are those of the repository's root. RichGraph is an LSM/CSR graph store.
Clients call `GraphDb`; each shard is an `LSMStore`.

| part | code | what it does |
|---|---|---|
| GraphDb | `src/graph_db.cpp` | schema, shards, routes an update to its property group |
| update manager | `src/property_update_manager.cpp` | buffers property updates, keeps them readable in a pending map, flushes them on one worker thread |
| delta store | `src/property_delta_store.cpp` | a chain of delta files per property column of a base file; merges chains into columns; recovery |
| delta manifest | `src/property_delta_manifest.cpp` | append-only log of the active delta files |
| delta file | `src/property_delta.cpp` | immutable sorted records with a checksum, made by write, sync and rename; unlinked with the last reader once merged |
| memtables | `src/MemTable.cpp`, `put_edge` in `src/lsmstore.cpp` | slots reserved by atomics, rotation, save to level 0 |
| versions | `src/version_set.cpp`, `src/superversion.cpp` | counted references from readers to memtables and level-0 files |
| compaction | `src/compaction.cpp`, `core/compaction.h` | picks overlapping files, merges them, moves the level index |
| reads | `src/lsmstore.cpp`, `core/neighbors.h`, `core/edge_iterator.h` | memtables, level 0, level index, with pending and delta values on top |
| CSR | `src/lsmstore.cpp:1047-1644` | optional single-level snapshots, rebuilt by a worker |
| schema | `LoadSchemaFromYaml` in `src/graph_db.cpp` | a subset of YAML, read line by line |

An update travels: `UpdateEdge` locates the edge and submits a batch to the
update manager (acknowledged here); the manager's worker hands groups of records
to `AttachPropertyDelta`, which makes a delta file and publishes it in a chain;
the flush of the memtable makes the base durable and `MarkTargetPersistent`
records the chain in the manifest as durable; a chain at the threshold is merged
into the column; a compaction first drains all durable chains, then consumes
columns.

`PROJECT.json` lists every part, with what is not modelled and why.

## Modules

| module | models | proofs |
|---|---|---|
| `PropertyUpdateManager` | the update manager: submitters, rotating buffers, worker, flushers, destructor | `PropertyUpdateManagerLemmas`, `...Proofs`, `...Refinement` |
| `LatestValue` | what the manager promises: a reader finds the last value written, batches are written key by key, one batch after the other | |
| `PropertyDeltaFile` | one delta file: contents, creation step by step, validation, lookup, crash and power loss | `PropertyDeltaFileProofs` |
| `PropertyDeltaStore` | chains of delta files with attachment, memtable flush, merge worker, compaction drain, crash and recovery | |
| `PropertyDeltaManifest` | the manifest file cell by cell: appends, failed and cut writes, the recovering scan | |
| `Adjacency` | the edges of one vertex in a memtable: array, skip list, save, and the search in the file made of it | |
| `LSMStore` | memtables, versions, superversions, flush, level-0 compaction, point reads | |
| `Compaction` | leveled compaction over several vertices: pick, merge, cut, level index, workers | |
| `Shard` | one shard over sessions: recovery, flush jobs, CSR worker, deltas by file id, crashes | |
| `Schema` | the schema parser, and the reading of a schema it is compared with | |
| `GraphDb` | the database over its shards: open, vertices, puts, updates, reads, scans, barriers, close | |
| `MC...` | constants for TLC | |

The modules meet where one takes as given what another shows.
`PropertyDeltaStore` takes the manifest as a set of active entries with the state
of its file behind a failed append, which `PropertyDeltaManifest` shows replaying
the file to give, and a delta file as its
records, which `PropertyDeltaFile` shows a recorded file to be.
`PropertyUpdateManager` takes the delta layer as a set of records that the flush
callback adds to; `PropertyDeltaStore` shows that attached values stay readable.
`LSMStore` takes a table as a sequence of puts (`Adjacency`) and a merge as the
union of its inputs (`Compaction`). `Shard` composes flush, compaction, CSR and
deltas of one shard at the grain of files; `GraphDb` composes shards and the
update manager at the grain of calls.

### PropertyUpdateManager

What a thread does under `mutex_` without waiting is one step. A wait on a
condition variable ends the step (`"wait"`), a notification or a spurious wakeup
makes the thread runnable (`"wake"`), and its next step runs with the mutex. The
publication of a batch is not one step: readers take only the lock of a bucket,
so each `PublishPending` is a step (`"publish"`, with `unpublished` what is left
of the batch) and the mutex stays with the client until the batch is in its
buffer (`SubmitEnd`). A reader can see half a batch. The worker runs
`FlushBuffer` without the mutex: each group it hands to the flush callback, and
each entry it retires from the pending map, is a step.

`mgr` is `buffers_`, `active_buffer_` and `queued_buffers_`; `pending` is the
sharded pending map; `delta` is what the callback has attached; `fatal`, `stop`
and `nextCommit` are the fields of that name. `SubmitBatch`/`SubmitWake` are
`SubmitBatch` up to the commit sequence, with `EnsureActiveBuffer`;
`WorkerTake`, `FlushGroup`, `FlushGroupFails`, `RetirePending`, `FlushDone`,
`FlushFailed`, `WorkerExit` are `WorkerMain`; `FlushAndWait`/`FlushWake` and
`StopWorker` are the calls of those names. A failing callback may have attached
part of its group.

### PropertyDeltaFile

A file is a sequence of cells: the header, a cell per record, a cell per byte of
the values. `Image` is what `Create` writes, `Validates` is `OpenAndValidate`,
`Lookup` has the two binary searches of the code, `ForEachRecord` is what a merge
visits. `Attach`, `Write`, `SyncAndClose`, `Rename`, `SyncDirectory`,
`OpenCreated` and `Record` are the steps of `PropertyDeltaStore::Attach` with
`Create` in it; `CreateFails`, `CreatedIsLeft` and `RecordFails` its error paths;
`Recover` the part of `OpenAndRecover` that opens recorded files, restarts the
generations and removes orphans. A process crash leaves what was written. A power
loss keeps of a file that was not synced a prefix, or the whole with a cell that
reads as zero, may lose a name whose directory was not synced, and without
durability entries of the manifest.

Assumptions: checksums are equal only for equal contents; a cell is lost or kept
as a whole; all files have one target; one attachment runs at a time; recovery is
one step.

### PropertyDeltaStore

`column`, `sst`, `disk`, `manifest`, `log` and `temps` survive a crash; the rest
does not. `log` is the state of the manifest's file: `"sound"`; `"torn"` or
`"whole"` behind a failed append that left a piece of its record or all of it;
`"behind"` or `"refused"` when an append has gone behind such a record, so that
a replay drops it or refuses the file. An append that fails may leave nothing, a
piece or the whole record, for attachments, hand-offs, merges and recovery
alike. The hand-off of a chain and the promotions of recovery append one record
per step. A durable write is a step, so a crash can fall between any two.
`Attach*` is `AttachPropertyDelta` and `Attach`; `Flush*` and `Mark*` the flush
job with `MarkTargetPersistent`; `Worker*` and `Merge*` the merge worker with
`MergeChain` and `MergePropertyDeltaColumn`; `Comp*` the compaction with
`PreparePropertyDeltasForCompaction` and `MergeAllPersistent`; `Recover*` is
`OpenAndRecover`.

Assumptions: a base file has one property column with deltas; an SST is saved in
one step and found again after a crash; a crash is a
process crash, the default `kProcessCrashSafe`, so completed writes stay; one
thread attaches at a time, which is the update manager's worker.

### PropertyDeltaManifest

The file is a sequence of cells, so that a write can be cut in the first field of
the header, between header and payload, or inside the payload, or be complete
with a wrong checksum. `AppendRecord`, `AppendFails` and `CrashInAppend` are
`AppendAdd` and `AppendRemove`; `Open` is `OpenAndRecover`, `OpenMisread` the same
with a failing `pread`.

### Adjacency

`adj` is a `NewEdgeSL`: an array of reserved entries that becomes a skip list when
it is full. A put holds the vertex's lock. Into the array it raises `cnt_` first
and then assigns the entry, where a reader may find what an earlier use of the
arena's entry left (`Leftovers`) or a mixture of both (`Readings`); into the list
it links its node level by level. A
point read or a scan holds nothing and moves one entry per step, so it meets the
conversion, half-linked nodes and the in-place sort of the save. Older files of
the vertex are below. `FindEdge...` are the searches in a saved body, linear below
`BINARY_THRESHOLD_FIND_EDGE` and binary from there on.

### LSMStore

A key is a source vertex with one edge that is put again and again; a read
returns the sequence number of the put it saw. `tables`, `versions` and `files`
carry their reference counts; `Install` is the replacement of the superversion
with every reference it takes and drops. A writer goes through `PutEdge`,
`LoadTable`, `ClaimSlot`, `InsertEdge` and, with the last slot, `NewTable`,
`ResetArena` (the two parts of `MemTable::reset`: from the first on, a writer that
still has the table can claim a slot of it, and the second erases what it put),
`StoreTable`, `PublishTable`. A flush job goes through `FlushSave`, `FlushAdmit`,
`FlushPublish`, `FlushRecycle`, and starts a compaction as its last act or when
it finds level 0 full. `Comp*` are the parts of `BackgroundCompaction`. `GetEdge`
takes the superversion once for the tables and again for the files; `LocateEdge`
keeps one and skips level-0 files below `min_level_0_fid`.

Assumptions: `put_edge`'s publication of the superversion and its enqueueing of
the job are one step; a search of one memtable is one step; `remain_capacity`,
which the code lets go below zero, stays at zero; `compact_pointer_` is a free
choice of the first input; a compaction writes one output file; levels from 2 on,
CSR mode and deletions are left out; `fileMetaCache_[0]`, which points into a
version that may have been retired, is read as that version's list.

### Compaction

A record is a source vertex and a sequence number, a file a sequence of records.
`Pick...` and `SetupOtherInputs` are the choice and growth of the inputs, the
merges take the smallest of two or of many ways, the writer cuts its output at
the size limits and at vertices, `Buffered` is the body buffer, which is written
out when it is full and empty then (`IsClear`), `IndexMoved` is the level index
and `min_level_0_fid`, and `GenSubcompactionBoundaries` the partition among
workers of a merge from level 0, for every way to cut the inputs. The parallel
merge of the levels from 1 on (`compaction.cpp:1666-1775`) is not modelled.

### Shard

The constructor reads `file.info`, takes the files it names and restarts file ids
and sequences; files it does not name stay on disk, and only the delta store
removes its orphans. Flush jobs save, publish and mark deltas persistent; the
compaction drains deltas and publishes; the CSR worker rebuilds and publishes a
snapshot that readers hold; `WaitCSRUpToDate` checks and sleeps in two steps; the
destructor writes `file.info`, which is truncated first. A crash may come at any
step. A session is in LSM or in CSR mode; reads of a CSR session go to its
memtables and the snapshot, never to the levels. The size of a memtable
(`Capacity`) may differ between the modes.

Assumptions: one client thread; a compaction takes any nonempty part of level 0
(what `min_level_0_fid` masks is `Compaction`'s subject); chains stay below the
merge threshold; one file per rebuild batch; a compaction of a recovered level-1
file, whose index was not rebuilt, ends the process, as the code's missing index
makes it do.

### Schema and GraphDb

`LoadSchemaFromYaml` is a fold over classified lines; the conversions are tables
from texts to results. `OpenFromYaml` validates options, makes shards and routes
and recovers the sequence. A call into a shard is one step, a call over several
shards one step per shard. A shard's records are in tables and files with their
ids, and a delta is looked up by the id of the table or file it was attached to.
The flush job publishes a table as a file in one step (`SaveTable`) and marks its
deltas persistent in the next (`MarkTable`); a compaction consumes persistent
deltas only. The manager is its buffer, the part taken for a flush,
and the pending map; `AttachPropertyDelta` fails, and the manager with it, when
the edge has been put again since the update (`lsmstore.cpp:782`).

Assumptions: one destination per source; one writer and one reader; a node is put
once, edges again; the manager's buffers are never full and chains stay below the
merge threshold; a loader does not use a number twice within a shard; property
updates are enabled; numbers are within 32 bits; the level-0 files of a shard are
compacted together, so nothing is masked by `min_level_0_fid`; no crash and no I/O
error at this level.

## Runs

Each run asks one question; `PROJECT.json` names its properties, and for every
property of a passing run a mutated definition that breaks it.

| run | what it shows |
|---|---|
| `update_manager` | An acknowledged update stays visible (`UpdateVisible`), a pending value never hides a newer record (`PendingIsNewest`), buffers are flushed in commit order, the manager implements `LatestValue`, and blocked calls return. |
| `flush_barrier` | *Violation.* Two submitters woken together activate a buffer each; the first one's is then neither `active_buffer_` nor queued, and is never flushed, not by a `FlushAndWait` that returns true and not by the destructor. |
| `delta_file` | What can be read of a delta file is what its batch says, for every key and read sequence (`FilesAnswer`); a store refuses to start only behind a failed append or a power loss without durability (`RefusedOnlyWhenAllowed`). |
| `delta_store` | Acknowledged values stay readable and never go back, through merges, failures, compaction, crash and recovery; a file that recovery needs is there, but behind an append that failed with its record whole in the file; what a compaction reads of a drained chain has been merged; a chain at the threshold is merged, and a compaction gives its lock back. |
| `manifest` | The file always replays to the acknowledged edits, with or without one unfinished edit; only an append behind a failed one makes the file unreadable. |
| `adjacency` | The skip list is sound at every store to it; point reads and scans that meet no conversion, no sort and no entry that is being assigned miss nothing that was there when they began; the file answers with the newest entry for every destination and direction. |
| `lsm_store` | No acknowledged edge is lost but to the reset of a table that a late writer was in; a read finds what was reachable when it began, or throws because a compaction has deleted the level-1 file it had looked up; what a superversion refers to outlives it and is not emptied; a waiting writer is not stranded. |
| `compaction` | Levels stay sorted and disjoint, no record is met twice, and none is dropped but with a file that was never ended; what is above is newer, and workers share no vertex. A TODO at `compaction.cpp:1416-1420` fears that ranges of workers overlap, with files cut each on its own; the code cuts all files at common boundaries, and in the instance no two workers share a vertex. |
| `compaction_masked` | *Violation.* `min_level_0_fid` of a vertex that came from level 1 only is raised too, and masks a level-0 file that was not merged, for `LocateEdge` and for scans. (`GetEdge`, `lsmstore.cpp:2485-2490`, masks nothing.) |
| `shard` | What a clean close saved, or was put since, is found in an LSM session, also what was put in CSR sessions; ids and sequences are not given twice; updates are in effect in LSM sessions, but for a compaction that overtakes the mark of their deltas, and, without a crash, stay with the record they were made for; `WaitCSRUpToDate` is a barrier for every file that has its index and every flush job; snapshots keep their files. |
| `shard_wait` | *Violation.* The end of the last flush job can fall between the waiter's check and its sleep, which nobody ends then. |
| `graph_db` | Every schema of a few lines is read as it spells out or refused, and opened with its names, columns, lengths and routes; reads do not go back behind an acknowledged update, with the three exceptions below; they find every put that had returned, and sequences stay ahead. |

### Configurations beside the runs

These are not runs of `PROJECT.json`. Each of the first table checks one property
that TLC finds violated, and documents what the code does.

| configuration, module | property | what TLC shows | narrows |
|---|---|---|---|
| `GraphDbRebased.cfg`, `MCGraphDb` | `ReaderObservesUpdate` | The pending key has no base version. An edge is put, updated, put again and updated again while a read that located the first version is on its way: the second update displaces the first, which is then in no layer. `property_update_manager.h:50-51` says "A reader therefore observes the update in at least one layer throughout the hand-off." | `ReadsAreRecent` |
| `DeltaStoreMissingFile.cfg`, `MCPropertyDeltaStore` | `FailedAttachRecovers` | `fdatasync` fails behind the whole record of an attachment: its file is unlinked, its entry stays, and the store does not open again. | `ManifestFilesExist`, `AckedIsRead` |
| `DeltaStoreStaleBase.cfg`, `MCPropertyDeltaStore` | `CompactionSeesNewest` | An SST that is published but not yet marked persistent is compacted without its deltas. `property_delta_store.h:122-124` says "so a compaction never consumes a stale base file". | `DrainedInputsAreMerged` |
| `ShardUpdates.cfg`, `MCShard` | `EveryUpdateInEffect` | The same in a shard: with two flush jobs the compaction of the one overtakes the mark of the other. | `UpdatesInEffect`, `ReadsAreRecent` |
| `DeltaStoreTemporary.cfg`, `MCPropertyDeltaStore` | `NoMergeError` | The temporary of a merge cut by a crash makes the merge after recovery fail. | |
| `LSMStoreLateWriter.cfg`, `MCLSMStore` | `EveryPutKept` | A writer that loaded `memTable_` long ago claims a slot of the recycled table between the two parts of its reset: the second part erases the acknowledged edge. | `NothingLost` |
| `LSMStoreDeletedFile.cfg`, `MCLSMStore` | `ReadsNeverFail` | A read has copied the level index; a compaction deletes the file before it is opened. | `ReadsFind` |
| `LSMStoreThreeTables.cfg`, `MCLSMStore` | `ReadersKeepWhatTheyHold` | With three memtables (the default is two) a table can be flushed before it enters the superversion; its count is one short from then on. | the bound of two tables |
| `LSMStoreNewest.cfg`, `MCLSMStore` | `ReadsNewest` | Memtables are searched oldest first. | `ReadsFind` |
| `CompactionClear.cfg`, `MCCompaction` | `EveryRecordKept` | The last record of a merge fills the body buffer; the writer passes for empty, its file gets neither header nor index, and the inputs are retired. | `RecordsKept` |
| `AdjacencyReads.cfg`, `MCAdjacency` | `ReadsSeeEdges` | A read that meets the conversion of the array misses entries. | `UndisturbedGet`, `UndisturbedScan` |
| `ShardOldFiles.cfg`, `MCShard` | `OldFilesAreRebuilt` | A session in CSR mode is opened on level-1 files. Their indexes are dropped at recovery (`lsmstore.cpp:554`) and the rebuild skips a file without one (`:1240`), so their records are in no snapshot, although the comment at `:1216` counts them among the inputs of the rebuild. | `WaitIsABarrier`, `KeptIsFound` |
| `ShardStuck.cfg`, `MCShard` | `CompactionPrepares` | An edge put again after its update leaves a delta that no merge accepts; compactions are refused from then on. | |

`DeltaStoreWide.cfg` (threshold 2, four commits) and `ShardWide.cfg` (two rare
events) check the safety properties of `delta_store` and of `shard` on larger
instances; they hold, with 2.3 and 4.9 million states.

A few properties are narrow for a reason that has no configuration of its own.
`UpdatesStayWithTheirEdge` ends with the first crash. `ReadsAreRecent` leaves out
updates that the destructor reports it could not persist. `WaitIsABarrier` speaks
of the moment the wait returns, and not of a wait that a rebuild has failed
during; nor does it say that the wait returns, which is the subject of
`shard_wait`. `RefusedOnlyBehindFailure`, `RecoversAcknowledged` and
`RefusedOnlyWhenAllowed` allow a failed append by name: they bound what it can do
and do not say that it is harmless.

### Bounds

- Update manager: two buffers of two records, two submitters, one flusher and
  the destructor, commits up to 4, batches of one key, of two targets, and one
  that is too large. This is enough for both buffers to be queued or failed with
  a submitter blocked, for a key to be updated while its earlier update is being
  retired, and for batches of two targets of which the second fails.
- Delta file: two files of one life, two faults of any kind, eleven batches:
  every order and repetition of two versions with values of different lengths, a
  version given again behind another key, and four keys given backwards, one of
  them in three versions. Lookups are of six keys, neighbours in the order of
  which are told apart by a different field each, at every sequence from before
  the first version to behind the last. A generation is used again after a
  crash.
- Delta store: one target with one row, threshold 1, two commits, and one crash,
  one failing write and one compaction each. With threshold 1 two commits let a
  chain grow during a merge and reach the threshold again, and an append go
  behind a failed one. `DeltaStoreWide.cfg` has threshold 2 and four commits.
- Manifest: two files, four records, one failing write, two crashes: a torn
  record behind a valid one, a crash after a recovery, and an add that replaces
  an entry.
- Adjacency: three puts by two threads, to a smaller vertex, to the vertex
  itself (both directions) or a deletion of a larger one; older files on three
  levels; one read, after which the behaviour ends (`ReadNotDone`); every unused
  entry holds what an earlier use of it left; the array holds two, so the third
  put converts it; height 2; bodies on both sides of the binary threshold.
- Compaction: three vertices, three levels of two files, five flushes of one or
  two vertices, two records per file, a body buffer of four: merges into both
  lower levels, grown inputs, moves without a merge, a buffer that the last
  record of a merge fills. The partition is checked for three workers and every
  cut.
- Shard: two vertices, two puts, three sessions in either mode, one rarer event
  (an update, a read, a wait, a failing rebuild) in a behaviour, and any number
  of crashes between the sessions. A memtable holds one edge in LSM sessions, so
  that two flush jobs overlap, and two in CSR sessions.
- GraphDb: all files of up to three lines from an alphabet of thirteen, and of
  four behind a header; one of them, with two edge shards and a node shard, is
  put to work (`MCBound`): four writes and two background steps, of which, with
  the read counted twice, a behaviour has five, and one read that begins after
  the second write. The file at work gives the length of a property twice. With
  three writes `ReadsAreRecent` would hold without its exception for rebased
  updates; with four it does not.
- LSM store: two tables of two slots, two writers, one reader, five puts of one
  vertex, level-0 limit 1, one compaction whose preparation fails. Both tables
  are filled, flushed and one of them used again; the second compaction has a
  level-1 input; the last put is in a reused table. With one vertex all level-0
  files overlap, so the choice of inputs is left to `Compaction`, and with limit
  1 level 0 is never compacted twice in one go (the branch of `CompRetire` that
  starts again is not reached).

Deadlock is checked except where the bounds or a clean shutdown end the behaviour
(all but the update manager and the LSM store).

### Fairness

Weak fairness of each thread's own steps, and of nothing the environment
decides: no call has to be made, no write has to fail, no crash has to happen.
Update manager: the worker, a woken submitter or flusher, and the destructor's
stop; the code gives each its own thread, and a woken thread gets the mutex
eventually because no holder keeps it while waiting; a client that publishes a
batch goes on. Delta store: the attaching thread, the flush jobs, the merge
worker, the compaction thread, and recovery, which is the start of the program.

Liveness of `LSMStore` is out of TLC's reach at a useful size. `NoStrandedSwitch`
states as an invariant what the progress of a waiting writer rests on: when no
job, reader or other switch is under way, a table can be taken.

## Proofs

For every set of threads, keys, bases, targets and batches, and every number and
size of buffers, TLAPS proves of `PropertyUpdateManager`:

- `TypeCorrect`: `Spec => []TypeOK`
- `AcknowledgedUpdatesStayVisible`: `Spec => []UpdateVisible`
- `PendingNeverStale`: `Spec => []PendingIsNewest`
- `Refinement`: `Spec => ImplementsLatestValue`

The assumptions are `OptionsAssumption` (what the constructor checks) and
`BatchesAssumption` (a batch has one update per key, being made from a map).

`UpdateVisible` is not inductive: retiring an entry keeps it only if the delta
layer already has the record, which is a fact about the worker's buffer, and
publishing an update keeps it only if commits are handed out in order. `IInv`
adds these facts: `RotationOK` (the active buffer is `kActive`, the queue has
each `kQueued` buffer once, so nobody else writes the buffer being flushed),
`WorkerOwnsBuffer` (what the worker no longer has to attach is in the delta
layer), `PublisherOK` (one client at a time publishes, with a commit newer than
all others, and the keys it has published show it), `CommitsBelowNext`,
`BuffersCovered` and `PendingAheadOfBuffers` (nothing in a buffer is ahead of
what a reader finds). `Lemmas` has one lemma per helper and worker action,
`Proofs` combines them per disjunct of `Next`, and `Refinement` shows that a
commit begins a batch of `LatestValue`, that each publication writes one key of
it, and that every other step is a stutter. The abstract state has the values
readers find and what is left to write of the current batch: a half written
batch is visible in both specifications, and a second one cannot begin before it
is done.

Note that `IInv` does not say that a `kActive` buffer is the active one: a
displaced buffer refutes that, and visibility does not need it.

Of `PropertyDeltaFile`, for every set of batches and every number of files and
faults:

- `RecordedFilesAreWhole`: `Spec => []RecordedIsWhole`
- `RefusalsAreAllowed`: `Spec => []RefusedOnlyWhenAllowed`

`RefusedOnlyWhenAllowed` is about recovery; `IInv` carries what it needs there
from the write on: what is in the temporary at each step of the call
(`InTheMaking`), that a new file never takes the generation of a recorded one
(`Counted`), and that a recorded file that exists is the whole image of its
batch and, with durability, synced under its name. A failed append may leave an
entry without a file, never with a wrong one, which is why the invariant speaks
of entries whose file exists. The assumptions are `BatchesAssumption` (no batch
is empty), `BoundsAssumption` and `FormatAssumption`. The last says of the
batches that what `Create` writes is a sequence and validates; TLC evaluates it
for the run's batches. For all batches it would need an induction over the
records, which is beyond the prover.

Only model-checked: liveness, which is beyond the prover; `FlushOrder`;
`FilesAnswer`, which needs inductions over records and searches; and all of the
other modules.

## Not modelled

- The blocks and eviction of the SST cache, `MappedPropertyFile`, containers,
  arenas, pools and locks: data layout and primitives. A mutex section is a step, a
  pool runs a job some time after it was enqueued.
- Iterators that return batches, undirected variants of `NewEdgeSL`, the
  alternative level indexes and separate deletion records.
- In `GraphDb`: databases without the update manager, its `WaitCSRUpToDate` and
  `HasBackgroundWork` (the wait itself is in `Shard`), CSR reads,
  the translation of legacy flags, two threads that allocate vertices at once (they
  interleave across shards), and crashes, which are in `Shard`.
- In `LSMStore`: a miss in CSR mode, which returns with the superversion kept
  (`lsmstore.cpp:1656`).
- In `Compaction`: the parallel merge of the levels from 1 on.
- After a crash, file ids and sequences of lost tables are given out again while
  their deltas may survive; `UpdatesStayWithTheirEdge` speaks of behaviours without
  a crash.
- A read error during the scan of the manifest ends it like a torn tail
  (`OpenMisread`); the records behind it are gone, and no property forbids it.

`PROJECT.json` gives the reason for each part, and lists the hazards with the
properties that cover them.

## What is left

Proofs of `ManifestFilesExist` of the delta store, of the reference counts behind
`ReadersKeepWhatTheyHold` for two tables, and of `FlushOrder`; crashes and a second
writer in `GraphDb`.
