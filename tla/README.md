# A TLA+ verification of hudi-rs

hudi-rs reads Apache Hudi tables from object storage. It never writes one: every
writer, cleaner, compactor and archiver is another program, and the hard part of
the reader is to give a consistent answer from files those programs keep changing.
This directory models that reader. All paths below are relative to
`src/crates/core/src/`.

## The system

| Part | State it keeps | Operations | Interacts with |
|---|---|---|---|
| Timeline (`timeline/`) | completed commits, pending instants, the archival boundary, as of one listing | load, select by requested or completion time, build a view, fill the completion gate | storage (listing, metadata files); table reads |
| Table reads (`table/mod.rs`) | the loaded timeline, once-initialised caches (metadata table, estimator) | snapshot, incremental, streaming reads; window resolution | timeline, listing, file-group reader |
| File listing (`table/listing.rs`, `table/fs_view.rs`, `file_group/`) | file groups and slices per partition | list a partition, drop uncommitted files, assemble slices | storage or the metadata table, timeline view |
| Log scan (`file_group/reader_v2/log_record_reader.rs`) | blocks, instant map and list, queue, windows, residency budget | walk, two sweeps, plan, fetch, merge | log file reader, record buffer, completion gate |
| Log file reader (`file_group/log_file/`) | position, fetch window | read a block or its header, detect corruption, resynchronise | storage reader |
| Merge map (`reader_v2/buffer/spillable_map.rs`) | in-memory tier, disk tier, pinned batches, byte counters | insert, merge, evict, compact, drain | RocksDB |
| Record buffers and mergers (`reader_v2/buffer/`, `merge/`) | record map by key or by position | process data and delete blocks, merge with the base file, fall back to keys | merge map |
| Reader engine (`reader_v2/engine.rs`, `file_group/reader.rs`) | one slice read's set-up | choose the path, build the scan, convert output | all of the above |
| Metadata table (`metadata/`), HFile (`hfile/`) | a nested table, a seek cursor | list files, look up keys | table reads |
| Storage (`storage/`) | a fetch window | get, list, ranged reads | object store |
| Bindings, config, schema, expressions | none that changes during a read | conversions | |

What is hard, and where a unit test hardly reaches:

* **Time between awaits.** The timeline is listed once; metadata and data files are
  read later, and writers complete, roll back, clean and archive in between.
* **Inference from absence.** An instant the active timeline does not list is
  committed if it is older than everything listed, unfinished otherwise. The
  answer rests on which instants the minimum is taken over.
* **Two orders of time.** Commits complete out of requested order. File names carry
  the requested time, an incremental window bounds the completion time.
* **Rollback and compaction inside the log.** A log says late that an earlier
  instant does not count, or that another block stands for it; compactions nest.
* **Memory bounds.** A budget shared by all the files of a slice, windows cut by
  bytes, bytes shared between clones; a merge map where removing an entry frees
  nothing until the last reference to its source batch is gone.
* **Damage on disk.** A writer that dies leaves half a block, and the next one
  appends behind it; the reader finds its way by lengths it cannot trust.
* **Two decisions about one record.** Versions meet in the log or at the base row,
  by key or by position, whole or partial; the outcome must not depend on where.
* **Shared caches.** Concurrent reads of a table share a metadata table opened once
  and a view that each of them rewrites.
* **Two tiers.** A merged record moves from memory to a staging area to a flushed
  batch, is overwritten in whichever tier it is in, and comes out once.

`PROJECT.json` lists these one by one under `hazards`, at the line where each
bites.

## Modules

| Module | Models |
|---|---|
| `Gate` | `CompletionGate::admits`, shared by the two modules below |
| `LogScan` | the log scan of one file slice |
| `LogScan_proofs` | theorems about `LogScan`: which blocks are merged, in which order, and how much is held at once |
| `MCLogScan` | instances of `LogScan` for TLC |
| `Timeline` | the timeline, the reads built on it, and the writers beside them |
| `Timeline_proofs` | theorems about `Timeline` |
| `MCTimeline` | instances of `Timeline` for TLC |
| `RecordMap` | what a merge map promises: a map that is filled, emptied and drained |
| `SpillableMap` | the two-tier merge map, driven as the key-based buffer drives it |
| `SpillableMap_proofs` | theorems about `SpillableMap`: the refinement of `RecordMap`, the byte counters and limits |
| `MCSpillableMap` | instances of `SpillableMap` for TLC |
| `LogFileWalk`, `MCLogFileWalk` | one log file, byte by byte: fetch window, walk, corruption checks, the search for the next block, the older scanner |
| `LogFileWalk_proofs` | theorems about `LogFileWalk` |
| `RecordMerge` | how two versions of a record become one: ordering values, mergers, kernel, partial records |
| `RecordBuffer`, `MCRecordBuffer` | the record buffer of a slice, by key and by position, and the stream that merges it with the base file |
| `RecordBuffer_proofs` | theorems about `RecordBuffer` |
| `FileSlices` | how base and log files are put together into slices |
| `TableListing`, `MCTableListing` | which files a read merges, from storage or the metadata table, beside writers and table services |
| `TableListing_proofs` | theorems about `TableListing` |
| `TableRead`, `MCTableRead` | concurrent reads of one table: shared caches and view, bounded reading, streams, failures |
| `TableRead_proofs` | theorems about `TableRead` |
| `FiniteLemmas` | sums and folds over finite sets, and the elements of sequences, for the proofs |

From the outside in, a snapshot read is `Timeline` (what is committed),
`TableListing` with `FileSlices` (which files), `TableRead` (which slices, how many
at once), `LogScan` over `LogFileWalk` (which blocks), `RecordBuffer` with
`RecordMerge` over `SpillableMap` (which rows). Each module takes the next inner one
by what that one is checked to deliver: `LogScan` walks the blocks `WalkExact`
promises, `RecordBuffer` sees records in the order of `OldestFirst` and a map that
keeps them (`IsRecordMap`), `TableRead` sees slices as `TableListing` forms them.

Operators introduced by a comment `Fault:` are deliberate mistakes: each changes
one definition the way a plausible bug would, and is what shows that a property
can fail. Nothing refers to them.

### LogScan

One behaviour is one call of `scan_internal`, for any request in `Inputs`.

| Phase (`pc`) | Code | Actions |
|---|---|---|
| `walk` | `LogFileReader::read_all_blocks_metadata_only` over each file | `OpenLogFile`, `ReadBlockHeader`, `WalkDone` |
| `pass1` | `forward_scan_pass1` | `KeepBlock`, `ApplyRollback`, `SkipBlock` |
| `pass2` | `reverse_scan_pass2` | one action per branch for the instant at the end of the list |
| `plan` | `plan_content_windows` | `StartPass3`, `PlanResident`, `PlanJoin`, `PlanCut`, `PlanDone` |
| `fetch`, `merge` | `fetch_and_merge_windows`, `merge_blocks` | `FetchWindow`, `MergeBlock`, `WindowDone`, `MergeDone` |

A block is its position in the walk. The code clones blocks freely; a clone is the
same position, and what clones keep alive is computed by `Held`. Instants are
positive naturals in the order Hudi gives instant strings. Whether a block's bytes
are in the fetch window (`has_resident`) is a free choice; whether the budget
affords them is not. A block's content is only its length, and merging it into the
record buffer is appending it to `merged`. Any storage call may fail (`ScanFails`).

The walk delivers whole blocks: the byte-level detection of a corrupt block is not
in this module, its outcome (a corrupt marker) is.

### Timeline

The environment (`Writer`) is what the code assumes of Hudi: an instant is
requested, goes inflight, completes under a fresh timestamp or is rolled back (data
first, timeline files second); the cleaner removes replaced file groups; the
archiver moves the oldest completed commit away, "never past the oldest pending
one" (`timeline/view.rs`), and a replace commit only once what it replaced is gone.

The reader opens the table in one step (`Open`, one listing) and then reads. A
snapshot awaits the replace commits' metadata and then the data listing; an
incremental read first awaits the metadata of the commits in its range. Each await
is a step of its own, so writers act between them. A metadata file that was
archived since makes the read fail (`ReadFails`).

Each commit writes a file group of its own, so the rows a read returns are named by
the commits that wrote them. A key written by two commits, and slices made of
several files, are outside this module. `committedThen`, `archivedThen` and
`pendingThen` are history variables: the truth at the moment of opening, which no
action reads.

A polling consumer is not in the repository but in its documentation; it reads from
its checkpoint to the default end and then moves the checkpoint to that end.

### SpillableMap

One behaviour is one read of a file slice through one merge map: the log scan
fills it, the end-of-scan compaction runs, base rows take their records out, the
rest is drained.

| Phase (`pc`) | Code | Actions |
|---|---|---|
| `scan` | `process_data_block`, `process_next_data_record`, `process_next_deleted_record`; `insert`, `merge_in_place` | `DecodeBatch`, `MergeRow`, `MergeDelete`, `EndBatch` |
| `soft`, `cap`, `capped` | `enforce_memory_limits`, `enforce_peak_cap` | `CheckBudget`, `CheckCap`, `AcceptFootprint`, `RejectFootprint` |
| `evict`, `spill` | `evict_source_batches_until`, `compact_victim_batch`, `spill_victim_batch` | `CompactVictim`, `SpillVictim`, `SpillPut`, `SpillDone`, `EvictionDone` |
| `flush` | `RocksDbDiskMap::flush` | `FlushGroup`, `FlushDone`, `LastFlushFails` |
| `sparse` | `compact_sparse_batches` | `EndScan`, `CompactSparse`, `SparseDone` |
| `base` | `remove` | `RemoveMatched` |
| `drain` | `drain_log_only_inserts`, `SpillDrainIter`, `RocksDbDrainIter` | `StartDrain`, `YieldInMemory`, `YieldOnDisk`, `DrainDone` |

A batch is an address with rows in `heap`; it lives while something refers to it
(`Held`) and its address may then be reused, as an `Arc` pointer may, because the
code tells batches apart by pointer. A row is its content, unique in a behaviour,
and its schema. The mergers are another component: for every row the model allows
each kind of outcome one can have (the row, a folded record, a tombstone, the prior
record stored again, nothing stored). A tombstone carries its true record key and a
flushed data row does not, as in the code; `Meaning` is what a merge reads off a
record. Sizes are counted in units: a row of a batch, an entry's overhead. Any disk
operation may return an error, which ends the read; the error of the last flush is
kept by the draining iterator until the disk tier is asked for its first record.
`written`, `out` and `decodes` are history.

`RecordMap` knows one map and no tiers. `SpillableMap` implements it under the
mapping that joins the memory tier, the records on their way to disk, the staging
area and the index (`Contents`).

### LogFileWalk

One behaviour reads one file, by the headers-only walk or by the eager reader with
the older scanner behind it. The file is a sequence of bytes; a *span* is what one
append left, a whole block, a prefix of one, or one with a wrong length.

| State (`pc`) | Code |
|---|---|
| `magic`, `length` | `read_magic`, `read_block_length` |
| `check` | `is_block_corrupted`: overflow, past the end, trailing length, next marker |
| `resync` | `create_corrupted_block`, `scan_for_next_block_offset` |
| `body` | `read_next_block_metadata_only`, `read_next_block` |
| `collect` | `LogFileScanner::scan`, rollback targets, block types |

`StorageReader` is `WindowCovers`, `FillWindow`, `BytesAt`, `After`: a window that
is refilled from the position asked for, direct reads for what is larger. Fields
are scaled (marker 3 bytes, lengths 2, the others 1), and bytes are digits in base
64, so lengths overflow at `WordMax`. A header map is an instant and a rollback
target, footers are empty.

### RecordMerge and RecordBuffer

`RecordMerge` is pure: `OrderingValue` comparison, `ShouldKeepNewer`, `FinalMerge`,
the kernel's `pick_winner`, and the folds that complete a record with missing
columns or placeholders. `RecordBuffer` is one slice: `ProcessDataBlock`,
`ProcessDeleteMarker`, `ProcessDeleteBlock` (with the fallback from positions to
keys, `RekeyedMap`), `EndScan`, then `MergeBaseBatch`, `DrainLogOnlyInserts` and
`NextChunkDone` of `FileGroupMergeStream`. A block is one record. A column's value
is the number of the version that wrote it, so an answer says where it came from.
Any entry may lie in the spill tier, where a data record keeps its map key only.
What writers promise is external: partial updates name existing records, positions
are right or absent. A hybrid delete strategy in `update_processor.rs` is
unreachable (nothing sets `needs_hybrid_strategy`) and left out.

### FileSlices and TableListing

One file group on layout 2, and every write has one file named by its instant. The
writers follow the protocol: files first, metadata table second, completion last;
a compaction merges what had completed when it was requested; a rollback removes
the file of a write that died; the cleaner removes superseded slices no open reader
needs; the archiver moves the oldest completed instant. It keeps a completed commit below
every pending compaction here, since without one the first finding applies.

| Action | Code |
|---|---|
| `Open` | `Timeline::new_from_storage`: completed commits, boundary |
| `OpenMetadata` | `get_or_init_metadata_table`, kept for later reads |
| `ListPending` | `all_pending_instant_times`, at each read |
| `ListFromMetadata` | `valid_instant_timestamps`, `fold_filesystem_metadata`, `file_groups_from_files_partition_records` |
| `ListFromStorage` | `list_file_groups_for_partition` |
| `ReadAgain` | the next read of the same table |

`Slice` puts the group together from the committed files (`add_base_files`,
`add_log_files`, `get_file_slice_as_of`). The metadata table's files partition is a
base record and a sequence of log records, each a map from files to tombstones; its
own timeline is the set of blocks at the moment it is opened.

### TableRead

Each reader is one call of `read` or `read_stream` on a table or a clone: it waits
for the metadata cell and the estimator cell (`tokio::sync::OnceCell`, external:
one fills, the others wait, a failed or dropped filler lets the next one try), loads
partition after partition into the shared view, collects slices from it, then reads
them. Loading prunes every group that has a slice at the reader's timestamp and
statistics that do not match (`Retained`), replaced groups included; replaced groups
are left out only when slices are collected (`Visible`). Slices are read
chunk by chunk, as many at once as ceiling and budget allow, or one after the other
as a stream. `Trouble` is a storage error or a caller that drops the read, at any
await.

## Runs

| Run | Checks | Result |
|---|---|---|
| `log_scan` | the invariants of the scan, and its termination | pass |
| `timeline_snapshot` | `SnapshotExact`, `GateExact` on layout 1 | pass |
| `timeline_incremental` | `WindowExact`, `NoCommitTwice`, `NothingBehindCheckpoint`, `EventuallyDelivered` on layout 2 | pass |
| `timeline_pending_service` | `PendingNeverRead`, with compactions | violated, finding 1 |
| `spill_map` | the invariants of the merge map | pass |
| `spill_refines` | `IsRecordMap` and `ReadReturns`, rows of two schemas | pass |
| `record_buffer` | `MergeExact`, `PlaceholdersFilled`, `PathsAgree`, `RekeyExact`, `Terminates` | pass |
| `log_file_walk` | `WalkExact`, `DamageSeen`, `FailsOnlyTorn`, `ContentLocated`, `WithinLimits`, `ScannerExact`, `WalkEnds` | pass |
| `table_read` | `SlicesAsAsked`, `WithinBudget`, `AllOrNothing`, `ReadsEnd` | pass |
| `table_read_shared_view` | `SlicesWhoeverReads` | violated, finding 2 |
| `table_listing` | `EachWriteOnce`, `ListingsAgree` | pass |
| `table_listing_archived` | `EachWriteOnceArchived` | violated, finding 3 |

**Properties of the scan.** `Pass1Exact` compares the incremental sweep with the
declarative meaning of gates and rollbacks; `ListMatchesMap` ties the two
structures the sweep maintains separately; `QueuedOnce`, `RepresentedOnce` and
`OldestFirst` say that log compaction is resolved without losing, repeating or
reordering a write, at any depth of nesting (`StandsFor` is the least set that holds
what a compaction compacted and what the compactions among that compacted in turn).
The last two take from the writers that no instant is compacted twice and that a
compaction is appended after what it compacts (`CompactionsInOrder`); `MergedOnlySurvivors` and `NothingLeftOut` relate what reached
the record buffer to what the log says; `ResidencyBound` is about bytes: at most one
budget kept by the walk plus one window, and never a block merged without its bytes.

**Properties of the timeline.** `SnapshotExact` and `WindowExact` compare an answer
computed from a stale listing with the truth at the moment of opening;
`GateExact` does so for the gate that `LogScan` takes as input;
`NoCommitTwice`, `NothingBehindCheckpoint` and `EventuallyDelivered` are the
exactly-once delivery a polling consumer relies on.

**Properties of the merge map.** `LookupExact` says that a key is in one place and
that a lookup finds what was last stored there, through any order of evictions,
compactions, flushes and overwrites; `DrainExact` that a drain which ends without an
error gave out each remaining record once; `IsRecordMap` puts both in terms of steps.
`AccountingExact` compares the running counters, which saturate and so would hide a
drift, with what the tier keeps alive. `LimitsKept` is the budget and the hard cap at
the end of an operation. Over budget is legal for what no eviction can free: owned
records, and batches compacted to their live rows in the same pass; and, up to the
low-water mark of the whole budget, after the pass that opened the disk tier and
thereby lowered the allowance (the instance has a reserve for which this happens).
`CapErrorIrreducible` is what the cap's error message claims, for a cap that is not
below the soft budget. `DrainExact` also says
that every flushed batch is decoded once, which is why the drain sorts its index.

**Properties of the log file walk.** `WalkExact`: whatever was torn or garbled, the
blocks read are exactly those written whole, in order, with their own content.
`DamageSeen`: what could not be read leaves a corrupt marker, where it began.
`FailsOnlyTorn`: which damage to the framing fails the whole file; content that
cannot be decoded, or of a type that has no decoder (`content.rs:261`), is not
modelled. These three presume a file that is
*legible* (`Legible`): no bytes but those of an intact block pass the checks of
`is_block_corrupted`, so that the remains of a torn block do not hold what looks like
a block. The code cannot tell such remains from a block, and real markers are long
enough to make them unlikely. `MCLogFileWalkLegible` is an assumption of the instance
that TLC evaluates: every file of the run is legible, the one with a marker and the
one with a block's trailing length in its content included. `ContentLocated`: bytes a block carries are the file's
at the location recorded for it, whichever window they came from. `WithinLimits`: the residency budget, and one request
for a file that fits a window. `ScannerExact`: the older scanner's set of rollback
targets says what the order of blocks says, as long as no instant is written again
after its rollback.

**Properties of the record buffer.** `MergeExact` compares the rows handed out with
the newest version of each record by the table's ordering, wherever versions met,
and the update counts with the rows. Both this and the next speak of records whose
ordering values are of one class (numbers, with null as zero, or a delete without
one): values of different classes are in no order, so no version is the newest of
them. The run's `Orders` are of one class; with a value of another class among them
the properties hold too, for the other records. `PlaceholdersFilled`: a column is empty only if
no version had it, or a delete took the value away: a delete that outranks a version
in the map removes its values even when the base row then outranks the delete.
`PathsAgree`: the vectorised kernel and the row-at-a-time merger
decide every pair alike. `RekeyExact`: a fallback to keys is refused exactly when it
would lose a record.

**Properties of listing and reading.** `EachWriteOnce`: the slice read has every
write that completed by the read's timestamp once, in its base file or in a log file,
and nothing later, pending or rolled back; a read at or above the latest commit has
every committed write. `ListingsAgree`: a metadata table opened at another moment and
kept leads to the same slice as storage. `SlicesAsAsked`: a read
collects only what it was asked for and all of that its own filter leaves, in the
presence of other loads of the same partitions, provided no other reader may prune a
group it needs (`Undisturbed`). The provision counts every group the other may prune
at its own timestamp (`MayPrune`), also one replaced by then, which the other never
collects but an earlier-time read does; without the provision finding 2 applies.
`AllOrNothing`: a read that returns has every slice it collected, in order, and under
the same provision, unless it streams, every slice it needs; a failure loses none silently. `WithinBudget`:
the bound on concurrent slices holds for the very slices in flight. `ReadsEnd`: no
read waits for ever on another that failed or was dropped.

**Bounds.** `log_scan`: every well-formed log of up to three blocks out of eight
block shapes (ordinary, delete, two compactions, a rollback, a corrupt block), plus
five longer logs with nested compaction and rewritten instants, cut into two files,
under five readers (no gate, a full gate, a gate with a hole, an instant range,
headers only), with a budget smaller than the largest block, so that resident,
joined, cut and oversized blocks all occur. Three blocks suffice for a rollback
between two writes of one instant and for a compaction of two instants; deeper
nesting is in the longer logs. `timeline_snapshot`: up to four instants, with seven
clock readings, so a replace commit can complete, be cleaned and archived while
others are pending. `timeline_incremental`: three instants in six readings;
two commits can complete in the reverse of their requested order before, between
and after two polls. `MaxClock` and `MaxRequests` are the only caps; the archiver
keeps `KeepCommits = 1`. Deadlock checking is off for the timeline runs because the
capped writers and a caller that stops reading may simply end.

`spill_map`: three keys, blocks of two and three rows, five rows and tombstones in
all, a soft budget that a three-row block exceeds with its first entry, a disk reserve
of two fifths of that budget, and a cap. So a block can
be sparse (one live row of three) or dense, memory can be over budget with and
without batches to evict, a flush can be forced by a full staging area or by a
spill, and a drain can meet two flushed batches out of order. Four addresses are as
many as five rows can keep alive at once with one being compacted; no state of the
passing runs lacks a free one when a block or a compaction needs it. `spill_refines`
has two schemas, hence two blobs in one flush, for two keys, four rows and three
addresses. In `spill_map` keys and addresses are symmetric: victims of equal size
are taken in any order, which contains the code's order by pointer. The cap of
`spill_map` is not below its soft budget, which `CapErrorIrreducible` needs; what
happens otherwise is described under "Noted while modelling".

`record_buffer`: three log records over one key of the base file and one that only
the log has, two columns, ordering values that are null, tie and differ, eight
reads (commit and event time, with and without positions, with
placeholders, a base row below and above the log's deletes, a base file with one key
twice). Three records are the fewest in which
the first two meet in the map before, and after, a fallback. `log_file_walk`: every
file of two spans, torn at every byte, and three spans of the kinds a scan tells
apart; a window of 24 bytes and a search buffer of 5, so that markers and blocks are
cut by both; a budget of 8 for contents of up to 7. `table_read`: two readers, two
partitions, three groups; a budget of 10 that admits one large slice or several
small ones, and a slice of unknown size; requests at three times, one before a group
has a slice and one after a group is replaced, so that a filtered read can prune a
group only the other read would return. `table_listing`: four instants in six clock
readings, so a write can straddle a compaction, be rolled back, and be cleaned or
archived between two reads. Deadlock checking is off there because the clock runs
out.

The passing timeline runs leave table services out (`Actions`), because of the
first finding below. `GateExact` assumes a table with at least one completed commit,
as `CompletionGate::is_unpopulated` does.

**Fairness.** `LogScan` assumes weak fairness of its one step relation: the scan is
a sequential computation that the runtime keeps polling, and a storage call either
answers or fails. `PollingSpec` assumes that the caller keeps reopening and polling
(strong fairness of `Open` and `Poll`, since other reads may come between) and that
a read in progress goes on; writers are assumed nothing. `SpillableMap` is one
thread inside a call: weak fairness of its step relation says the thread runs.
`RecordBuffer` assumes the same of the end of the scan and of the consumer that
polls the stream, `LogFileWalk` of the walk, `TableRead` of each reader by itself: a
read that is not dropped is polled. No module assumes that storage fails, or that a
caller drops a read, or anything of writers.

## Findings

1. *A pending compaction can be read as committed.* The boundary is the minimum over
   instants whose action parses; pending `compaction` (likewise `clustering`,
   `logcompaction`) files do not. If such an instant is the oldest active one, it
   falls below the boundary and `is_committed` takes its files for archived ones.
2. *A filtered read can take file groups from another.* `load_file_groups` stores what
   its filters left in the view that all reads of a table share, and
   `collect_file_slices` reads the view later. A base-file-only read with filters that
   loads a partition in between removes groups from a read without filters, also groups
that are replaced at its own time and that only the other, earlier, read returns.
3. *Archived log files are placed by the wrong time.* On layout 2 only active commits
   have a completion time. The log file of an archived commit sorts behind the others
   and is placed by its requested time: a group without a base file splits in two and
   the latest read sees the later part; in a group with base files a delta commit
   that completed after a compaction was requested goes to the older slice.

### Noted while modelling

Observations without a run of their own, each at the code it is about.

* *Unordered deletes can be forgotten* (`buffer/key_based.rs:1594`). A later data
  record replaces a buffered delete without an ordering value, loses to the base row,
  and the deleted row is handed out, against the comment at line 858 that such a
  delete "always applies". `MergeExact` excludes the case (`NotRevived`).
* *Bytes are held to the end of the merge* (`log_record_reader.rs`,
  `queued_block_content`): a clone's bytes are taken, the map of pass 1 keeps the
  original. The bound that holds is `ResidencyBound`.
* *The shortfall warning can stay silent* (`table/mod.rs`, `read_incremental_inner`):
  it is given the translated start, which can equal the boundary although an archived
  commit is missing, and it can fire when nothing is.
* *A staged record pins its block uncounted* (`spillable_map.rs`): a row stored at a
  key already on disk is staged by reference until `SPILL_BATCH_ROWS` rows are there.
* *The cap fails a read that spilling would save*: with a cap below the soft budget,
  `enforce_peak_cap` makes one pass and does not look at a compacted batch again.
* *The first spill can leave the map over budget*: its target is taken before the
  disk tier's reserve lowers the allowance. With a soft budget below five times the
  reserve the map stays over it until it next grows, while the doc at
  `spillable_map.rs:69` evicts "until back under budget".
* *A torn marker right behind a whole block hides the block* (`Boundary` in
  `LogFileWalk`): the check for the next marker cannot tell it from a wrong length.
* *A file cut inside a length field fails*, although the comment at
  `log_file/reader.rs:558` wants a corrupt marker for a "truncated block" rather than
  "failing the whole file on one bad span"; `FailsOnlyTorn` names the exception.
* *The older scanner has no completion gate*; its tests pin that down
  (`gold_parity_tests.rs:508`).
* *The fold of metadata records is not associative*: an addition and a tombstone that
  meet in the log cancel, and an entry of the base record then survives. A file is
  added once and removed once, so it does not happen on the tables read here.
* *The metadata table drops groups without a base file* (`file_group/builder.rs:321`,
  a TODO), while `table/listing.rs:166` says that "Dropping them loses every record in
  the group". `EachWriteOnce` and `ListingsAgree` speak of groups with a base file
  on that path.
* *Time travel below a compaction* leaves out a write requested before the timestamp
  that completed after the compaction was requested: its log file belongs to the
  slice of the compaction. `EachWriteOnce` is about writes completed by then.
* `loader.rs:181` lets a position-based merge be combined with emitted deletes, which
  `update_processor.rs:145` does not expect; `contains_log_record` takes an error of
  the spill tier for "not there".

## Proofs

Every theorem holds for every value of the constants that the named assumptions of
the modules allow; these ask for naturals, finite sets and well-formed requests, and
for nothing else unless the table says so.

| Module | Theorem | States |
|---|---|---|
| `LogScan_proofs` | `TypeCorrect` | `Spec => []TypeOK` |
| | `GatesExact` | `Spec => []Pass1Exact` |
| | `ListAndMapAgree` | `Spec => []ListMatchesMap` |
| | `NoInstantTwice` | `Spec => []QueuedOnce` |
| | `OnlySurvivorsMerged` | `Spec => []MergedOnlySurvivors` |
| | `NoBlockLeftOut` | `Spec => []NothingLeftOut` |
| | `WritesOnce` | `Spec => []RepresentedOnce` |
| | `MergeOrder` | `Spec => []OldestFirst` |
| | `ResidencyTheorem` | `Spec => []ResidencyBound` |
| `LogFileWalk_proofs` | `ContentTheorem` | `Spec => []ContentLocated` |
| | `LimitsTheorem` | `Spec => []WithinLimits` |
| | `ScannerTheorem` | `Spec => []ScannerExact` |
| | `WalkExactTheorem` | `Spec => [](Legible(file, input.spans) => WalkExact)` |
| | `DamageSeenTheorem` | `Spec => [](Legible(file, input.spans) => DamageSeen)` |
| | `FailsOnlyTornTheorem` | `Spec => [](Legible(file, input.spans) => FailsOnlyTorn)` |
| `Timeline_proofs` | `TypeCorrect` | `Spec => []TypeOK` |
| | `SnapshotTheorem` | `Spec => []SnapshotExact`, without table services |
| | `GateTheorem` | `Spec => []GateExact`, without table services |
| | `WindowTheorem` | `Spec => []WindowExact` |
| | `NoCommitTwiceTheorem` | `Spec => []NoCommitTwice` |
| | `NothingBehindTheorem` | `Spec => []NothingBehindCheckpoint` |
| `TableRead_proofs` | `SlicesTheorem` | `Spec => []SlicesAsAsked` |
| | `AllOrNothingTheorem` | `Spec => []AllOrNothing` |
| | `BudgetTheorem` | `Spec => []WithinBudget` |
| `SpillableMap_proofs` | `PlacesTheorem` | `Spec => []PlacesInv` |
| | `LookupTheorem` | `Spec => []LookupExact` |
| | `DrainTheorem` | `Spec => []DrainExact` |
| | `RefinementTheorem` | `Spec => IsRecordMap` |
| | `AccountingTheorem` | `Spec => []AccountingExact` |
| | `LimitsTheorem` | `Spec => []LimitsKept` |
| | `CapErrorTheorem` | `Spec => []CapErrorIrreducible` |
| `RecordBuffer_proofs` | `RekeyTheorem` | `Spec => []RekeyExact` |
| | `PathsTheorem` | `Spec => []PathsAgree` |
| | `MergeTheorem` | `Spec => []MergeExact` |
| | `PlaceholdersTheorem` | `Spec => []PlaceholdersFilled` |
| `TableListing_proofs` | `ExactTheorem` | `Spec => []EachWriteOnce` |
| | `AgreeTheorem` | `Spec => []ListingsAgree` |

### The log scan

One inductive invariant in three layers.

* `Pass1Inv`: types, the phases in which each structure may be non-empty
  (`Phases`), `Pass1Exact` and `ListMatchesMap`. `Pass1Exact` is inductive by
  itself only with `ListMatchesMap`: a rollback removes the instant from both, and
  a later block of it must be appended to the list again exactly when the map says
  it is gone. `SurvivorStep` says how the declarative survivor set changes when one
  more block is swept; keeping, rolling back and skipping each match one of its
  cases.
* `QueueInv`: the queued instants are those already passed by the backward sweep
  (`QueueFresh`, `PassedOnly`), each once (`QueuedOnce`), and the queue is exactly
  the blocks of those instants (`QueueExact`). Without `QueueFresh` an instant
  visited later could be one already queued.
* `MergeInv`: what was merged is a prefix of the ordered queue, the windows left to
  do cover the rest, and after the merge nothing is left.

`OnlySurvivorsMerged` and `NoBlockLeftOut` then follow from the three layers
together.

`WritesOnce` and `MergeOrder` add `CompactionInv`, about the part of the log that the
backward sweep of pass 2 has behind it. An instant there is mapped to something that
carries its writes (`Carried`), which is a compaction that nothing behind the sweep
compacted in turn (`Outermost`); a compaction has mapped all that it compacted
(`Followed`). So every ordinary instant behind the sweep is in the queue under
exactly one name (`Reached`) and nothing else is (`Explained`). `Outermost` is where
`CompactionsInOrder` enters: a compaction is swept before what it compacts, so its own
place is final when it is followed. The queue is ordered by the newest ordinary
instant behind each entry (`QueueSorted`), and its blocks by the queue (`BlockOrder`);
`MergeInv` then carries the order through windows and fetches. `Carried` speaks of a
least set rather than of a recursion: it suffices that whatever is closed under
compaction contains the instant.

`ResidencyTheorem` adds another layer, `ResidencyInv`. The bytes kept by the walk
and what is left of its budget always sum to the budget (`WalkPaid`); the planned
windows are disjoint, ascending stretches of the queue (`WindowsSorted`), each within
the budget or a single block, with `current_bytes` the bytes of the last one
(`WindowsPaid`); and what is queued is resident or in a window still to come
(`PlanCovers`), so that a block has its bytes when it is merged. `WindowsSorted` is
what makes a fetched window's bytes a sum over distinct blocks. The invariant counts
a single block against no budget because the code does: a block larger than the
budget is fetched alone.

### The log file walk

Three theorems are about any bytes a file may hold, damaged or not; they follow from
`WalkInv`, which has three parts. `CursorInv`: the window is the piece of the file it says it is (`WindowTrue`),
the cursor stays in the file, and in each state of the walk it is where the block's
fields put it; of a streamed file no larger than a window, either nothing was
requested yet or all of it is in the window. `ReadProps` is the lemma everything else
rests on: a read that ends inside the file succeeds and returns the file's own bytes,
whichever of the three ways of `read_bytes` served it, so that the error for a window
that came short is never taken. `ContentInv`: blocks carry what is at their location,
and what they carry together with what is left of the budget is the budget.
`ScannerInv`: the scanner's result is the one computed from all blocks; that it agrees
with the order of the blocks is then a fact about sets of positions.

`WalkExact`, `DamageSeen` and `FailsOnlyTorn` say what the walk makes of the spans that
were written, and need more. `Layout` says where the spans lie in the file - one after
the other, each with its own bytes at its place - and follows from what `FlattenSeq`
does (`LayoutHolds`); `EncodeAt` gives the bytes of a block by their place in it.
The assumption on `Inputs` bounds a file by what a length field can hold (both are
`u64` in the code), so that arithmetic overflows only where a length is wrong.
`PassesAt` is the verdict of `is_block_corrupted` as a predicate of the file
(`CheckFront`: the code computes just that through its windows), and `IntactPasses` the
fact that a whole block with a marker or the end of the file behind it passes. The
inductive invariant is `ExactInv`: over a legible file the walk never stands inside an
intact block (`Outside`), and at each place where it looks for a block, every intact
span before it has been read, in order and as it was written, and every damaged one
reported where it began (`Behind`). `Outside` is what carries the proof: it makes
whatever passes the checks where the walk stands the *start* of an intact block
(`PassStarts`), so that no check of the body can fail; and since a marker does not
overlap another (`NoOverlap`), the search from a place that begins no block stops at
the next marker and passes no block and no other damage on the way (`SearchPasses`),
windows overlapping by one byte less than a marker. That a file is legible is the
hypothesis of the theorems and not an assumption on the constants: for other files the
first three still hold.

### The timeline

`IndInv` is what the writers keep true of the storage (`StorageInv`: everything
archived lies below every active instant, data belongs to an instant that went
inflight, a replaced file group was committed and is gone before the commit that
replaced it is archived, an active commit is always left), what the loaded view
remembers of the moment of opening (`LoadedInv`), what the query in progress has
resolved (`QueryInv`) and what the consumer was given (`ConsumerInv`). `Progress`,
an action formula, says how far the writers may move under a loaded view: times grow,
and what was completed stays completed or is archived. `SnapshotExact` needs the
archive order: an instant below the first one loaded counts as committed without
having been seen.

`SnapshotTheorem` and `GateTheorem` assume that no table service writes to the table
(`Actions \cap TableServices = {}`). Without it both are false: the run
`timeline_pending_service` shows why, and its finding quotes what the code does.
`WindowTheorem`, `NoCommitTwiceTheorem` and `NothingBehindTheorem` need no such
assumption. `NoCommitTwice` does not follow from a growing checkpoint, which may move
backwards when the commit with the latest completion is archived: what the invariant
keeps is that every delivered commit still active is at or below the checkpoint.

### Concurrent reads

The invariant is one formula per reader (`ReaderInv`): it holds only what it asked
for, each slice once (`SliceInv`); what it has read is where its collected slices
begin, and what is in flight belongs to the next chunk (`ReadInv`); and, as long as
no other reader may prune a group it needs (`Undisturbed`, the premise of
`SlicesAsAsked`, which counts groups the other sees as replaced), what it needs is in the shared view from loading to collecting and
in its slices from then on (`NeedsInv`). A step of one reader changes another's
invariant only through the view, which `ViewKept` bounds. `BudgetTheorem` is
arithmetic over the sum of the estimates of what is in flight.

### The merge map

`PlacesInv` says of each place a record can be in - memory, in transit from memory to
disk, staged, flushed and indexed - that what is kept there means what was last
written at that key (`PlacesFit`); that no key is in two places, a staged row over an
older index entry excepted (`Apart`); and that until the drain no written key is in
none (`Whole`). `Phases` says when entries may be in transit and that the drain finds
no staged rows. Two arguments carry it:

* *Addresses are reused.* A record in memory refers to a row of a batch by address;
  a batch dies with its last reference and its address may be given out again.
  `DropKeeps` shows that freeing what nothing holds keeps every record its row;
  `FreshBatch` that an allocation at a free address disturbs none.
* *Rows are renumbered.* Compaction and flush lay the live rows of a batch out in
  some order and store each row's new place. `PlaceInFinds` (by counting: an injection
  between equally large finite sets is onto) shows that the place found is the row's.

`LookupExact` follows at every point where a lookup can happen. For the drain,
`Drained` says that a written key is either still there or has come out once, and
`DecodedOnce` that whatever was decoded lies behind the drain, or is its current batch
and in the cache: with the entries in batch order a cache of one batch is enough.

For the refinement, the abstract map is the history of writes while the map is open,
and in the drain what of it is left (`View`); `ContentsAreView` derives from
`PlacesInv` that this is what the tiers hold together. Each step is then one step of
`RecordMap` or none: storing is `Put`, a base row's match is `Remove`, a failed last
flush is `Break`, and every eviction, compaction, spill and flush is a stuttering
step.

### The merge map's counters and limits

`Counted` says that the reference count of every batch is the number of entries that
refer to it, that the total is the sum of the sizes of the batches referred to, and
that the owned bytes are the sum of the entries' charges. It is stated over a map and
a heap rather than over the state (`PinsExact`, `OwnedExact`): replacing an entry
unpins one batch and pins another, and the map in between is no state of the program.
Because the counts are exact, the saturating subtractions never saturate, which is
what lets the sums be taken apart again. The peak is brought up to date at the end of
an eviction, so it may be behind inside one (`Reclaiming`).

`LimitsInv` is about an eviction pass. Inside one, every pinned batch is still queued
or has been compacted by this pass to its live rows (`Fresh`), and the pass aims at or
below the low-water mark of the budget unless nothing dead was resident to begin
with; a pass that ends has reached its target or has emptied its queue, and then all
that is pinned is fresh. The cap needs two more facts: that the compaction at the end
of the scan visits each batch once and finds it sparse, so that it only shrinks the
footprint, and that a cap no smaller than the soft budget is exceeded only when the
soft pass has left nothing to compact, so that the cap's own pass can spill all it
visits. The second is why `CapErrorIrreducible` has its premise: the proof failed
without it, and TLC has the counterexample on an instance with a cap below the budget.
In the same way the proof of `LimitsKept` showed that the low-water mark belongs into
its statement.

### The record buffer

`RekeyInv` says that while records are told apart by position the map has an entry
for exactly the positions seen, that each entry spells the key of the base row there
- in its row, or in its envelope if it is a tombstone, whichever versions were merged
into it and wherever it was kept (`StoredVersion`, `MergedVersion`) - and that
positions are in use exactly until the first record without one. The code compares
the number of keys with the number of entries; `ClashExact` shows by counting that
these differ exactly when two base rows of one key have an entry.

`PathsAgree` needs only that a tombstone keeps no row (`BareInv`): the kernel decides
from the ordering value of the base row alone, which is enough because a base row is
never a delete (`KernelAgrees`).

`MergeExact` and `PlaceholdersFilled` have an invariant of three layers.

* `BufferInv`, of the scan: under each key or position of the map is what the versions
  that came for it say together (`EntryOK`): the version ranked highest won, it is a
  tombstone exactly if that one is, and a column is missing only where no version had
  it or a delete above took it away. The merge of one more version keeps this
  whichever of the two wins, because `Ranked` makes the order total. Re-keying carries
  it from positions to keys: a position has one key, and a fallback that would put two
  entries under one key is refused (`RekeyExact`).
* `RowsInv`, of the stream: the map has lost exactly what the base rows so far looked
  up, and each of those rows has given what its versions and its own row say (`PosOK`);
  in the drain what is left are the records only the log has.
* `CountInv`: inserts, updates, deletes and what is still in the map add up to the
  keys of the log, rows handed out and deletes to the base rows passed and the log-only
  records drained. It gives `CountedOnce`, the part of `MergeExact` about the counts.

### The listing

The protocol of the writers and the reader's inferences meet in an invariant of three
parts, each of which TLC checks too.

* `WritersInv`: requests and completions come from one clock (`ClockInv`); an insert
  precedes every other file of its group, a compaction speaks of what had completed
  when it was requested, a clean of what a later slice has (`OverInv`); what is missing
  on storage is rolled back or superfluous (`FilesInv`); and the archive lies below the
  active timeline, with a completed commit below every pending compaction
  (`ArchiveInv`). The last of these is what makes `IsCommitted` right: without it a
  pending compaction is below the boundary, which is finding 1.
* `MetadataInv`: a block adds the file of its instant or removes what that speaks of
  (`BlocksFit`), a file has an entry from the moment its instant is logged (`Entered`),
  and what has a tombstone is rolled back or superfluous (`TombsFit`). The entry of a
  completed rollback comes behind the one it removes (`Buried`). It is stated for any
  metadata table, so that it holds of the one on storage and of the reader's copy.
* `ReaderInv`: what was committed at the opening is told from what was not
  (`LoadedInv`); the reader's copy of the metadata table may be newer than its timeline,
  but has an entry for all that was committed then (`CopyInv`), and no committed block
  is taken for pending (`PendingInv`). A listing has only files committed at the
  opening, and all of them but superfluous ones (`Enough`).

`StorageEnough` and `MetadataEnough` show that either source gives a listing that is
`Enough`; `Evolves`, an action formula, says what every step of a writer keeps, so that
a reader's knowledge outlives it. `FileGroupProps` says what `add_log_files` makes of
any set of files: a base file's slice gets the log files that completed after it was
requested and before the next one was (`SliceLogs`), and all log files that precede
every base file are in one slice, as long as their completion times are known
(`Orphans`). Both theorems then are about intervals of times: a write that completed
before the slice's compaction was requested is in its base file, a later one in its
log files. Two listings that are `Enough` differ below the cleaned compaction only,
and no slice read lies there. `ExactTheorem` keeps the premise `PlacedAlike` of
`EachWriteOnce`, which finding 3 shows to be needed.

### Sums and folds

The library's `MapThenSumSet` is a recursive function over sets. `FiniteLemmas`
proves what the bounds need of it - it is a natural, adding or taking out an element
changes it by its value, a subset sums to less - by a least counterexample among the
subsets of a finite set, since the induction rules of the library cannot be
instantiated. `FlattenSeq`, which builds the bytes of a file, is treated the same way,
and so is `MapThenFoldSet`, with which `TableListing` folds log files into slices and
metadata records into one: the recursion has a solution (`FoldExists`) and one only
(`FoldAgree`), so a fact about the fold is one about the step.

### Only model-checked

* Liveness: `ScanReturns`, `EventuallyDelivered`, `ReadReturns`, `Terminates`,
  `WalkEnds`, `ReadsEnd`.

Every invariant and every safety action property of the passing runs is proved, two of
them (`SnapshotExact`, `GateExact`) on a table without table services, where alone
they hold, and three (`WalkExact`, `DamageSeen`, `FailsOnlyTorn`) for legible files.

## Plan

Done: log scan, timeline, merge map, log file walk, record buffers and mergers,
listing with the metadata table, concurrent reads, with proofs for all of them. Nothing
of the plan is left; what the project leaves out is listed below.

## Not modelled, and why

Payload decoding, schema evolution, expressions, key generation, commit-metadata
parsing and configuration are data conversions without a protocol; base-file
readers, bindings and benchmarks are I/O or adapters over other libraries. The
HFile reader is a sequential lookup in immutable bytes; `reader_v2/engine.rs`,
`record_context.rs` and `file_group/reader.rs` choose and configure the parts that
are modelled and convert batches. Column statistics, record index and key routing of
the metadata table only narrow what is read. The archived timeline is not read by
the code for layout 2 and is off by default. A listing is one step: `object_store`
hides its pages, and what a store guarantees between pages is not in this code.

About half of the lines under `crates/` are unit tests inside the source files, and a
third of the rest comments and conversions; the modules cover the parts that hold
state across an await, a block, or a read. `PROJECT.json` lists every part with its
status.
