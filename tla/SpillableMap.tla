---------------------------- MODULE SpillableMap ----------------------------
(***************************************************************************)
(* The merge map of the file group reader: SpillableRecordMap with its     *)
(* disk tier RocksDbDiskMap (reader_v2/buffer/spillable_map.rs), driven    *)
(* the way the key-based record buffer drives it.                          *)
(*                                                                         *)
(*   scan   log blocks are decoded into shared batches; each row is merged *)
(*          into the map, and after every growth of the in-memory tier     *)
(*          whole source batches are evicted (compacted when sparse,       *)
(*          spilled when dense) until the soft budget and then the hard    *)
(*          cap hold;                                                      *)
(*   sparse the end-of-scan compaction;                                    *)
(*   base   base rows take their log record out of the map;                *)
(*   drain  what is left comes out, memory first, then disk.               *)
(*                                                                         *)
(* One thread owns the map; `pc` walks through an operation's steps.       *)
(* Batches are Arc<RecordBatch> pointers: a pointer is reused once its     *)
(* last reference is gone.                                                 *)
(***************************************************************************)
EXTENDS Naturals, Sequences, FiniteSets, SequencesExt

CONSTANTS
    Keys,             \* map keys: record keys, or base-file positions
    Batches,          \* addresses a RecordBatch allocation can have
    NoBatch,
    Schemas,          \* full rows and narrow partial-update rows
    BlockSizes,       \* rows of a decoded block batch
    RowBytes,         \* get_array_memory_size per row
    EntryBytes,       \* key.len() + ENTRY_OVERHEAD_BYTES
    MergeMaxSize,     \* hoodie.memory.merge.max.size
    Reserved,         \* ROCKSDB_RESERVED_BYTES
    HasCap, PeakCap,  \* hoodie.memory.merge.max.peak.size, if set
    SpillBatchRows,   \* SPILL_BATCH_ROWS
    SpillBatchCache,  \* SPILL_BATCH_CACHE
    SpillFeature,     \* built with spill-rocksdb
    DiskMayFail,      \* whether disk operations may return an error
    MaxClock          \* bound: rows and tombstones written in one behaviour

ASSUME ConstantsAssumption ==
    /\ IsFiniteSet(Keys) /\ IsFiniteSet(Batches) /\ NoBatch \notin Batches
    /\ BlockSizes \subseteq Nat \ {0}
    /\ RowBytes \in Nat /\ EntryBytes \in Nat /\ MergeMaxSize \in Nat
    /\ Reserved \in Nat /\ PeakCap \in Nat /\ MaxClock \in Nat
    /\ SpillBatchRows \in Nat \ {0} /\ SpillBatchCache \in Nat \ {0}
    /\ {HasCap, SpillFeature, DiskMayFail} \subseteq BOOLEAN

VARIABLES
    mem,       \* in_memory
    disk,      \* RocksDbDiskMap, `live` once it exists
    pinned,    \* PinnedBatches: live_refs and batch_bytes by address, total
    owned,     \* current_owned_and_overhead_bytes
    peak,      \* peak_in_memory_size
    heap,      \* the rows of every allocated batch
    pc, after, \* the step under way, and where a flush returns to
    pass, target, victims,  \* an eviction pass
    spilled,   \* spill_victim_batch's entries on their way to disk
    block,     \* the block batch being merged and its next row
    clock,     \* rows and tombstones written so far
    out, decodes, flushErr, \* the drain
    error,     \* why the read failed
    written    \* history: the record the caller last stored at each key

evictVars == <<pass, target, victims, spilled>>
callerVars == <<block, clock>>
drainVars == <<out, decodes, flushErr>>
bytesVars == <<pinned, owned, peak>>
readVars == <<callerVars, drainVars, error, written>>
vars == <<mem, disk, bytesVars, heap, pc, after, evictVars, readVars>>

-----------------------------------------------------------------------------
(* Records.  A row is its content and its schema; the content is unique. *)

Row == (1 .. MaxClock) \X Schemas
Ords == 1 .. MaxClock

(* RecordPayload.  `key`: a true record_key, or one rebuilt off the map key. *)
RefRec == [kind : {"ref"}, batch : Batches, row : Nat, ord : Ords,
           key : {"record"}]
OwnedRec == [kind : {"owned"}, row : Row, ord : Ords, key : {"record", "map"}]
DeleteRec == [kind : {"delete"}, ord : Ords, key : {"record", "map"}]
BufferedRecord == RefRec \cup OwnedRec \cup DeleteRec

NewBatchRef(b, i) ==
    [kind |-> "ref", batch |-> b, row |-> i, ord |-> heap[b][i][1],
     key |-> "record"]
NewData(row, ord, key) ==
    [kind |-> "owned", row |-> row, ord |-> ord, key |-> key]
NewDelete(ord, key) == [kind |-> "delete", ord |-> ord, key |-> key]

(* get_record: the single row a record stands for. *)
GetRecord(r) == IF r.kind = "ref" THEN heap[r.batch][r.row] ELSE r.row

(***************************************************************************)
(* What a merge reads off a record.  A data record's own key is the key in *)
(* its row; only a tombstone depends on the record_key field.              *)
(***************************************************************************)
Meaning(r) ==
    IF r.kind = "delete" THEN [row |-> << >>, ord |-> r.ord, key |-> r.key]
    ELSE [row |-> GetRecord(r), ord |-> r.ord, key |-> "record"]

With(f, k, v) == [x \in DOMAIN f \cup {k} |-> IF x = k THEN v ELSE f[x]]
Without(f, S) == [x \in DOMAIN f \ S |-> f[x]]
Monus(m, n) == IF m > n THEN m - n ELSE 0
NoEntries == << >>

-----------------------------------------------------------------------------
(* Shared batches.  A batch lives while something holds its Arc. *)

RefersTo(r, b) == r.kind = "ref" /\ r.batch = b
KeysOf(b) == {k \in DOMAIN mem : RefersTo(mem[k], b)}
PinnedNow == {b \in Batches : KeysOf(b) # {}}

Held(b) ==
    \/ block.batch = b
    \/ KeysOf(b) # {}
    \/ \E k \in DOMAIN disk.staging : RefersTo(disk.staging[k], b)
    \/ \E i \in DOMAIN spilled : RefersTo(spilled[i].rec, b)
    \/ \E i \in DOMAIN victims : victims[i] = b

(* Dropping the last Arc frees the batch; allocations survive otherwise. *)
Drop(h) == heap' = [b \in Batches |-> IF Held(b)' THEN h[b] ELSE << >>]

-----------------------------------------------------------------------------
(* Size accounting. *)

(* SpillConfig::from_parts, 0.8 of the merge budget. *)
MaxInMemory == (MergeMaxSize * 4) \div 5
LowWater(n) == (n * 4) \div 5
BatchBytes(rows) == RowBytes * Len(rows)

AddRefs(p, b, n, rows) ==
    IF p.refs[b] > 0 THEN [p EXCEPT !.refs[b] = @ + n]
    ELSE [refs |-> [p.refs EXCEPT ![b] = n],
          bytes |-> [p.bytes EXCEPT ![b] = BatchBytes(rows)],
          total |-> p.total + BatchBytes(rows)]

RemoveRefs(p, b, n) ==
    IF p.refs[b] = 0 THEN p
    ELSE IF p.refs[b] > n THEN [p EXCEPT !.refs[b] = @ - n]
    ELSE [refs |-> [p.refs EXCEPT ![b] = 0],
          bytes |-> [p.bytes EXCEPT ![b] = 0],
          total |-> Monus(p.total, p.bytes[b])]

OwnedPayloadBytes(r) == IF r.kind = "owned" THEN RowBytes ELSE 0
EntryCharge(r) == EntryBytes + OwnedPayloadBytes(r)

Pinning(p, r) ==
    IF r.kind = "ref" THEN AddRefs(p, r.batch, 1, heap[r.batch]) ELSE p
Unpinning(p, r) == IF r.kind = "ref" THEN RemoveRefs(p, r.batch, 1) ELSE p

Retained == pinned.total + owned
Allowance == IF disk.live THEN Monus(MaxInMemory, Reserved) ELSE MaxInMemory
OverBudget == Retained >= Allowance

TrackPeak == peak' = IF Retained' > peak THEN Retained' ELSE peak

-----------------------------------------------------------------------------
(* The disk tier. *)

NoDisk == [live |-> FALSE, staging |-> NoEntries, index |-> NoEntries,
           blobs |-> << >>, len |-> 0, cache |-> << >>]

OnDisk(k) == k \in DOMAIN disk.staging \cup DOMAIN disk.index
MapLen == Cardinality(DOMAIN mem) + disk.len

(* record_from_entry, over the blobs written so far. *)
RecordFromEntry(k) ==
    LET e == disk.index[k]
    IN  IF e.kind = "delete" THEN NewDelete(e.ord, e.key)
        ELSE NewData(disk.blobs[e.blob][e.row], e.ord, "map")

DiskGet(k) ==
    IF k \in DOMAIN disk.staging THEN disk.staging[k] ELSE RecordFromEntry(k)
Get(k) == IF k \in DOMAIN mem THEN mem[k] ELSE DiskGet(k)
ContainsKey(k) == k \in DOMAIN mem \/ OnDisk(k)

(* The batch a lookup of k decodes, if it reaches a flushed data row. *)
DecodedBy(k) ==
    IF /\ k \notin DOMAIN mem \cup DOMAIN disk.staging
       /\ k \in DOMAIN disk.index
       /\ disk.index[k].kind = "data"
    THEN {disk.index[k].blob} ELSE {}

(* load_batch: the decoded batches kept, oldest dropped first. *)
Loaded(cache, k) ==
    LET missed == DecodedBy(k) \ ToSet(cache)
        longer == cache \o SetToSeq(missed)
    IN  IF Len(longer) > SpillBatchCache THEN Tail(longer) ELSE longer

Probed(k) == [disk EXCEPT !.cache = Loaded(@, k)]

DeleteEntry(r) == [kind |-> "delete", ord |-> r.ord, key |-> r.key]
DataEntry(blob, row, ord) ==
    [kind |-> "data", blob |-> blob, row |-> row, ord |-> ord]

(* Fault: a tombstone leaves the key's staged row in place. *)
PutIntoKeepsStaged(d, k, r) ==
    LET new == IF k \in DOMAIN d.staging \cup DOMAIN d.index THEN 0 ELSE 1
    IN  IF r.kind = "delete"
        THEN [d EXCEPT !.index = With(@, k, DeleteEntry(r)), !.len = @ + new]
        ELSE [d EXCEPT !.staging = With(@, k, r), !.len = @ + new]

(* RocksDbDiskMap::put, up to its flush. *)
PutInto(d, k, r) ==
    LET new == IF k \in DOMAIN d.staging \cup DOMAIN d.index THEN 0 ELSE 1
    IN  IF r.kind = "delete"
        THEN [d EXCEPT !.staging = Without(@, {k}),
                       !.index = With(@, k, DeleteEntry(r)),
                       !.len = @ + new]
        ELSE [d EXCEPT !.staging = With(@, k, r),
                       !.len = @ + new]

(* The flush a full staging area forces, on the way to `next`. *)
FlushWhenFull(next) ==
    IF Cardinality(DOMAIN disk'.staging) >= SpillBatchRows
    THEN pc' = "flush" /\ after' = next
    ELSE pc' = next /\ UNCHANGED after

(* ensure_disk *)
EnsureDisk(d) == IF d.live THEN d ELSE [NoDisk EXCEPT !.live = TRUE]
DiskAvailable == disk.live \/ SpillFeature

FailRead(why) ==
    /\ pc' = "failed"
    /\ error' = why
    /\ UNCHANGED <<mem, disk, bytesVars, heap, after, evictVars, callerVars,
                   drainVars, written>>

-----------------------------------------------------------------------------
Init ==
    /\ mem = NoEntries
    /\ disk = NoDisk
    /\ pinned = [refs |-> [b \in Batches |-> 0],
                 bytes |-> [b \in Batches |-> 0], total |-> 0]
    /\ owned = 0 /\ peak = 0
    /\ heap = [b \in Batches |-> << >>]
    /\ pc = "scan" /\ after = "scan"
    /\ pass = "soft" /\ target = 0 /\ victims = << >> /\ spilled = << >>
    /\ block = [batch |-> NoBatch, next |-> 1]
    /\ clock = 0
    /\ out = [k \in Keys |-> << >>] /\ decodes = << >> /\ flushErr = FALSE
    /\ error = "none"
    /\ written = NoEntries

-----------------------------------------------------------------------------
(* Storing a record: SpillableRecordMap::insert and merge_in_place. *)

(* Fault: the replaced record keeps its source batch pinned. *)
MergeInPlaceLeaks(k, r) ==
    /\ ~disk.live
    /\ k \in DOMAIN mem
    /\ pinned' = Pinning(pinned, r)
    /\ owned' = Monus(owned, EntryCharge(mem[k])) + EntryCharge(r)
    /\ mem' = With(mem, k, r)
    /\ TrackPeak
    /\ pc' = "soft"
    /\ UNCHANGED <<disk, after>>

(* The fast path of merge_in_place, its accounting inlined. *)
MergeInPlace(k, r) ==
    /\ ~disk.live
    /\ k \in DOMAIN mem
    /\ pinned' = Pinning(Unpinning(pinned, mem[k]), r)
    /\ owned' = Monus(owned, EntryCharge(mem[k])) + EntryCharge(r)
    /\ mem' = With(mem, k, r)
    /\ TrackPeak
    /\ pc' = "soft"
    /\ UNCHANGED <<disk, after>>

(* insert over an in-memory entry. *)
InsertOver(k, r) ==
    /\ k \in DOMAIN mem
    /\ pinned' = Pinning(Unpinning(pinned, mem[k]), r)
    /\ owned' = Monus(Monus(owned, EntryBytes), OwnedPayloadBytes(mem[k]))
                + EntryCharge(r)
    /\ mem' = With(mem, k, r)
    /\ TrackPeak
    /\ pc' = "soft"
    /\ UNCHANGED <<disk, after>>

(* insert over an entry on disk: it is replaced there, whatever its kind. *)
InsertOnDisk(k, r) ==
    /\ k \notin DOMAIN mem
    /\ disk.live /\ OnDisk(k)
    /\ disk' = PutInto(Probed(k), k, r)
    /\ FlushWhenFull("scan")
    /\ UNCHANGED <<mem, bytesVars>>

(* A new tombstone or owned record while over budget goes straight to disk. *)
InsertSpilled(k, r) ==
    /\ ~ContainsKey(k)
    /\ r.kind # "ref" /\ OverBudget
    /\ DiskAvailable
    /\ disk' = PutInto(EnsureDisk(disk), k, r)
    /\ FlushWhenFull("scan")
    /\ UNCHANGED <<mem, bytesVars>>

InsertInMemory(k, r) ==
    /\ ~ContainsKey(k)
    /\ r.kind = "ref" \/ ~OverBudget
    /\ pinned' = Pinning(pinned, r)
    /\ owned' = owned + EntryCharge(r)
    /\ mem' = With(mem, k, r)
    /\ TrackPeak
    /\ pc' = "soft"
    /\ UNCHANGED <<disk, after>>

(* get followed by insert, or merge_in_place: the caller stores r at k. *)
Store(k, r) ==
    /\ \/ MergeInPlace(k, r)
       \/ InsertOver(k, r)
       \/ InsertOnDisk(k, r)
       \/ InsertSpilled(k, r)
       \/ InsertInMemory(k, r)
    /\ written' = With(written, k, Meaning(r))
    /\ UNCHANGED <<evictVars, drainVars, error>>

(* The merge keeps the existing record: only the fast path checks limits. *)
KeepExisting(k) ==
    /\ ContainsKey(k)
    /\ pc' = IF disk.live THEN "scan" ELSE "soft"
    /\ disk' = Probed(k)
    /\ UNCHANGED <<mem, bytesVars, after, evictVars, drainVars, error,
                   written>>

-----------------------------------------------------------------------------
(* The record buffer's use of the map during the scan. *)

RowsLeft == block.batch # NoBatch /\ block.next <= Len(heap[block.batch])
BetweenBlocks == block.batch = NoBatch

(* process_data_block interns a decoded batch. *)
DecodeBatch ==
    /\ pc = "scan" /\ BetweenBlocks
    /\ \E n \in BlockSizes, s \in Schemas :
        \E b \in {c \in Batches : ~Held(c)} :
            /\ clock + n <= MaxClock
            /\ clock' = clock + n
            /\ block' = [batch |-> b, next |-> 1]
            /\ heap' = [heap EXCEPT ![b] = [i \in 1 .. n |-> <<clock + i, s>>]]
    /\ UNCHANGED <<mem, disk, bytesVars, pc, after, evictVars, drainVars,
                   error, written>>

(* What the merger can store: the row, a fold, a tombstone, the prior. *)
Outcomes(k) ==
    LET row == heap[block.batch][block.next]
    IN  {NewBatchRef(block.batch, block.next), NewData(row, row[1], "record"),
         NewDelete(row[1], "record")}
        \cup (IF ContainsKey(k) THEN {Get(k)} ELSE {})

(* process_next_data_record *)
MergeRow ==
    /\ pc = "scan" /\ RowsLeft
    /\ block' = [block EXCEPT !.next = @ + 1]
    /\ UNCHANGED clock
    /\ \E k \in Keys : \/ \E r \in Outcomes(k) : Store(k, r)
                       \/ KeepExisting(k)
    /\ Drop(heap)

(* process_next_deleted_record *)
MergeDelete ==
    /\ pc = "scan" /\ BetweenBlocks
    /\ clock < MaxClock
    /\ clock' = clock + 1
    /\ UNCHANGED block
    /\ \E k \in Keys : \/ Store(k, NewDelete(clock + 1, "record"))
                       \/ KeepExisting(k)
    /\ Drop(heap)

(* The block batch goes out of scope after its last row. *)
EndBatch ==
    /\ pc = "scan" /\ block.batch # NoBatch /\ ~RowsLeft
    /\ block' = [batch |-> NoBatch, next |-> 1]
    /\ UNCHANGED <<mem, disk, bytesVars, pc, after, evictVars, clock,
                   drainVars, error, written>>
    /\ Drop(heap)

(* A lookup that has to read a spilled batch returns the disk's error. *)
LookupFails ==
    /\ DiskMayFail
    /\ pc \in {"scan", "base"}
    /\ pc = "scan" => RowsLeft \/ (BetweenBlocks /\ clock < MaxClock)
    /\ \E k \in Keys : DecodedBy(k) \ ToSet(disk.cache) # {}
    /\ FailRead("disk")

(* ensure_disk cannot open the disk tier a new entry needs. *)
InsertFails ==
    /\ pc = "scan"
    /\ RowsLeft \/ (BetweenBlocks /\ clock < MaxClock)
    /\ ~disk.live /\ (DiskMayFail \/ ~SpillFeature)
    /\ OverBudget
    /\ \E k \in Keys : ~ContainsKey(k)
    /\ FailRead("disk")

Scan == DecodeBatch \/ MergeRow \/ MergeDelete \/ EndBatch

-----------------------------------------------------------------------------
(* enforce_memory_limits *)

(* evict_source_batches_until: the pinned batches, largest first. *)
VictimOrders ==
    {o \in SetToSeqs(PinnedNow) :
        \A i, j \in DOMAIN o : i < j => Len(heap[o[i]]) >= Len(heap[o[j]])}

StartEviction(p, t) ==
    /\ pc' = "evict"
    /\ pass' = p
    /\ target' = t
    /\ \E o \in VictimOrders : victims' = o
    /\ UNCHANGED spilled

(* Fault: once something has spilled the budget is taken to hold. *)
CheckBudgetUntilSpill ==
    /\ pc = "soft"
    /\ \/ ~disk.live /\ OverBudget /\ StartEviction("soft", LowWater(Allowance))
       \/ (disk.live \/ ~OverBudget) /\ pc' = "cap" /\ UNCHANGED evictVars
    /\ UNCHANGED <<mem, disk, bytesVars, heap, after, readVars>>

CheckBudget ==
    /\ pc = "soft"
    /\ \/ OverBudget /\ StartEviction("soft", LowWater(Allowance))
       \/ ~OverBudget /\ pc' = "cap" /\ UNCHANGED evictVars
    /\ UNCHANGED <<mem, disk, bytesVars, heap, after, readVars>>

OverCap == HasCap /\ Retained > PeakCap

(* Fault: the cap is checked without trying to evict. *)
CheckCapNoEviction ==
    /\ pc = "cap"
    /\ pc' = IF OverCap THEN "capped" ELSE "scan"
    /\ UNCHANGED <<mem, disk, bytesVars, heap, after, evictVars, readVars>>

(* enforce_peak_cap up to its eviction. *)
CheckCap ==
    /\ pc = "cap"
    /\ \/ OverCap /\ StartEviction("cap", LowWater(PeakCap))
       \/ ~OverCap /\ pc' = "scan" /\ UNCHANGED evictVars
    /\ UNCHANGED <<mem, disk, bytesVars, heap, after, readVars>>

(* enforce_peak_cap after its eviction. *)
AcceptFootprint ==
    /\ pc = "capped" /\ ~OverCap
    /\ pc' = "scan"
    /\ UNCHANGED <<mem, disk, bytesVars, heap, after, evictVars, readVars>>

RejectFootprint == pc = "capped" /\ OverCap /\ FailRead("limit")

(* One row of every live entry, fed to interleave in the order ks. *)
CompactRows(ks) == [i \in DOMAIN ks |-> GetRecord(mem[ks[i]])]

(* Fault: rows are numbered from the other end. *)
PlaceInReversed(ks, k) == Len(ks) + 1 - (CHOOSE i \in DOMAIN ks : ks[i] = k)

PlaceIn(ks, k) == CHOOSE i \in DOMAIN ks : ks[i] = k

(* compact_victim_batch: the survivors of b move to the new batch c. *)
CompactTo(b, c, ks) ==
    /\ mem' = [k \in DOMAIN mem |->
                  IF k \in KeysOf(b)
                  THEN [mem[k] EXCEPT !.batch = c, !.row = PlaceIn(ks, k)]
                  ELSE mem[k]]
    /\ pinned' = AddRefs(RemoveRefs(pinned, b, Len(ks)), c, Len(ks),
                         CompactRows(ks))
    /\ Drop([heap EXCEPT ![c] = CompactRows(ks)])

CompactBatch(b) ==
    \E c \in {x \in Batches : ~Held(x)}, ks \in SetToSeqs(KeysOf(b)) :
        CompactTo(b, c, ks)

Sparse(b) == 2 * Cardinality(KeysOf(b)) < Len(heap[b])
Evicting == pc = "evict" /\ victims # << >> /\ Retained > target

CompactVictim ==
    /\ Evicting /\ Sparse(Head(victims))
    /\ victims' = Tail(victims)
    /\ UNCHANGED <<disk, owned, peak, pc, after, pass, target, spilled,
                   readVars>>
    /\ CompactBatch(Head(victims))

(* spill_victim_batch leaves memory first, then opens the disk tier. *)
SpillVictim ==
    LET b == Head(victims)
        n == Cardinality(KeysOf(b))
    IN  /\ Evicting /\ ~Sparse(b)
        /\ DiskAvailable
        /\ \E ks \in SetToSeqs(KeysOf(b)) :
              spilled' = [i \in DOMAIN ks |->
                             [key |-> ks[i], rec |-> mem[ks[i]]]]
        /\ mem' = Without(mem, KeysOf(b))
        /\ pinned' = RemoveRefs(pinned, b, n)
        /\ owned' = Monus(owned, n * EntryBytes)
        /\ disk' = EnsureDisk(disk)
        /\ victims' = Tail(victims)
        /\ pc' = "spill"
        /\ UNCHANGED <<peak, after, pass, target, readVars>>
        /\ Drop(heap)

SpillFails ==
    /\ Evicting /\ ~Sparse(Head(victims))
    /\ ~disk.live /\ (DiskMayFail \/ ~SpillFeature)
    /\ FailRead("disk")

SpillPut ==
    /\ pc = "spill" /\ spilled # << >>
    /\ disk' = PutInto(disk, Head(spilled).key, Head(spilled).rec)
    /\ spilled' = Tail(spilled)
    /\ FlushWhenFull("spill")
    /\ UNCHANGED <<mem, bytesVars, pass, target, victims, readVars>>
    /\ Drop(heap)

(* Fault: the flush returns into the spill it came from. *)
SpillDoneRepeats ==
    /\ pc = "spill" /\ spilled = << >>
    /\ pc' = "flush" /\ after' = "spill"
    /\ UNCHANGED <<mem, disk, bytesVars, heap, evictVars, readVars>>

(* The rows are flushed at once, so that the spilled batch is released. *)
SpillDone ==
    /\ pc = "spill" /\ spilled = << >>
    /\ pc' = "flush" /\ after' = "evict"
    /\ UNCHANGED <<mem, disk, bytesVars, heap, evictVars, readVars>>

EvictionDone ==
    /\ pc = "evict" /\ ~Evicting
    /\ victims' = << >>
    /\ pc' = IF pass = "soft" THEN "cap" ELSE "capped"
    /\ UNCHANGED <<mem, disk, pinned, owned, after, pass, target, spilled,
                   readVars>>
    /\ TrackPeak
    /\ Drop(heap)

EnforceLimits ==
    \/ CheckBudget \/ CheckCap \/ AcceptFootprint \/ RejectFootprint
    \/ CompactVictim \/ SpillVictim \/ SpillFails \/ SpillPut \/ SpillDone
    \/ EvictionDone

-----------------------------------------------------------------------------
(* RocksDbDiskMap::flush, one blob per schema. *)

SchemaOf(r) == GetRecord(r)[2]
StagedWith(s) ==
    {k \in DOMAIN disk.staging : SchemaOf(disk.staging[k]) = s}

FlushGroup ==
    /\ pc = "flush"
    /\ \E s \in Schemas :
        /\ StagedWith(s) # {}
        /\ \E ks \in SetToSeqs(StagedWith(s)) :
            LET st == disk.staging
                id == Len(disk.blobs) + 1
                row(i) == GetRecord(st[ks[i]])
            IN  disk' = [disk EXCEPT
                    !.blobs = Append(@, [i \in DOMAIN ks |-> row(i)]),
                    !.index = [k \in DOMAIN @ \cup StagedWith(s) |->
                                  IF k \in StagedWith(s)
                                  THEN DataEntry(id, PlaceIn(ks, k), st[k].ord)
                                  ELSE @[k]],
                    !.staging = Without(@, StagedWith(s))]
    /\ UNCHANGED <<mem, bytesVars, pc, after, evictVars, readVars>>
    /\ Drop(heap)

FlushDone ==
    /\ pc = "flush" /\ DOMAIN disk.staging = {}
    /\ pc' = after
    /\ UNCHANGED <<mem, disk, bytesVars, heap, after, evictVars, readVars>>

FlushFails ==
    /\ DiskMayFail
    /\ pc = "flush" /\ DOMAIN disk.staging # {} /\ after # "drain"
    /\ FailRead("disk")

(* Fault: the error of the last flush is dropped. *)
LastFlushSwallowed ==
    /\ DiskMayFail
    /\ pc = "flush" /\ DOMAIN disk.staging # {} /\ after = "drain"
    /\ disk' = [disk EXCEPT !.staging = NoEntries]
    /\ pc' = "drain"
    /\ UNCHANGED <<mem, bytesVars, after, evictVars, readVars>>
    /\ Drop(heap)

(* into_drain_iter keeps the error for the first record asked of it. *)
LastFlushFails ==
    /\ DiskMayFail
    /\ pc = "flush" /\ DOMAIN disk.staging # {} /\ after = "drain"
    /\ disk' = [disk EXCEPT !.staging = NoEntries]
    /\ flushErr' = TRUE
    /\ pc' = "drain"
    /\ UNCHANGED <<mem, bytesVars, after, evictVars, callerVars, out, decodes,
                   error, written>>
    /\ Drop(heap)

Flush == FlushGroup \/ FlushDone \/ FlushFails \/ LastFlushFails

-----------------------------------------------------------------------------
(* compact_sparse_batches, at the end of the scan. *)

EndScan ==
    /\ pc = "scan" /\ BetweenBlocks
    /\ \E o \in SetToSeqs({b \in PinnedNow : Sparse(b)}) : victims' = o
    /\ pc' = "sparse"
    /\ UNCHANGED <<mem, disk, bytesVars, heap, after, pass, target, spilled,
                   readVars>>

CompactSparse ==
    /\ pc = "sparse" /\ victims # << >>
    /\ victims' = Tail(victims)
    /\ UNCHANGED <<disk, owned, peak, pc, after, pass, target, spilled,
                   readVars>>
    /\ CompactBatch(Head(victims))

SparseDone ==
    /\ pc = "sparse" /\ victims = << >>
    /\ pc' = "base"
    /\ UNCHANGED <<mem, disk, pinned, owned, heap, after, evictVars, readVars>>
    /\ TrackPeak

CompactSparseBatches == EndScan \/ CompactSparse \/ SparseDone

-----------------------------------------------------------------------------
(* The base rows take their log records: remove. *)

RemoveInMemory(k) ==
    /\ k \in DOMAIN mem
    /\ pinned' = Unpinning(pinned, mem[k])
    /\ owned' = Monus(owned, EntryCharge(mem[k]))
    /\ mem' = Without(mem, {k})
    /\ UNCHANGED disk

RemoveOnDisk(k) ==
    /\ k \notin DOMAIN mem /\ OnDisk(k)
    /\ disk' = [Probed(k) EXCEPT !.staging = Without(@, {k}),
                                 !.index = Without(@, {k}),
                                 !.len = @ - 1]
    /\ UNCHANGED <<mem, pinned, owned>>

RemoveMatched ==
    /\ pc = "base"
    /\ \E k \in Keys : /\ RemoveInMemory(k) \/ RemoveOnDisk(k)
                       /\ written' = Without(written, {k})
    /\ UNCHANGED <<peak, pc, after, evictVars, callerVars, drainVars, error>>
    /\ Drop(heap)

-----------------------------------------------------------------------------
(* drain_log_only_inserts over drain_iter. *)

StartDrain ==
    /\ pc = "base"
    /\ IF MapLen = 0 THEN pc' = "done" /\ UNCHANGED after
       ELSE IF disk.live THEN pc' = "flush" /\ after' = "drain"
       ELSE pc' = "drain" /\ UNCHANGED after
    /\ UNCHANGED <<mem, disk, bytesVars, heap, evictVars, readVars>>

YieldInMemory ==
    /\ pc = "drain"
    /\ \E k \in DOMAIN mem :
        /\ out' = [out EXCEPT ![k] = Append(@, Meaning(mem[k]))]
        /\ mem' = Without(mem, {k})
    /\ UNCHANGED <<disk, bytesVars, pc, after, evictVars, callerVars, decodes,
                   flushErr, error, written>>
    /\ Drop(heap)

(* Index entries in (batch_id, row_idx) order, tombstones last. *)
DrainsBefore(e, f) ==
    \/ e.kind = "data" /\ f.kind = "delete"
    \/ /\ e.kind = "data" /\ f.kind = "data"
       /\ e.blob < f.blob \/ (e.blob = f.blob /\ e.row < f.row)

NextOnDisk ==
    {k \in DOMAIN disk.index :
        \A j \in DOMAIN disk.index \ {k} :
            ~DrainsBefore(disk.index[j], disk.index[k])}

YieldOnDisk ==
    /\ pc = "drain" /\ DOMAIN mem = {} /\ ~flushErr
    /\ \E k \in NextOnDisk :
        /\ out' = [out EXCEPT ![k] = Append(@, Meaning(RecordFromEntry(k)))]
        /\ disk' = [Probed(k) EXCEPT !.index = Without(@, {k})]
        /\ decodes' = decodes \o SetToSeq(DecodedBy(k) \ ToSet(disk.cache))
    /\ UNCHANGED <<mem, bytesVars, heap, pc, after, evictVars, callerVars,
                   flushErr, error, written>>

DrainFails ==
    /\ pc = "drain" /\ DOMAIN mem = {}
    /\ \/ flushErr
       \/ /\ DiskMayFail
          /\ \E k \in NextOnDisk : DecodedBy(k) \ ToSet(disk.cache) # {}
    /\ FailRead("disk")

DrainDone ==
    /\ pc = "drain" /\ DOMAIN mem = {} /\ ~flushErr /\ DOMAIN disk.index = {}
    /\ pc' = "done"
    /\ UNCHANGED <<mem, disk, bytesVars, heap, after, evictVars, readVars>>

Drain == StartDrain \/ YieldInMemory \/ YieldOnDisk \/ DrainFails \/ DrainDone

(* The read is over. *)
Over == pc \in {"done", "failed"} /\ UNCHANGED vars

Next ==
    \/ Scan \/ LookupFails \/ InsertFails
    \/ EnforceLimits
    \/ Flush
    \/ CompactSparseBatches
    \/ RemoveMatched
    \/ Drain
    \/ Over

Spec == Init /\ [][Next]_vars

(* One thread runs the read and does not stop before its end. *)
LiveSpec == Spec /\ WF_vars(Next)

-----------------------------------------------------------------------------
Pcs == {"scan", "soft", "cap", "capped", "evict", "spill", "flush", "sparse",
        "base", "drain", "done", "failed"}

IsMap(f, T) == DOMAIN f \subseteq Keys /\ f \in [DOMAIN f -> T]

IndexEntry ==
    [kind : {"data"}, blob : Nat, row : Nat, ord : Ords]
    \cup [kind : {"delete"}, ord : Ords, key : {"record", "map"}]

Sense == [row : Row \cup {<< >>}, ord : Ords, key : {"record", "map"}]

TypeOK ==
    /\ IsMap(mem, BufferedRecord)
    /\ disk = [live |-> disk.live, staging |-> disk.staging,
               index |-> disk.index, blobs |-> disk.blobs,
               len |-> disk.len, cache |-> disk.cache]
    /\ IsMap(disk.staging, RefRec \cup OwnedRec)
    /\ IsMap(disk.index, IndexEntry)
    /\ disk.live \in BOOLEAN /\ disk.blobs \in Seq(Seq(Row))
    /\ disk.len \in Nat /\ disk.cache \in Seq(Nat)
    /\ pinned \in [refs : [Batches -> Nat], bytes : [Batches -> Nat],
                   total : Nat]
    /\ owned \in Nat /\ peak \in Nat
    /\ heap \in [Batches -> Seq(Row)]
    /\ pc \in Pcs /\ after \in Pcs
    /\ pass \in {"soft", "cap"} /\ target \in Nat
    /\ victims \in Seq(Batches)
    /\ spilled \in Seq([key : Keys, rec : RefRec])
    /\ block \in [batch : Batches \cup {NoBatch}, next : Nat]
    /\ clock \in 0 .. MaxClock
    /\ out \in [Keys -> Seq(Sense)] /\ decodes \in Seq(Nat)
    /\ flushErr \in BOOLEAN
    /\ error \in {"none", "disk", "limit"}
    /\ IsMap(written, Sense)

(***************************************************************************)
(* A key lives in exactly one place, and what a lookup finds there is what *)
(* the caller last stored: row, ordering value and, for a tombstone, the   *)
(* record key, through any sequence of evictions, compactions, spills,     *)
(* flushes and overwrites in either tier.                                  *)
(***************************************************************************)
Settled == pc \in {"scan", "soft", "cap", "capped", "evict", "sparse", "base"}

LookupExact ==
    Settled =>
        /\ DOMAIN mem \cup DOMAIN disk.staging \cup DOMAIN disk.index
              = DOMAIN written
        /\ \A k \in DOMAIN mem : ~OnDisk(k)
        /\ \A k \in DOMAIN written : Meaning(Get(k)) = written[k]

(***************************************************************************)
(* The running counters never drift from what the in-memory tier keeps     *)
(* alive: every pinned batch once, with its size, and every entry's own    *)
(* bytes.  Saturating arithmetic would hide a drift, and every eviction    *)
(* decision rests on these counters.                                       *)
(***************************************************************************)
AccountingExact ==
    pc \notin {"flush", "drain", "done", "failed"} =>
        /\ \A b \in Batches : pinned.refs[b] = Cardinality(KeysOf(b))
        /\ pinned.total =
              MapThenSumSet(LAMBDA b : BatchBytes(heap[b]), PinnedNow)
        /\ owned = MapThenSumSet(LAMBDA k : EntryCharge(mem[k]), DOMAIN mem)
        /\ peak >= Retained \/ pc \in {"evict", "spill", "sparse"}

(***************************************************************************)
(* Between two operations the in-memory tier is within its allowance, or   *)
(* all it still pins is freshly compacted: no row it keeps resident is     *)
(* dead.  The module doc promises eviction "until back under budget".  The *)
(* pass that opens the disk tier aims at the low-water mark of the whole   *)
(* budget, so up to that mark may stay although the reserve has left a     *)
(* smaller allowance.  The hard cap holds after every operation that       *)
(* returned.                                                               *)
(***************************************************************************)
AllFresh == \A b \in PinnedNow : Cardinality(KeysOf(b)) = Len(heap[b])

LimitsKept ==
    /\ /\ pc = "scan"
       /\ Retained >= Allowance /\ Retained > LowWater(MaxInMemory)
       => AllFresh
    /\ pc \in {"scan", "base"} /\ HasCap => Retained <= PeakCap

(***************************************************************************)
(* The cap's error says the footprint "cannot be reduced by spilling":     *)
(* even with every pinned batch spilled it would exceed the cap.  That     *)
(* takes a cap no smaller than the soft budget: below it a single pass may *)
(* compact a batch that only a second one would spill.                     *)
(***************************************************************************)
CapErrorIrreducible ==
    error = "limit" /\ MaxInMemory <= PeakCap =>
        MapThenSumSet(LAMBDA k : EntryCharge(mem[k]),
                      {k \in DOMAIN mem : mem[k].kind # "ref"}) > PeakCap

(***************************************************************************)
(* A drain that ends without an error gave out exactly the records left in *)
(* the map, each once, spilled or not.  into_drain_iter orders them "so    *)
(* each batch is read and decoded ONCE".                                   *)
(***************************************************************************)
DrainExact ==
    /\ pc = "done" =>
          \A k \in Keys :
              out[k] = IF k \in DOMAIN written THEN <<written[k]>> ELSE << >>
    /\ IsInjective(decodes)

(***************************************************************************)
(* Evictions, flushes and drains terminate: every read returns.            *)
(***************************************************************************)
ReadReturns == <>(pc \in {"done", "failed"})

-----------------------------------------------------------------------------
(* Every tier together, spill_victim_batch's entries included, is one map. *)
InTransit == {spilled[i].key : i \in DOMAIN spilled}
RecordAt(k) ==
    IF k \in InTransit
    THEN spilled[CHOOSE i \in DOMAIN spilled : spilled[i].key = k].rec
    ELSE Get(k)

(* After a failed last flush nothing on disk is given out any more. *)
Contents ==
    IF pc = "failed" THEN << >>
    ELSE IF flushErr THEN [k \in DOMAIN mem |-> Meaning(mem[k])]
    ELSE [k \in DOMAIN mem \cup InTransit \cup DOMAIN disk.staging
                 \cup DOMAIN disk.index |-> Meaning(RecordAt(k))]

Abstract ==
    INSTANCE RecordMap WITH
        Records <- Sense,
        map <- Contents,
        yielded <- out,
        state <- CASE pc = "done" -> "drained"
                   [] pc = "failed" -> "failed"
                   [] pc = "drain" /\ flushErr -> "broken"
                   [] pc = "drain" /\ ~flushErr -> "draining"
                   [] pc = "flush" /\ after = "drain" -> "draining"
                   [] OTHER -> "open"

(***************************************************************************)
(* The two-tier map implements the plain one: only storing, removing and   *)
(* yielding a record changes what the map holds, and each changes one key. *)
(***************************************************************************)
IsRecordMap == Abstract!Spec
=============================================================================
