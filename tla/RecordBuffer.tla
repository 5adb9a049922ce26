---------------------------- MODULE RecordBuffer ----------------------------
(***************************************************************************)
(* The record buffer of one file slice, and the stream that merges it with *)
(* the base file.  Log blocks are taken in one after the other and folded  *)
(* into a map of the newest version per record; then the base file is read *)
(* batch by batch, every row merged with the version buffered for it; at   *)
(* the end what no base row claimed is drained in chunks as inserts.       *)
(*                                                                         *)
(* The map is keyed by record key, or by the row's position in the base    *)
(* file while every block so far came with usable positions.  The first    *)
(* block without them re-keys the whole map.  Entries may move to the      *)
(* spill tier at any time (SpillableMap), which keeps a data record only   *)
(* under its map key.                                                      *)
(*                                                                         *)
(* The value of a column names the version it came from: 0 is the base     *)
(* file, n the n-th log record.                                            *)
(***************************************************************************)
EXTENDS RecordMerge, FiniteSets, Sequences

CONSTANTS Keys,       \* record keys
          Reads,      \* [mode, base]: the table's configuration, and the
                      \* base file, a sequence of [key, ord, holes]
          Orders,     \* ordering values of log records
          Narrow,     \* column sets of partial updates
          Holes,      \* column sets a writer may leave to be filled
          BatchRows,  \* rows per base batch
          ChunkRows,  \* DEFAULT_BATCH_SIZE
          MaxLog,     \* log records per slice
          Faults      \* whether storage and the spill tier may fail

ASSUME RecordBufferAssumption ==
    /\ Columns # {}
    /\ BatchRows \in Nat \ {0}
    /\ ChunkRows \in Nat \ {0}
    /\ MaxLog \in Nat
    /\ Hole # Null
    /\ Hole \notin Nat /\ Null \notin Nat
    /\ Keys \cap Nat = {}
    /\ Orders \subseteq [class : OrderClasses, n : Nat]
    /\ Narrow \cup Holes \subseteq SUBSET Columns
    /\ \A r \in Reads :
         /\ r.base \in Seq([key : Keys, ord : [class : OrderClasses, n : Nat],
                            holes : SUBSET Columns])
         /\ r.mode.merge \in {"commit", "event"}
         /\ {r.mode.positions, r.mode.fill, r.mode.sentinel} \subseteq BOOLEAN
         /\ r.mode.positions => r.base # << >>
         /\ \A p \in DOMAIN r.base : r.base[p].holes # {} => r.mode.fill

VARIABLES
    mode,     \* the configuration of this read
    base,     \* its base file
    log,      \* every log record taken in, with the position it was given
    usePos,   \* should_use_position
    records,  \* records: map key -> buffered version
    spilled,  \* the map keys whose entry lies in the spill tier
    phase,    \* "scan", "base", "drain", "done" or "failed"
    err,      \* why the read failed
    cursor,   \* base rows consumed
    out,      \* rows handed out, each with the base position it replaces
    emitted,  \* how many rows were handed out
    stats     \* StandardUpdateProcessor

vars == <<mode, base, log, usePos, records, spilled, phase, err, cursor,
          out, emitted, stats>>

NoPos == -1
Positions == 0 .. Len(base) - 1
BaseRow(p) ==
    LET b == base[p + 1]
    IN  Data(b.key, b.ord, b.key,
             [c \in Columns |-> IF c \in b.holes THEN Hole ELSE 0])

Put(map, k, v) == [x \in DOMAIN map \cup {k} |-> IF x = k THEN v ELSE map[x]]
Without(map, ks) == [x \in DOMAIN map \ ks |-> map[x]]

Init ==
    /\ \E r \in Reads : mode = r.mode /\ base = r.base
    /\ log = << >>
    /\ usePos = mode.positions
    /\ records = << >>
    /\ spilled = {}
    /\ phase = "scan"
    /\ err = "none"
    /\ cursor = 0
    /\ out = {}
    /\ emitted = 0
    /\ stats = [inserts |-> 0, updates |-> 0, deletes |-> 0]

Fail(why) ==
    /\ phase' = "failed"
    /\ err' = why

----------------------------------------------------------------------------
(* Taking in the log.                                                      *)

(* Fault: a spilled tombstone, too, comes back with the key of the map.    *)
StoredByMapKey(mk) ==
    IF mk \in spilled THEN [records[mk] EXCEPT !.key = mk]
                      ELSE records[mk]

(* Reading an entry back: the spill tier keeps a tombstone's own key, and  *)
(* gives a data record the key of the map.                                 *)
Stored(mk) ==
    IF mk \in spilled /\ ~records[mk].del
    THEN [records[mk] EXCEPT !.key = mk]
    ELSE records[mk]

(* fallback_to_key_based: the key of a data record is read from its row,   *)
(* that of a tombstone from its envelope.                                  *)
RowKey(mk) == IF Stored(mk).del THEN Stored(mk).key ELSE Stored(mk).id
Rekeyed == {RowKey(mk) : mk \in DOMAIN records}

(* Fault: two entries of one key, the second overwrites the first.         *)
NoRekeyClash == FALSE

RekeyClash == Cardinality(Rekeyed) # Cardinality(DOMAIN records)

RekeyedMap ==
    [k \in Rekeyed |->
        LET mk == CHOOSE x \in DOMAIN records : RowKey(x) = k
        IN  [Stored(mk) EXCEPT !.key = k]]

(* The map a log record goes to, and its key there.                        *)
Target(p) == IF usePos /\ p = NoPos THEN RekeyedMap
             ELSE [mk \in DOMAIN records |-> Stored(mk)]
MapKey(k, p) == IF usePos /\ p # NoPos THEN p ELSE k

Merged(block, v, old) ==
    IF block = "delete" THEN DeltaMergeDelete(mode.merge, v, old)
                        ELSE MergeData(mode.merge, mode.fill, v, old)

(* process_data_block and process_delete_block, for a block of one record. *)
(* p is the position its header gives for the record, or NoPos when the    *)
(* header is missing or speaks of another base file.                       *)
ProcessBlock(block, v, p) ==
    /\ phase = "scan"
    /\ Len(log) < MaxLog
    /\ log' = Append(log, [ver |-> v, pos |-> p, block |-> block])
    /\ IF usePos /\ p = NoPos /\ RekeyClash
       THEN /\ Fail("rekey")
            /\ UNCHANGED <<usePos, records, spilled>>
       ELSE LET map == Target(p)
                mk  == MapKey(v.key, p)
            IN  /\ records' = Put(map, mk, IF mk \in DOMAIN map
                                           THEN Merged(block, v, map[mk])
                                           ELSE v)
                /\ usePos' = (usePos /\ p # NoPos)
                /\ spilled' = IF usePos /\ p = NoPos
                              THEN {} ELSE spilled \ {mk}
                /\ UNCHANGED <<phase, err>>
    /\ UNCHANGED <<mode, base, cursor, out, emitted, stats>>

(* The version n a writer appends: its own number in every column, the     *)
(* placeholder in those it had no value for, some columns left out by a    *)
(* partial update.                                                         *)
NewRow(n, columns, holes) ==
    [c \in columns |-> IF c \in holes THEN Hole ELSE n]

(* What writers do: a position is the record's own; a record that is not   *)
(* in the base file has none; placeholders and narrow records belong to    *)
(* the modes that have them, and are sent for records that exist.          *)
PositionsOf(k) ==
    {NoPos} \cup {p \in Positions : base[p + 1].key = k}
Known(k) ==
    /\ \/ \E p \in Positions : base[p + 1].key = k
       \/ \E i \in DOMAIN log : /\ log[i].ver.key = k
                                /\ DOMAIN log[i].ver.row = Columns
    /\ \A i \in DOMAIN log : log[i].ver.key = k => ~log[i].ver.del

(* Commit-time tables do not look at ordering values.                      *)
OrdersHere == IF mode.merge = "commit" THEN {DefaultOrder} ELSE Orders

ProcessDataBlock ==
    \E k \in Keys, o \in OrdersHere, columns \in {Columns} \cup Narrow,
       holes \in {{}} \cup Holes :
        /\ columns # Columns => ~mode.fill /\ Known(k)
        /\ holes # {} => mode.fill /\ Known(k)
        /\ \E p \in PositionsOf(k) :
            /\ mode.positions \/ p = NoPos
            /\ ProcessBlock("data",
                   Data(k, o, k, NewRow(Len(log) + 1, columns, holes)), p)

(* A row of a data block that carries a delete marker.                     *)
ProcessDeleteMarker ==
    \E k \in Keys, o \in OrdersHere : \E p \in PositionsOf(k) :
        /\ mode.positions \/ p = NoPos
        /\ ProcessBlock("data", Tombstone(k, o), p)

ProcessDeleteBlock ==
    \E k \in Keys, o \in OrdersHere : \E p \in PositionsOf(k) :
        /\ mode.positions \/ p = NoPos
        /\ ProcessBlock("delete", Tombstone(k, o), p)

(* The map goes over its budget: an entry moves to the spill tier.  Under  *)
(* its record key it comes back as it was, so only positions matter here.  *)
Spill ==
    /\ phase = "scan"
    /\ usePos
    /\ \E mk \in DOMAIN records \ spilled : spilled' = spilled \cup {mk}
    /\ UNCHANGED <<mode, base, log, usePos, records, phase, err, cursor,
                   out, emitted, stats>>

EndScan ==
    /\ phase = "scan"
    /\ phase' = "base"
    /\ UNCHANGED <<mode, base, log, usePos, records, spilled, err, cursor,
                   out, emitted, stats>>

----------------------------------------------------------------------------
(* Reading the base file and draining the rest.                            *)

(* Fault: rows go on being looked up by position after the fallback.       *)
LookupKeyStale(p) == IF mode.positions THEN p ELSE base[p + 1].key

LookupKey(p) == IF usePos THEN p ELSE base[p + 1].key

Batch == {p \in Positions : cursor <= p /\ p < cursor + BatchRows}

(* The rows of the batch that find a version: a lookup removes it, so only *)
(* the first of two rows with one key does.                                *)
Matched ==
    {p \in Batch : /\ LookupKey(p) \in DOMAIN records
                   /\ \A q \in Batch : q < p => LookupKey(q) # LookupKey(p)}

MergedRow(p) == MergeBaseRow(mode.merge, mode.fill, BaseRow(p),
                             Stored(LookupKey(p)))

OutRow(p, v) == [pos |-> p, key |-> v.id, row |-> v.row]

(* merge_one_base_batch_kernel: kept rows, then the merged ones.           *)
MergeBaseBatch ==
    LET gone == {p \in Matched : MergedRow(p).del}
        live == Matched \ gone
        rows == {OutRow(p, BaseRow(p)) : p \in Batch \ Matched}
                    \cup {OutRow(p, MergedRow(p)) : p \in live}
    IN  /\ phase = "base"
        /\ Batch # {}
        /\ out' = out \cup rows
        /\ emitted' = emitted + Cardinality(Batch \ gone)
        /\ records' = Without(records, {LookupKey(p) : p \in Matched})
        /\ spilled' = spilled \ {LookupKey(p) : p \in Matched}
        /\ stats' = [stats EXCEPT !.updates = @ + Cardinality(live),
                                  !.deletes = @ + Cardinality(gone)]
        /\ cursor' = cursor + Cardinality(Batch)
        /\ UNCHANGED <<mode, base, log, usePos, phase, err>>

(* Fault: an exhausted source is polled again.                             *)
BaseExhaustedPolled ==
    /\ phase = "base"
    /\ Batch = {}
    /\ UNCHANGED vars

BaseExhausted ==
    /\ phase = "base"
    /\ Batch = {}
    /\ phase' = "drain"
    /\ UNCHANGED <<mode, base, log, usePos, records, spilled, err, cursor,
                   out, emitted, stats>>

(* The base file's stream, the spill tier under a lookup, or the drain     *)
(* fails: the stream reports it once and is done.                          *)
StorageError ==
    /\ Faults
    /\ phase \in {"base", "drain"}
    /\ Fail("storage")
    /\ UNCHANGED <<mode, base, log, usePos, records, spilled, cursor, out,
                   emitted, stats>>

(* drain_log_only_inserts: as many entries, in the map's own order, as     *)
(* give one chunk of rows; tombstones are passed over.  An empty chunk     *)
(* ends the stream.                                                        *)
Chunks ==
    {ks \in SUBSET DOMAIN records :
        LET n == Cardinality({mk \in ks : ~records[mk].del})
        IN  n = ChunkRows \/ (n < ChunkRows /\ ks = DOMAIN records)}

Inserted(mk) ==
    LET v == records[mk] IN [v EXCEPT !.row = Pad(v.row)]
HasHole(row) == \E c \in DOMAIN row : row[c] = Hole

(* guard_no_unavailable_sentinel is for FILL_UNAVAILABLE; a default is a   *)
(* value like any other.                                                   *)
Leaks(ks) ==
    /\ mode.sentinel
    /\ \E mk \in ks : HasHole(records[mk].row)

DrainLogOnlyInserts ==
    \E ks \in Chunks :
        LET live == {mk \in ks : ~records[mk].del}
        IN  /\ phase = "drain"
            /\ records' = Without(records, ks)
            /\ spilled' = spilled \ ks
            /\ stats' = [stats EXCEPT
                    !.inserts = @ + Cardinality(live),
                    !.deletes = @ + Cardinality(ks \ live)]
            /\ IF Leaks(live)
               THEN Fail("sentinel") /\ UNCHANGED <<out, emitted>>
               ELSE /\ out' = out \cup {OutRow(NoPos, Inserted(mk)) :
                                            mk \in live}
                    /\ emitted' = emitted + Cardinality(live)
                    /\ phase' = IF live = {} THEN "done" ELSE "drain"
                    /\ UNCHANGED err
            /\ UNCHANGED <<mode, base, log, usePos, cursor>>

(* A stream that is done answers None for ever.                            *)
NextChunkDone ==
    /\ phase \in {"done", "failed"}
    /\ UNCHANGED vars

NextChunk ==
    MergeBaseBatch \/ BaseExhausted \/ DrainLogOnlyInserts \/ NextChunkDone

Next ==
    \/ ProcessDataBlock \/ ProcessDeleteMarker \/ ProcessDeleteBlock
    \/ Spill \/ EndScan \/ StorageError \/ NextChunk

(* The scan loop runs to its end, and the consumer polls until None.       *)
Fairness == WF_vars(EndScan) /\ WF_vars(NextChunk)

Spec == Init /\ [][Next]_vars /\ Fairness

----------------------------------------------------------------------------
(* What a finished read promises.                                          *)

TypeOK ==
    /\ [mode |-> mode, base |-> base] \in Reads
    /\ usePos \in BOOLEAN /\ (usePos => mode.positions)
    /\ DOMAIN records \subseteq IF usePos THEN Positions ELSE Keys
    /\ spilled \subseteq DOMAIN records
    /\ phase \in {"scan", "base", "drain", "done", "failed"}
    /\ (phase = "failed") = (err # "none")
    /\ cursor \in 0 .. Len(base)
    /\ \A o \in out : DOMAIN o.row = Columns

UniqueKeys ==
    \A p, q \in Positions : base[p + 1].key = base[q + 1].key => p = q

(* The log records for the base row at p, and for a key with no base row.  *)
OpsAt(p) ==
    {i \in DOMAIN log : /\ log[i].ver.key = base[p + 1].key
                        /\ UniqueKeys \/ log[i].pos \in {p, NoPos}}
OpsOf(k) == {i \in DOMAIN log : log[i].ver.key = k}
LogOnly ==
    {k \in Keys : OpsOf(k) # {} /\ \A p \in Positions : base[p + 1].key # k}

(* Version 0 is the base row.                                              *)
Version(i, p) == IF i = 0 THEN BaseRow(p) ELSE log[i].ver

(* The order of the versions of one record: by arrival, or by ordering     *)
(* value and then arrival, an unordered delete above everything.           *)
Above(i, j, p) ==
    LET top(x) == mode.merge = "event" /\ CommitTimeDelete(Version(x, p))
        rank(x) == IF mode.merge = "event" /\ ~top(x)
                   THEN Version(x, p).ord.n ELSE 0
    IN  IF top(i) = top(j)
        THEN rank(i) > rank(j) \/ (rank(i) = rank(j) /\ i >= j)
        ELSE top(i)

Winner(is, p) == CHOOSE i \in is : \A j \in is : Above(i, j, p)

(* The ordering values of the versions are all of the table's one class,   *)
(* in which a null counts as zero: others are in no order.                 *)
Ranked(is, p) ==
    mode.merge = "event" =>
        \A i \in is : \/ CommitTimeDelete(Version(i, p))
                      \/ Version(i, p).ord.class \in {"default", "long"}

(* No data block speaks of the record after an unordered delete.           *)
NotRevived(is) ==
    mode.merge = "event" =>
        \A i, j \in is \ {0} :
            i < j /\ CommitTimeDelete(log[i].ver) => log[j].block = "delete"

(* A row at p made from the versions is: absent if the winner is a         *)
(* tombstone, else the winner's values, and what it lacks from the others. *)
Delivered(p, k) == {o \in out : o.pos = p /\ o.key = k}
Known0(i, c, p) ==
    c \in DOMAIN Version(i, p).row /\ Version(i, p).row[c] # Hole

RowExact(p, k, is) ==
    LET w == Winner(is, p)
    IN  IF Version(w, p).del
        THEN Delivered(p, k) = {}
        ELSE \E o \in out :
                /\ Delivered(p, k) = {o}
                /\ \A c \in Columns :
                      Known0(w, c, p) => o.row[c] = Version(w, p).row[c]

(* Every record with a log version is counted once, as insert, update or   *)
(* delete, and the counts account for the rows handed out.                 *)
CountedOnce ==
    UniqueKeys =>
        /\ stats.inserts + stats.updates + stats.deletes
              = Cardinality({log[i].ver.key : i \in DOMAIN log})
        /\ emitted = Cardinality(out)
        /\ emitted + stats.deletes
              = Len(base) + Cardinality(LogOnly)

(* A read that ends well hands out, for every record of the slice, exactly *)
(* what the newest of its versions says, by the ordering the table chose:  *)
(* whether versions met in the map, at the base row, or in a map that was  *)
(* re-keyed half way.  A key that occurs twice in the base file counts     *)
(* only as long as versions are told apart by position, and ordering       *)
(* values only as long as they are of one class.  The update counts agree  *)
(* with the rows.                                                          *)
MergeExact ==
    phase = "done" =>
        /\ \A p \in Positions :
              /\ UniqueKeys \/ usePos
              /\ NotRevived(OpsAt(p)) /\ Ranked(OpsAt(p) \cup {0}, p)
              => RowExact(p, base[p + 1].key, OpsAt(p) \cup {0})
        /\ \A k \in LogOnly :
              NotRevived(OpsOf(k)) /\ Ranked(OpsOf(k), NoPos) =>
                  RowExact(NoPos, k, OpsOf(k))
        /\ \A o \in out : o.pos = NoPos => o.key \in LogOnly
        /\ CountedOnce

(* A placeholder, or a missing column, is completed whenever any version   *)
(* of the record had a value for it, whichever of them won and in          *)
(* whichever order they came, unless a delete above that version took the  *)
(* value away, even one that then loses to the base row, where the         *)
(* ordering values are of one class.  Of two base rows with one key, told  *)
(* apart by nothing else, only the first meets the log.  The guard against *)
(* a sentinel in a log-only insert never has to act.                       *)
PlaceholdersFilled ==
    /\ phase = "done" =>
          \A o \in out : \A c \in Columns :
              /\ o.row[c] \in {Hole, Null}
              /\ o.pos # NoPos => UniqueKeys \/ usePos
              =>
                  LET is == IF o.pos = NoPos THEN OpsOf(o.key)
                            ELSE OpsAt(o.pos) \cup {0}
                  IN  Ranked(is, o.pos) =>
                          \A i \in is : Known0(i, c, o.pos) =>
                              \E j \in is : /\ Version(j, o.pos).del
                                            /\ Above(j, i, o.pos)
    /\ err # "sentinel"

(* The kernel and the row-at-a-time merger agree on every pair that will   *)
(* still meet.                                                             *)
PathsAgree ==
    phase \in {"scan", "base"} /\ ~mode.fill =>
        \A p \in Positions \ (0 .. cursor - 1) :
            LookupKey(p) \in DOMAIN records =>
                LET v == Stored(LookupKey(p))
                    m == FinalMerge(mode.merge, BaseRow(p), v)
                    n == MergedRow(p)
                IN  /\ m.del = n.del
                    /\ m.row # << >> /\ ~IsPartial(m.row) => m.row = n.row

(* A re-keying is refused exactly when it would leave one key with the     *)
(* versions of two base rows, one of which would be lost.                  *)
Placed == {i \in DOMAIN log : \A j \in 1 .. i : log[j].pos # NoPos}
RekeyExact ==
    mode.positions /\ Placed # DOMAIN log =>
        (err = "rekey") =
            (\E i, j \in Placed : /\ log[i].ver.key = log[j].ver.key
                                  /\ log[i].pos # log[j].pos)

(* The stream ends, in rows or in an error.                                *)
Terminates == <>(phase \in {"done", "failed"})
=============================================================================
