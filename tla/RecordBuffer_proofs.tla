------------------------ MODULE RecordBuffer_proofs ------------------------
(***************************************************************************)
(* Theorems about the record buffer of a file slice: when re-keying a      *)
(* buffer from positions to record keys is refused, that the two paths by  *)
(* which a base row meets its log version decide alike, and that a read    *)
(* that ends has handed out, for every record, what its newest version     *)
(* says, with every column some version still gave.                        *)
(*                                                                         *)
(* The last two go in three layers.  BufferInv: what the map holds for a   *)
(* record stands for the highest of its log records so far.  RowsInv: each *)
(* base row consumed, and each insert drained, is what that version and    *)
(* the base row together say.  CountInv: no row and no map entry is        *)
(* counted twice.                                                          *)
(***************************************************************************)
EXTENDS RecordBuffer, FiniteLemmas, FiniteSetTheorems, TLAPS

OrderValues == [class : OrderClasses, n : Nat]
Values == Nat \cup {Hole}
LogRows == UNION {[cs -> Values] : cs \in SUBSET Columns}
LogVersions == [key : Keys, del : BOOLEAN, ord : OrderValues, id : Keys,
                row : LogRows]
LogEntries == [ver : LogVersions, pos : Positions \cup {NoPos},
               block : {"data", "delete"}]

(* A version as the buffer keeps it: under positions, its key may be one. *)
IsVersion(v) ==
    /\ v = [key |-> v.key, del |-> v.del, ord |-> v.ord, id |-> v.id,
            row |-> v.row]
    /\ v.del \in BOOLEAN

(* The record key a version spells, wherever it lay in between. *)
NameOf(v) == IF v.del THEN v.key ELSE v.id

(* The configuration, and the log records with the positions of their keys. *)
ReadInv ==
    /\ \E r \in Reads : mode = r.mode /\ base = r.base
    /\ log \in Seq(LogEntries)
    /\ \A i \in DOMAIN log :
         log[i].pos # NoPos => base[log[i].pos + 1].key = log[i].ver.key

(* While records are told apart by position, the map has an entry for each *)
(* position seen, and it spells the key of the base row there.             *)
PlacedInv ==
    /\ \A mk \in DOMAIN records : IsVersion(records[mk])
    /\ usePos /\ phase = "scan" =>
         /\ DOMAIN records = {log[i].pos : i \in DOMAIN log}
         /\ \A mk \in DOMAIN records : NameOf(records[mk]) = base[mk + 1].key

FallbackInv ==
    /\ usePos \in BOOLEAN
    /\ err = "rekey" => phase = "failed"
    /\ err # "rekey" => (usePos <=> (mode.positions /\ Placed = DOMAIN log))

RekeyInv == ReadInv /\ PlacedInv /\ FallbackInv /\ RekeyExact

-----------------------------------------------------------------------------
(* Versions. *)

(* What a record of a block is. *)
LEMMA NewVersions ==
    /\ \A k \in Keys, o \in OrderValues : Tombstone(k, o) \in LogVersions
    /\ \A k \in Keys, o \in OrderValues, columns \in SUBSET Columns,
          holes \in SUBSET Columns, n \in Nat :
         Data(k, o, k, NewRow(n, columns, holes)) \in LogVersions
    /\ \A k, o : Tombstone(k, o).key = k
    /\ \A k, o, r : Data(k, o, k, r).key = k
    /\ \A v \in LogVersions : IsVersion(v)
<1>1. << >> \in LogRows
  <2>1. << >> \in [{} -> Values]
    OBVIOUS
  <2> QED BY <2>1 DEF LogRows
<1>2. \A k \in Keys, o \in OrderValues : Tombstone(k, o) \in LogVersions
  BY <1>1 DEF Tombstone, LogVersions
<1>3. ASSUME NEW columns \in SUBSET Columns, NEW holes \in SUBSET Columns,
             NEW n \in Nat
      PROVE  NewRow(n, columns, holes) \in LogRows
  <2>1. NewRow(n, columns, holes) \in [columns -> Values]
    BY DEF NewRow, Values
  <2> QED BY <2>1 DEF LogRows
<1>4. \A k \in Keys, o \in OrderValues, columns \in SUBSET Columns,
         holes \in SUBSET Columns, n \in Nat :
        Data(k, o, k, NewRow(n, columns, holes)) \in LogVersions
  BY <1>3 DEF Data, LogVersions
<1>5. /\ \A k, o : Tombstone(k, o).key = k
      /\ \A k, o, r : Data(k, o, k, r).key = k
  BY DEF Tombstone, Data
<1>6. \A v \in LogVersions : IsVersion(v)
  BY DEF IsVersion, LogVersions
<1> QED BY <1>2, <1>4, <1>5, <1>6

(* Completing a version leaves whose it is alone. *)
LEMMA FilledVersion ==
    ASSUME NEW v, IsVersion(v), NEW u
    PROVE  /\ IsVersion(FillPartial(v, u))
           /\ NameOf(FillPartial(v, u)) = NameOf(v)
BY DEF FillPartial, IsVersion, NameOf

(* Of two versions of one record the merge makes another of it. *)
LEMMA MergedVersion ==
    ASSUME NEW v, IsVersion(v), NEW u, IsVersion(u), NEW block
    PROVE  /\ IsVersion(Merged(block, v, u))
           /\ NameOf(Merged(block, v, u)) \in {NameOf(v), NameOf(u)}
<1>1. DeltaMergeDelete(mode.merge, v, u) \in {v, u}
  BY DEF DeltaMergeDelete
<1>2. DeltaMerge(mode.merge, v, u) \in {v, u}
  BY DEF DeltaMerge
<1>3. FoldFilled(mode.merge, v, u) \in {FillPartial(v, u), FillPartial(u, v)}
  BY DEF FoldFilled
<1>4. ASSUME ~v.del, ~u.del
      PROVE  /\ IsVersion(FoldNarrow(mode.merge, v, u))
             /\ NameOf(FoldNarrow(mode.merge, v, u)) = NameOf(v)
  BY <1>4 DEF FoldNarrow, IsVersion, NameOf
<1>5. MergeData(mode.merge, mode.fill, v, u) \in
        {v, u, FillPartial(v, u), FillPartial(u, v)}
      \/ /\ ~v.del /\ ~u.del
         /\ MergeData(mode.merge, mode.fill, v, u) = FoldNarrow(mode.merge, v, u)
  BY <1>2, <1>3 DEF MergeData
<1> QED BY <1>1, <1>4, <1>5, FilledVersion DEF Merged

(* An entry read back from the spill tier still spells its record's key. *)
LEMMA StoredVersion ==
    ASSUME NEW mk, IsVersion(records[mk])
    PROVE  IsVersion(Stored(mk)) /\ NameOf(Stored(mk)) = NameOf(records[mk])
           /\ RowKey(mk) = NameOf(records[mk])
           /\ Stored(mk).del = records[mk].del /\ Stored(mk).row = records[mk].row
           /\ Stored(mk).ord = records[mk].ord
BY DEF Stored, IsVersion, NameOf, RowKey

-----------------------------------------------------------------------------
(* The log, one record longer. *)

(* Two records of one key that the log places at two rows of the base file. *)
TwoRows ==
    \E i, j \in Placed : /\ log[i].ver.key = log[j].ver.key
                         /\ log[i].pos # log[j].pos

LEMMA LongerLog ==
    ASSUME NEW S, log \in Seq(S), NEW e \in S, log' = Append(log, e)
    PROVE  /\ log' \in Seq(S)
           /\ DOMAIN log' = DOMAIN log \cup {Len(log) + 1}
           /\ Len(log) + 1 \notin DOMAIN log
           /\ \A i \in DOMAIN log : log'[i] = log[i]
           /\ log'[Len(log) + 1] = e
           /\ Placed = DOMAIN log /\ e.pos # NoPos => Placed' = DOMAIN log'
           /\ Placed # DOMAIN log \/ e.pos = NoPos =>
                Placed' = Placed /\ Placed' # DOMAIN log'
<1> DEFINE n == Len(log)
<1>1. /\ log' \in Seq(S) /\ DOMAIN log' = 1 .. n + 1 /\ DOMAIN log = 1 .. n
      /\ n \in Nat /\ log'[n + 1] = e
      /\ \A i \in 1 .. n : log'[i] = log[i]
  OBVIOUS
<1> HIDE DEF n
<1>2. Placed = {i \in 1 .. n : \A j \in 1 .. i : log[j].pos # NoPos}
  BY <1>1 DEF Placed
<1>3. Placed' = {i \in 1 .. n + 1 : \A j \in 1 .. i : log'[j].pos # NoPos}
  BY <1>1 DEF Placed, NoPos
<1>4. \A i \in 1 .. n : i \in Placed' <=> i \in Placed
  BY <1>1, <1>2, <1>3
<1>5. n + 1 \in Placed' <=> (\A j \in 1 .. n : log[j].pos # NoPos) /\ e.pos # NoPos
  BY <1>1, <1>3
<1>6. Placed = 1 .. n <=> \A j \in 1 .. n : log[j].pos # NoPos
  BY <1>1, <1>2
<1>7. Placed = 1 .. n /\ e.pos # NoPos => Placed' = 1 .. n + 1
  BY <1>1, <1>3, <1>4, <1>5, <1>6
<1>8. Placed # 1 .. n \/ e.pos = NoPos => Placed' = Placed /\ Placed' # 1 .. n + 1
  BY <1>1, <1>2, <1>3, <1>4, <1>5, <1>6
<1> QED BY <1>1, <1>7, <1>8 DEF n

(* The positions of a base file. *)
LEMMA PositionsFacts ==
    ASSUME ReadInv
    PROVE  /\ Len(base) \in Nat /\ IsFiniteSet(Positions) /\ NoPos \notin Positions
           /\ Positions \subseteq Nat
           /\ mode.positions \in BOOLEAN /\ mode.fill \in BOOLEAN
           /\ mode.merge \in {"commit", "event"}
<1>1. PICK r \in Reads : mode = r.mode /\ base = r.base
  BY DEF ReadInv
<1>2. /\ \E S : r.base \in Seq(S)
      /\ r.mode.positions \in BOOLEAN /\ r.mode.fill \in BOOLEAN
      /\ r.mode.merge \in {"commit", "event"}
  BY RecordBufferAssumption
<1>3. Len(base) \in Nat
  BY <1>1, <1>2
<1>4. IsFiniteSet(0 .. Len(base) - 1)
  BY <1>3, FS_Interval
<1> QED BY <1>1, <1>2, <1>3, <1>4 DEF Positions, NoPos

(* The cardinalities differ exactly when two positions spell one key. *)
LEMMA ClashExact ==
    ASSUME RekeyInv, usePos, phase = "scan"
    PROVE  RekeyClash <=> TwoRows
<1> DEFINE D == DOMAIN records
           f == [mk \in D |-> RowKey(mk)]
<1>1. /\ D = {log[i].pos : i \in DOMAIN log} /\ Placed = DOMAIN log
      /\ \A mk \in D : IsVersion(records[mk])
      /\ \A mk \in D : NameOf(records[mk]) = base[mk + 1].key
      /\ \A i \in DOMAIN log :
           log[i].pos # NoPos => base[log[i].pos + 1].key = log[i].ver.key
      /\ log \in Seq(LogEntries)
  BY DEF RekeyInv, ReadInv, PlacedInv, FallbackInv
<1>2. \A i \in DOMAIN log : log[i].pos # NoPos /\ log[i].pos \in Positions
  <2>1. \A i \in DOMAIN log : i \in 1 .. i /\ log[i] \in LogEntries
    BY <1>1
  <2>2. \A i \in DOMAIN log : log[i].pos # NoPos
    BY <1>1, <2>1 DEF Placed
  <2> QED BY <2>1, <2>2 DEF LogEntries
<1>3. IsFiniteSet(D)
  <2>1. D \subseteq Positions
    BY <1>1, <1>2
  <2> QED BY <2>1, PositionsFacts, FS_Subset DEF RekeyInv
<1>4. \A mk \in D : f[mk] = base[mk + 1].key
  BY <1>1, StoredVersion
<1>5. f \in Surjection(D, Rekeyed)
  BY DEF Surjection, Rekeyed
<1>6. Cardinality(Rekeyed) = Cardinality(D) <=> f \in Injection(D, Rekeyed)
  BY <1>3, <1>5, FS_Surjection
<1>7. f \in Injection(D, Rekeyed) <=> \A x, y \in D : f[x] = f[y] => x = y
  BY <1>5 DEF Injection, Surjection, IsInjective
<1> HIDE DEF f
<1>8. (\E x, y \in D : f[x] = f[y] /\ x # y) <=> TwoRows
  <2>1. ASSUME NEW x \in D, NEW y \in D, f[x] = f[y], x # y PROVE TwoRows
    <3>1. PICK i \in DOMAIN log : log[i].pos = x
      BY <1>1
    <3>2. PICK j \in DOMAIN log : log[j].pos = y
      BY <1>1
    <3>3. log[i].ver.key = log[j].ver.key
      BY <1>1, <1>2, <1>4, <2>1, <3>1, <3>2
    <3> QED BY <1>1, <2>1, <3>1, <3>2, <3>3 DEF TwoRows
  <2>2. ASSUME TwoRows PROVE \E x, y \in D : f[x] = f[y] /\ x # y
    <3>1. PICK i \in Placed, j \in Placed : /\ log[i].ver.key = log[j].ver.key
                                            /\ log[i].pos # log[j].pos
      BY <2>2 DEF TwoRows
    <3>2. log[i].pos \in D /\ log[j].pos \in D
      BY <1>1
    <3>3. f[log[i].pos] = f[log[j].pos]
      BY <1>1, <1>2, <1>4, <3>1, <3>2
    <3> QED BY <3>1, <3>2, <3>3
  <2> QED BY <2>1, <2>2
<1> QED BY <1>6, <1>7, <1>8 DEF RekeyClash

-----------------------------------------------------------------------------
(* Taking in a record. *)

(* The map a record goes to holds versions, under positions of the keys. *)
LEMMA TargetVersions ==
    ASSUME RekeyInv, NEW p
    PROVE  /\ \A mk \in DOMAIN Target(p) : IsVersion(Target(p)[mk])
           /\ ~(usePos /\ p = NoPos) =>
                /\ DOMAIN Target(p) = DOMAIN records
                /\ \A mk \in DOMAIN records :
                     NameOf(Target(p)[mk]) = NameOf(records[mk])
<1>1. \A mk \in DOMAIN records : IsVersion(records[mk])
  BY DEF RekeyInv, PlacedInv
<1>2. \A mk \in DOMAIN records :
        IsVersion(Stored(mk)) /\ NameOf(Stored(mk)) = NameOf(records[mk])
  BY <1>1, StoredVersion
<1>3. CASE usePos /\ p = NoPos
  <2>1. Target(p) = RekeyedMap
    BY <1>3 DEF Target
  <2>2. ASSUME NEW k \in Rekeyed PROVE IsVersion(RekeyedMap[k])
    <3> DEFINE mk == CHOOSE x \in DOMAIN records : RowKey(x) = k
    <3>1. mk \in DOMAIN records
      BY DEF Rekeyed
    <3>2. RekeyedMap[k] = [Stored(mk) EXCEPT !.key = k]
      BY DEF RekeyedMap
    <3>3. IsVersion(Stored(mk))
      BY <1>2, <3>1
    <3> HIDE DEF mk
    <3> QED BY <3>2, <3>3 DEF IsVersion
  <2>3. DOMAIN RekeyedMap = Rekeyed
    BY DEF RekeyedMap
  <2> QED BY <1>3, <2>1, <2>2, <2>3
<1>4. CASE ~(usePos /\ p = NoPos)
  <2>1. Target(p) = [mk \in DOMAIN records |-> Stored(mk)]
    BY <1>4 DEF Target
  <2> QED BY <1>2, <1>4, <2>1
<1> QED BY <1>3, <1>4

(* Placing the same records leaves what they place as it was. *)
LEMMA SamePlaces ==
    ASSUME Placed' = Placed, Placed \subseteq DOMAIN log,
           \A i \in DOMAIN log : log'[i] = log[i]
    PROVE  TwoRows' <=> TwoRows
BY DEF TwoRows

(* process_data_block and process_delete_block. *)
LEMMA BlockStep ==
    ASSUME RekeyInv, NEW block \in {"data", "delete"}, NEW v \in LogVersions,
           v.id = v.key, NEW p \in PositionsOf(v.key),
           mode.positions \/ p = NoPos, ProcessBlock(block, v, p)
    PROVE  RekeyInv'
<1> DEFINE e == [ver |-> v, pos |-> p, block |-> block]
           map == Target(p)
           mk == MapKey(v.key, p)
           new == IF mk \in DOMAIN map THEN Merged(block, v, map[mk]) ELSE v
<1>1. /\ phase = "scan" /\ log' = Append(log, e)
      /\ UNCHANGED <<mode, base>>
  BY DEF ProcessBlock
<1>2. ReadInv /\ log \in Seq(LogEntries)
  BY DEF RekeyInv, ReadInv
<1>3. e \in LogEntries /\ e.pos = p
      /\ (p # NoPos => p \in Positions /\ base[p + 1].key = v.key)
  BY DEF LogEntries, PositionsOf
<1>4. /\ log' \in Seq(LogEntries)
      /\ DOMAIN log' = DOMAIN log \cup {Len(log) + 1}
      /\ Len(log) + 1 \notin DOMAIN log
      /\ \A i \in DOMAIN log : log'[i] = log[i]
      /\ log'[Len(log) + 1] = e
      /\ Placed = DOMAIN log /\ p # NoPos => Placed' = DOMAIN log'
      /\ Placed # DOMAIN log \/ p = NoPos => Placed' = Placed /\ Placed' # DOMAIN log'
  BY <1>1, <1>2, <1>3, LongerLog
<1>5. ReadInv'
  <2>1. LogEntries' = LogEntries
    BY <1>1 DEF LogEntries, Positions, NoPos, LogVersions, LogRows, Values,
                OrderValues, OrderClasses
  <2>2. \E r \in Reads : mode' = r.mode /\ base' = r.base
    BY <1>1, <1>2 DEF ReadInv
  <2>3. ASSUME NEW i \in DOMAIN log', log'[i].pos # NoPos
        PROVE  base[log'[i].pos + 1].key = log'[i].ver.key
    <3>1. CASE i \in DOMAIN log
      BY <1>2, <1>4, <2>3, <3>1 DEF ReadInv
    <3>2. CASE i = Len(log) + 1
      BY <1>3, <1>4, <2>3, <3>2
    <3> QED BY <1>4, <3>1, <3>2
  <2> QED BY <1>1, <1>4, <2>1, <2>2, <2>3 DEF ReadInv, NoPos
<1>6. Placed \subseteq DOMAIN log
  BY DEF Placed
<1>7. /\ err # "rekey" /\ usePos \in BOOLEAN
      /\ usePos <=> (mode.positions /\ Placed = DOMAIN log)
  BY <1>1 DEF RekeyInv, FallbackInv
<1>8. mode.positions /\ Placed # DOMAIN log => ~TwoRows
  BY <1>7 DEF RekeyInv, RekeyExact, TwoRows
<1>9. CASE usePos /\ p = NoPos /\ RekeyClash
  <2>1. phase' = "failed" /\ err' = "rekey" /\ UNCHANGED <<usePos, records>>
    BY <1>9 DEF ProcessBlock, Fail
  <2>2. TwoRows
    BY <1>1, <1>9, ClashExact
  <2>3. TwoRows'
    BY <1>4, <1>6, <1>9, <2>2, SamePlaces
  <2>4. RekeyExact'
    BY <2>1, <2>3 DEF RekeyExact, TwoRows
  <2>5. PlacedInv' /\ FallbackInv'
    BY <1>7, <2>1 DEF RekeyInv, PlacedInv, FallbackInv
  <2> QED BY <1>5, <2>4, <2>5 DEF RekeyInv
<1>10. CASE ~(usePos /\ p = NoPos /\ RekeyClash)
  <2>1. /\ records' = Put(map, mk, new) /\ usePos' = (usePos /\ p # NoPos)
        /\ UNCHANGED <<phase, err>>
    BY <1>10 DEF ProcessBlock
  <2>2. \A x \in DOMAIN map : IsVersion(map[x])
    BY TargetVersions
  <2>3. IsVersion(v) /\ NameOf(v) = v.key
    BY NewVersions DEF NameOf
  <2>4. /\ IsVersion(new)
        /\ mk \in DOMAIN map => NameOf(new) \in {v.key, NameOf(map[mk])}
        /\ mk \notin DOMAIN map => NameOf(new) = v.key
    BY <2>2, <2>3, MergedVersion
  <2> HIDE DEF new, map, mk
  <2>5. /\ DOMAIN records' = DOMAIN map \cup {mk}
        /\ \A x \in DOMAIN map \ {mk} : records'[x] = map[x]
        /\ records'[mk] = new
    BY <2>1 DEF Put
  <2>6. \A x \in DOMAIN records' : IsVersion(records'[x])
    BY <2>2, <2>4, <2>5
  <2>7. CASE usePos /\ p # NoPos
    <3>1. Placed = DOMAIN log /\ Placed' = DOMAIN log' /\ usePos'
      BY <1>4, <1>7, <2>1, <2>7
    <3>2. /\ mk = p /\ DOMAIN map = DOMAIN records
          /\ \A x \in DOMAIN records : NameOf(map[x]) = NameOf(records[x])
      BY <2>7, TargetVersions DEF mk, map, MapKey
    <3>3. /\ DOMAIN records = {log[i].pos : i \in DOMAIN log}
          /\ \A x \in DOMAIN records : NameOf(records[x]) = base[x + 1].key
      BY <1>1, <2>7 DEF RekeyInv, PlacedInv
    <3>4. DOMAIN records' = {log'[i].pos : i \in DOMAIN log'}
      BY <1>3, <1>4, <2>5, <3>2, <3>3
    <3>5. \A x \in DOMAIN records' : NameOf(records'[x]) = base[x + 1].key
      BY <1>3, <2>4, <2>5, <2>7, <3>2, <3>3
    <3>6. PlacedInv'
      BY <1>1, <2>6, <3>4, <3>5 DEF PlacedInv
    <3>7. FallbackInv' /\ RekeyExact'
      BY <1>1, <1>7, <2>1, <2>7, <3>1 DEF FallbackInv, RekeyExact
    <3> QED BY <1>5, <3>6, <3>7 DEF RekeyInv
  <2>8. CASE ~(usePos /\ p # NoPos)
    <3>1. usePos' = FALSE /\ err' # "rekey"
      BY <1>7, <2>1, <2>8
    <3>2. mode.positions => Placed' = Placed /\ Placed' # DOMAIN log'
      BY <1>4, <1>7, <2>8
    <3>3. mode.positions => ~TwoRows
      BY <1>1, <1>7, <1>8, <1>10, <2>8, ClashExact
    <3>4. mode.positions => ~TwoRows'
      BY <1>4, <1>6, <3>2, <3>3, SamePlaces
    <3>5. PlacedInv'
      BY <2>6, <3>1 DEF PlacedInv
    <3>6. FallbackInv'
      BY <1>1, <3>1, <3>2 DEF FallbackInv
    <3>7. RekeyExact'
      BY <1>1, <3>1, <3>4 DEF RekeyExact, TwoRows
    <3> QED BY <1>5, <3>5, <3>6, <3>7 DEF RekeyInv
  <2> QED BY <2>7, <2>8
<1> QED BY <1>9, <1>10

-----------------------------------------------------------------------------
(* Every step. *)

(* What the three kinds of log records hand to a block. *)
LEMMA ScanSteps ==
    ASSUME ReadInv, ProcessDataBlock \/ ProcessDeleteMarker \/ ProcessDeleteBlock
    PROVE  \E block \in {"data", "delete"}, v \in LogVersions :
             /\ v.id = v.key
             /\ v.del => v.row = << >>
             /\ \E p \in PositionsOf(v.key) :
                  (mode.positions \/ p = NoPos) /\ ProcessBlock(block, v, p)
<1>1. OrdersHere \subseteq OrderValues
  BY RecordBufferAssumption
  DEF OrdersHere, OrderValues, DefaultOrder, Order, OrderClasses
<1>2. Len(log) + 1 \in Nat
  BY DEF ReadInv
<1>3. CASE ProcessDataBlock
  <2>1. PICK k \in Keys, o \in OrdersHere, columns \in {Columns} \cup Narrow,
             holes \in {{}} \cup Holes :
          \E p \in PositionsOf(k) :
            /\ mode.positions \/ p = NoPos
            /\ ProcessBlock("data",
                 Data(k, o, k, NewRow(Len(log) + 1, columns, holes)), p)
    BY <1>3 DEF ProcessDataBlock
  <2> DEFINE v == Data(k, o, k, NewRow(Len(log) + 1, columns, holes))
  <2>2. columns \in SUBSET Columns /\ holes \in SUBSET Columns
    BY RecordBufferAssumption
  <2>3. v \in LogVersions
    BY <1>1, <1>2, <2>2, NewVersions
  <2>4. v.key = k /\ v.id = v.key /\ ~v.del
    BY DEF Data
  <2> HIDE DEF v
  <2>5. \E p \in PositionsOf(v.key) :
          (mode.positions \/ p = NoPos) /\ ProcessBlock("data", v, p)
    BY <2>1, <2>4 DEF v
  <2> QED BY <2>3, <2>4, <2>5
<1>4. CASE ProcessDeleteMarker \/ ProcessDeleteBlock
  <2>1. PICK k \in Keys, o \in OrdersHere, block \in {"data", "delete"} :
          \E p \in PositionsOf(k) :
            /\ mode.positions \/ p = NoPos
            /\ ProcessBlock(block, Tombstone(k, o), p)
    BY <1>4 DEF ProcessDeleteMarker, ProcessDeleteBlock
  <2> DEFINE v == Tombstone(k, o)
  <2>2. v \in LogVersions
    BY <1>1, NewVersions
  <2>3. v.key = k /\ v.id = v.key /\ v.row = << >>
    BY DEF Tombstone
  <2> HIDE DEF v
  <2>4. \E p \in PositionsOf(v.key) :
          (mode.positions \/ p = NoPos) /\ ProcessBlock(block, v, p)
    BY <2>1, <2>3 DEF v
  <2> QED BY <2>2, <2>3, <2>4
<1> QED BY <1>3, <1>4

(* A step behind the scan, or one that only moves an entry to disk. *)
LEMMA QuietStep ==
    ASSUME RekeyInv, UNCHANGED <<mode, base, log, usePos>>,
           DOMAIN records' \subseteq DOMAIN records,
           \A mk \in DOMAIN records' : records'[mk] = records[mk],
           records' = records \/ phase' # "scan",
           phase' # "scan" \/ phase = "scan",
           \/ err' = err /\ (phase = "failed" => phase' = "failed")
           \/ err' # "rekey" /\ phase # "failed"
    PROVE  RekeyInv'
<1>1. ReadInv'
  <2>1. LogEntries' = LogEntries
    BY DEF LogEntries, Positions, NoPos, LogVersions, LogRows, Values,
           OrderValues, OrderClasses
  <2> QED BY <2>1 DEF RekeyInv, ReadInv, NoPos
<1>2. Placed' = Placed
  BY DEF Placed, NoPos
<1>3. PlacedInv'
  <2>1. \A mk \in DOMAIN records' : IsVersion(records'[mk])
    BY DEF RekeyInv, PlacedInv
  <2>2. CASE phase' # "scan"
    BY <2>1, <2>2 DEF PlacedInv
  <2>3. CASE records' = records /\ phase = "scan"
    BY <2>1, <2>3 DEF RekeyInv, PlacedInv
  <2> QED BY <2>2, <2>3
<1>4. (err' = "rekey") = (err = "rekey") /\ (err' = "rekey" => phase' = "failed")
  BY DEF RekeyInv, FallbackInv
<1>5. FallbackInv'
  BY <1>2, <1>4 DEF RekeyInv, FallbackInv
<1>6. RekeyExact'
  BY <1>2, <1>4 DEF RekeyInv, RekeyExact
<1> QED BY <1>1, <1>3, <1>5, <1>6 DEF RekeyInv

LEMMA RekeyInit == Init => RekeyInv
<1> SUFFICES ASSUME Init PROVE RekeyInv
  OBVIOUS
<1>1. /\ log = << >> /\ DOMAIN log = {} /\ DOMAIN records = {}
      /\ \E r \in Reads : mode = r.mode /\ base = r.base
      /\ usePos = mode.positions /\ err = "none"
  BY DEF Init
<1>2. ReadInv
  BY <1>1 DEF ReadInv
<1>3. Placed = {} /\ mode.positions \in BOOLEAN
  BY <1>1, <1>2, PositionsFacts DEF Placed
<1>4. PlacedInv
  BY <1>1 DEF PlacedInv
<1>5. FallbackInv /\ RekeyExact
  BY <1>1, <1>3 DEF FallbackInv, RekeyExact
<1> QED BY <1>2, <1>4, <1>5 DEF RekeyInv

LEMMA RekeyStep == RekeyInv /\ [Next]_vars => RekeyInv'
<1> SUFFICES ASSUME RekeyInv, [Next]_vars PROVE RekeyInv'
  OBVIOUS
<1>1. CASE ProcessDataBlock \/ ProcessDeleteMarker \/ ProcessDeleteBlock
  <2>1. PICK block \in {"data", "delete"}, v \in LogVersions :
          /\ v.id = v.key
          /\ \E p \in PositionsOf(v.key) :
               (mode.positions \/ p = NoPos) /\ ProcessBlock(block, v, p)
    BY <1>1, ScanSteps DEF RekeyInv
  <2> QED BY <2>1, BlockStep
<1>2. CASE Spill \/ EndScan \/ BaseExhausted \/ StorageError
  <2>1. /\ UNCHANGED <<mode, base, log, usePos, records>> /\ phase # "failed"
        /\ phase' # "scan" \/ phase = "scan"
        /\ err' = err \/ err' # "rekey"
    BY <1>2 DEF Spill, EndScan, BaseExhausted, StorageError, Fail
  <2> QED BY <2>1, QuietStep
<1>3. CASE MergeBaseBatch
  <2>1. /\ UNCHANGED <<mode, base, log, usePos, phase, err>> /\ phase = "base"
        /\ \E ks : records' = Without(records, ks)
    BY <1>3 DEF MergeBaseBatch
  <2>2. /\ DOMAIN records' \subseteq DOMAIN records
        /\ \A mk \in DOMAIN records' : records'[mk] = records[mk]
    BY <2>1 DEF Without
  <2> QED BY <2>1, <2>2, QuietStep
<1>4. CASE DrainLogOnlyInserts
  <2>1. /\ UNCHANGED <<mode, base, log, usePos>> /\ phase = "drain"
        /\ \E ks : records' = Without(records, ks)
        /\ phase' # "scan" /\ (err' = err \/ err' # "rekey")
    BY <1>4 DEF DrainLogOnlyInserts, Fail
  <2>2. /\ DOMAIN records' \subseteq DOMAIN records
        /\ \A mk \in DOMAIN records' : records'[mk] = records[mk]
    BY <2>1 DEF Without
  <2> QED BY <2>1, <2>2, QuietStep
<1>5. CASE NextChunkDone \/ UNCHANGED vars
  <2>1. UNCHANGED <<mode, base, log, usePos, records, phase, err>>
    BY <1>5 DEF NextChunkDone, vars
  <2> QED BY <2>1, QuietStep
<1> QED BY <1>1, <1>2, <1>3, <1>4, <1>5 DEF Next, NextChunk

(***************************************************************************)
(* fallback_to_key_based refuses a re-keying exactly when two base rows of *)
(* one key both have a buffered version, whatever was spilled before: for  *)
(* any base file, any log and any configuration.                           *)
(***************************************************************************)
THEOREM RekeyTheorem == Spec => []RekeyExact
<1>1. RekeyInv => RekeyExact
  BY DEF RekeyInv
<1> QED BY <1>1, RekeyInit, RekeyStep, PTL DEF Spec

-----------------------------------------------------------------------------
(* The two ways to merge a base row. *)

(* Without placeholders to complete, a tombstone stays the bare one it was. *)
BareInv ==
    ~mode.fill => \A mk \in DOMAIN records :
                     records[mk].del => records[mk].row = << >>

Bare(v) == v.del => v.row = << >>

(* Merging keeps tombstones bare. *)
LEMMA MergedBare ==
    ASSUME NEW v, IsVersion(v), Bare(v), NEW u, IsVersion(u), Bare(u),
           ~mode.fill, NEW block
    PROVE  Bare(Merged(block, v, u))
<1>1. ASSUME ~v.del PROVE ~FoldNarrow(mode.merge, v, u).del
  BY <1>1 DEF FoldNarrow, IsVersion
<1>2. DeltaMerge(mode.merge, v, u) \in {v, u}
      /\ DeltaMergeDelete(mode.merge, v, u) \in {v, u}
  BY DEF DeltaMerge, DeltaMergeDelete
<1> QED BY <1>1, <1>2 DEF Merged, MergeData, Bare

LEMMA BareStep == RekeyInv /\ BareInv /\ [Next]_vars => BareInv'
<1> SUFFICES ASSUME RekeyInv, BareInv, [Next]_vars, ~mode'.fill
             PROVE  \A mk \in DOMAIN records' : Bare(records'[mk])
  BY DEF BareInv, Bare
<1>1. mode' = mode
  <2>1. CASE ProcessDataBlock \/ ProcessDeleteMarker \/ ProcessDeleteBlock
    <3>1. \E block, v, p : ProcessBlock(block, v, p)
      BY <2>1, ScanSteps DEF RekeyInv
    <3> QED BY <3>1 DEF ProcessBlock
  <2>2. CASE Spill \/ EndScan \/ StorageError \/ MergeBaseBatch \/ BaseExhausted
    BY <2>2 DEF Spill, EndScan, StorageError, MergeBaseBatch, BaseExhausted
  <2>3. CASE DrainLogOnlyInserts
    BY <2>3 DEF DrainLogOnlyInserts
  <2>4. CASE NextChunkDone \/ UNCHANGED vars
    BY <2>4 DEF NextChunkDone, vars
  <2> QED BY <2>1, <2>2, <2>3, <2>4 DEF Next, NextChunk
<1>2. ~mode.fill /\ \A mk \in DOMAIN records : Bare(records[mk])
  BY <1>1 DEF BareInv, Bare
<1>3. \A mk \in DOMAIN records : IsVersion(records[mk])
  BY DEF RekeyInv, PlacedInv
<1>4. ASSUME NEW block, NEW v \in LogVersions, Bare(v), NEW p,
             ProcessBlock(block, v, p), NEW x \in DOMAIN records'
      PROVE  Bare(records'[x])
  <2> DEFINE map == Target(p)
             mk == MapKey(v.key, p)
             new == IF mk \in DOMAIN map THEN Merged(block, v, map[mk]) ELSE v
  <2>1. records' = records \/ records' = Put(map, mk, new)
    BY <1>4 DEF ProcessBlock
  <2>2. \A y \in DOMAIN map : IsVersion(map[y])
    BY TargetVersions
  <2>3. \A y \in DOMAIN records : Bare(Stored(y)) /\ IsVersion(Stored(y))
    BY <1>2, <1>3, StoredVersion DEF Bare
  <2>4. \A y \in DOMAIN map : Bare(map[y])
    <3>1. CASE usePos /\ p = NoPos
      <4>1. map = RekeyedMap
        BY <3>1 DEF Target
      <4>2. ASSUME NEW k \in Rekeyed PROVE Bare(RekeyedMap[k])
        <5> DEFINE y == CHOOSE z \in DOMAIN records : RowKey(z) = k
        <5>1. y \in DOMAIN records
          BY DEF Rekeyed
        <5>2. RekeyedMap[k] = [Stored(y) EXCEPT !.key = k]
          BY DEF RekeyedMap
        <5>3. IsVersion(Stored(y)) /\ Bare(Stored(y))
          BY <2>3, <5>1
        <5> HIDE DEF y
        <5> QED BY <5>2, <5>3 DEF IsVersion, Bare
      <4>3. DOMAIN RekeyedMap = Rekeyed
        BY DEF RekeyedMap
      <4> QED BY <4>1, <4>2, <4>3
    <3>2. CASE ~(usePos /\ p = NoPos)
      <4>1. map = [y \in DOMAIN records |-> Stored(y)]
        BY <3>2 DEF Target
      <4> QED BY <2>3, <4>1
    <3> QED BY <3>1, <3>2
  <2>5. Bare(new)
    <3>1. IsVersion(v)
      BY NewVersions
    <3> QED BY <1>2, <1>4, <2>2, <2>4, <3>1, MergedBare
  <2> HIDE DEF map, mk, new
  <2> QED BY <1>2, <1>4, <2>1, <2>4, <2>5 DEF Put
<1>5. CASE ProcessDataBlock \/ ProcessDeleteMarker \/ ProcessDeleteBlock
  <2>1. PICK block \in {"data", "delete"}, v \in LogVersions :
          /\ v.del => v.row = << >>
          /\ \E p \in PositionsOf(v.key) : ProcessBlock(block, v, p)
    BY <1>5, ScanSteps DEF RekeyInv
  <2> QED BY <1>4, <2>1 DEF Bare
<1>6. CASE ~(ProcessDataBlock \/ ProcessDeleteMarker \/ ProcessDeleteBlock)
  <2>1. records' = records \/ \E ks : records' = Without(records, ks)
    BY <1>6
    DEF Next, NextChunk, Spill, EndScan, StorageError, MergeBaseBatch,
        BaseExhausted, DrainLogOnlyInserts, NextChunkDone, vars
  <2> QED BY <1>2, <2>1 DEF Without
<1> QED BY <1>5, <1>6

(* The kernel looks at less than the merger does, and decides alike. *)
LEMMA KernelAgrees ==
    ASSUME NEW merge \in {"commit", "event"}, NEW b, IsVersion(b), ~b.del,
           NEW v, IsVersion(v), Bare(v)
    PROVE  /\ FinalMerge(merge, b, v).del = MergeBaseRow(merge, FALSE, b, v).del
           /\ LET row == FinalMerge(merge, b, v).row
              IN  row # << >> /\ ~IsPartial(row) =>
                    row = MergeBaseRow(merge, FALSE, b, v).row
<1> DEFINE w == PickWinner(merge, v, b.ord)
<1>1. w = "base" <=> ~NewWins(merge, b, v)
  BY DEF PickWinner, NewWins, ShouldKeepNewer, CommitTimeDelete
<1>2. /\ w \in {"base", "log_delete", "log_data"}
      /\ w = "log_delete" => v.del
      /\ w = "log_data" => ~v.del
  BY DEF PickWinner, IsVersion
<1> HIDE DEF w
<1>3. FinalMerge(merge, b, v) = IF w = "base" THEN b ELSE v
  BY <1>1 DEF FinalMerge, DeltaMerge
<1>4. CASE w = "base"
  <2>1. MergeBaseRow(merge, FALSE, b, v) = b
    BY <1>4 DEF MergeBaseRow, w
  <2> QED BY <1>3, <1>4, <2>1
<1>5. CASE w = "log_delete"
  <2>1. MergeBaseRow(merge, FALSE, b, v) = Tombstone(v.key, v.ord)
    BY <1>5 DEF MergeBaseRow, w
  <2>2. Tombstone(v.key, v.ord).del = TRUE /\ v.row = << >> /\ v.del = TRUE
    BY <1>2, <1>5 DEF Tombstone, Bare, IsVersion
  <2> QED BY <1>3, <1>5, <2>1, <2>2
<1>6. CASE w = "log_data"
  <2>1. MergeBaseRow(merge, FALSE, b, v) =
          IF IsPartial(v.row)
          THEN Data(v.key, v.ord, v.id, Overlay(v.row, b.row, Columns)) ELSE v
    BY <1>6 DEF MergeBaseRow, w
  <2>2. v.del = FALSE /\ \A r : Data(v.key, v.ord, v.id, r).del = FALSE
    BY <1>2, <1>6 DEF Data, IsVersion
  <2> QED BY <1>3, <1>6, <2>1, <2>2
<1> QED BY <1>2, <1>4, <1>5, <1>6

LEMMA PathsFollow == RekeyInv /\ BareInv => PathsAgree
<1> SUFFICES ASSUME RekeyInv, BareInv, ~mode.fill, NEW p \in Positions,
                    LookupKey(p) \in DOMAIN records
             PROVE  LET v == Stored(LookupKey(p))
                        m == FinalMerge(mode.merge, BaseRow(p), v)
                        n == MergedRow(p)
                    IN  /\ m.del = n.del
                        /\ m.row # << >> /\ ~IsPartial(m.row) => m.row = n.row
  BY DEF PathsAgree
<1> DEFINE v == Stored(LookupKey(p))
<1>1. IsVersion(v) /\ Bare(v)
  <2>1. IsVersion(records[LookupKey(p)]) /\ Bare(records[LookupKey(p)])
    BY DEF RekeyInv, PlacedInv, BareInv, Bare
  <2> QED BY <2>1, StoredVersion DEF Bare
<1>2. IsVersion(BaseRow(p)) /\ ~BaseRow(p).del
  BY DEF BaseRow, Data, IsVersion
<1>3. mode.merge \in {"commit", "event"} /\ mode.fill = FALSE
  BY PositionsFacts DEF RekeyInv
<1>4. MergedRow(p) = MergeBaseRow(mode.merge, FALSE, BaseRow(p), v)
  BY <1>3 DEF MergedRow
<1> DEFINE m == FinalMerge(mode.merge, BaseRow(p), v)
           n == MergeBaseRow(mode.merge, FALSE, BaseRow(p), v)
<1>5. m.del = n.del /\ (m.row # << >> /\ ~IsPartial(m.row) => m.row = n.row)
  <2> HIDE DEF v
  <2> QED BY <1>1, <1>2, <1>3, KernelAgrees
<1> QED BY <1>4, <1>5

(***************************************************************************)
(* A base row and its log version meet in the vectorised kernel, which     *)
(* sees an ordering value only, or in the row-at-a-time merger: for any    *)
(* pair that will still meet both decide alike, and where the merger's row *)
(* is a whole one the kernel's is the same.                                *)
(***************************************************************************)
THEOREM PathsTheorem == Spec => []PathsAgree
<1>1. Init => BareInv
  BY DEF Init, BareInv
<1> QED BY <1>1, RekeyInit, RekeyStep, BareStep, PathsFollow, PTL DEF Spec
-----------------------------------------------------------------------------
(* What is buffered for a record.  Two versions are ordered by themselves  *)
(* and by their places in the log; the base row stands at place 0.         *)
Beats(u, i, v, j) ==
    LET top(x) == mode.merge = "event" /\ CommitTimeDelete(x)
        rank(x) == IF mode.merge = "event" /\ ~top(x) THEN x.ord.n ELSE 0
    IN  IF top(u) = top(v)
        THEN rank(u) > rank(v) \/ (rank(u) = rank(v) /\ i >= j)
        ELSE top(u)

InOrder(v) ==
    mode.merge = "event" => \/ CommitTimeDelete(v)
                            \/ v.ord.class \in {"default", "long"}

(* v says what u says: it ranks as high, is as dead, and has its values. *)
StandsFor(v, u) ==
    /\ v.del = u.del
    /\ CommitTimeDelete(v) <=> CommitTimeDelete(u)
    /\ ~CommitTimeDelete(u) => v.ord = u.ord
    /\ \A c \in DOMAIN u.row :
         u.row[c] # Hole => c \in DOMAIN v.row /\ v.row[c] = u.row[c]

(* The columns of a version are those its mode allows. *)
Shape(v) ==
    /\ DOMAIN v.row \subseteq Columns
    /\ v.del => DOMAIN v.row = {}
    /\ mode.fill /\ ~v.del => DOMAIN v.row = Columns
    /\ \A c \in DOMAIN v.row : v.row[c] \in Nat \/ (mode.fill /\ v.row[c] = Hole)

Whole(v) == DOMAIN v.row = Columns /\ \A c \in Columns : v.row[c] # Hole

LEMMA BeatsOrder ==
    ASSUME NEW u, NEW v, NEW w, u.ord.n \in Nat, v.ord.n \in Nat, w.ord.n \in Nat,
           NEW i \in Nat, NEW j \in Nat, NEW k \in Nat
    PROVE  /\ Beats(u, i, v, j) /\ Beats(v, j, w, k) => Beats(u, i, w, k)
           /\ Beats(u, i, v, j) /\ Beats(v, j, u, i) => i = j
           /\ Beats(u, i, u, i)
BY DEF Beats

LEMMA StandsForFacts ==
    ASSUME NEW u, NEW v, NEW w
    PROVE  /\ StandsFor(u, u)
           /\ StandsFor(u, v) /\ StandsFor(v, w) => StandsFor(u, w)
<1>1. StandsFor(u, u)
  BY DEF StandsFor
<1>2. ASSUME StandsFor(u, v), StandsFor(v, w) PROVE StandsFor(u, w)
  <2>1. u.del = w.del /\ (CommitTimeDelete(u) <=> CommitTimeDelete(w))
        /\ (~CommitTimeDelete(w) => u.ord = w.ord)
    BY <1>2 DEF StandsFor
  <2>2. \A c \in DOMAIN w.row :
          w.row[c] # Hole => c \in DOMAIN u.row /\ u.row[c] = w.row[c]
    BY <1>2 DEF StandsFor
  <2> QED BY <2>1, <2>2 DEF StandsFor
<1> QED BY <1>1, <1>2

(* Completing a version keeps what it says. *)
LEMMA FillStands ==
    ASSUME NEW v, IsVersion(v), NEW u
    PROVE  /\ StandsFor(FillPartial(v, u), v)
           /\ DOMAIN FillPartial(v, u).row = DOMAIN v.row
           /\ \A c \in DOMAIN v.row :
                FillPartial(v, u).row[c] =
                  IF v.row[c] = Hole /\ c \in DOMAIN u.row THEN u.row[c]
                                                           ELSE v.row[c]
           /\ FillPartial(v, u).del = v.del /\ FillPartial(v, u).id = v.id
           /\ FillPartial(v, u).ord = v.ord
<1> DEFINE f == FillPartial(v, u)
           row == [c \in DOMAIN v.row |->
                     IF v.row[c] = Hole /\ c \in DOMAIN u.row THEN u.row[c]
                                                              ELSE v.row[c]]
<1>1. f.row = row /\ f.del = v.del /\ f.id = v.id /\ f.ord = v.ord
  BY DEF FillPartial, IsVersion
<1>2. DOMAIN f.row = DOMAIN v.row
      /\ \A c \in DOMAIN v.row :
           f.row[c] = IF v.row[c] = Hole /\ c \in DOMAIN u.row THEN u.row[c]
                                                               ELSE v.row[c]
  BY <1>1
<1> HIDE DEF f, row
<1>3. CommitTimeDelete(f) <=> CommitTimeDelete(v)
  BY <1>1 DEF CommitTimeDelete
<1>4. StandsFor(f, v)
  BY <1>1, <1>2, <1>3 DEF StandsFor
<1> QED BY <1>1, <1>2, <1>4 DEF f

(* A narrow version folded with the prior one says what the winner says. *)
LEMMA FoldStands ==
    ASSUME NEW merge, NEW new, IsVersion(new), ~new.del,
           NEW old, IsVersion(old), ~old.del
    PROVE  LET f == FoldNarrow(merge, new, old)
           IN  /\ NewWins(merge, old, new) => StandsFor(f, new)
               /\ ~NewWins(merge, old, new) => StandsFor(f, old)
               /\ DOMAIN f.row = DOMAIN new.row \cup DOMAIN old.row
               /\ \A c \in DOMAIN f.row :
                    \/ c \in DOMAIN new.row /\ f.row[c] = new.row[c]
                    \/ c \in DOMAIN old.row /\ f.row[c] = old.row[c]
               /\ ~f.del /\ f.id = new.id
<1> DEFINE f == FoldNarrow(merge, new, old)
           cs == DOMAIN old.row \cup DOMAIN new.row
<1>1. new.del = FALSE /\ old.del = FALSE
  BY DEF IsVersion
<1>2. CASE NewWins(merge, old, new)
  <2>1. f.row = Overlay(new.row, old.row, cs) /\ f.del = new.del
        /\ f.ord = new.ord /\ f.id = new.id
    BY <1>2 DEF FoldNarrow, UnionColumns, IsVersion
  <2>2. DOMAIN f.row = cs
        /\ \A c \in cs : f.row[c] = IF c \in DOMAIN new.row THEN new.row[c]
                                                            ELSE old.row[c]
    BY <2>1 DEF Overlay
  <2> HIDE DEF f
  <2>3. StandsFor(f, new)
    BY <1>1, <2>1, <2>2 DEF StandsFor, CommitTimeDelete
  <2> QED BY <1>1, <1>2, <2>1, <2>2, <2>3 DEF f
<1>3. CASE ~NewWins(merge, old, new)
  <2>1. f.row = Overlay(old.row, new.row, cs) /\ f.del = new.del
        /\ f.ord = old.ord /\ f.id = new.id
    BY <1>3 DEF FoldNarrow, UnionColumns, IsVersion
  <2>2. DOMAIN f.row = cs
        /\ \A c \in cs : f.row[c] = IF c \in DOMAIN old.row THEN old.row[c]
                                                            ELSE new.row[c]
    BY <2>1 DEF Overlay
  <2> HIDE DEF f
  <2>3. StandsFor(f, old)
    BY <1>1, <2>1, <2>2 DEF StandsFor, CommitTimeDelete
  <2> QED BY <1>1, <1>3, <2>1, <2>2, <2>3 DEF f
<1> QED BY <1>2, <1>3

(* Where the buffered version stands for u, the merger decides by the order *)
(* of the two versions.                                                     *)
LEMMA DecidedByOrder ==
    ASSUME mode.merge \in {"commit", "event"},
           NEW new, new.ord \in OrderValues, InOrder(new), new.del \in BOOLEAN,
           Shape(new), NEW u, u.del \in BOOLEAN, u.ord \in OrderValues, InOrder(u),
           NEW old, StandsFor(old, u), NEW i \in Nat, NEW n \in Nat, i < n
    PROVE  /\ mode.merge = "event" /\ ~CommitTimeDelete(u) =>
                IF NewWins(mode.merge, old, new) THEN Beats(new, n, u, i)
                                                 ELSE Beats(u, i, new, n)
           /\ mode.merge = "commit" =>
                NewWins(mode.merge, old, new) /\ Beats(new, n, u, i)
           /\ new.del =>
                IF DeleteApplies(mode.merge, new, old)
                THEN Beats(new, n, u, i)
                ELSE \/ Beats(u, i, new, n)
                     \/ StandsFor(old, new) /\ Beats(new, n, u, i)
<1>1. mode.merge = "commit" =>
        NewWins(mode.merge, old, new) /\ Beats(new, n, u, i)
        /\ DeleteApplies(mode.merge, new, old)
  BY DEF NewWins, Beats, DeleteApplies
<1>2. new.ord.n \in Nat /\ u.ord.n \in Nat
  BY DEF OrderValues
<1>3. ASSUME mode.merge = "event", ~CommitTimeDelete(u), ~CommitTimeDelete(new)
      PROVE  /\ OutrankedBy(new.ord, old.ord) <=> u.ord.n > new.ord.n
             /\ Beats(u, i, new, n) <=> u.ord.n > new.ord.n
             /\ Beats(new, n, u, i) <=> ~(u.ord.n > new.ord.n)
             /\ ~CommitTimeDelete(old)
  <2>1. old.ord = u.ord /\ ~CommitTimeDelete(old)
    BY <1>3 DEF StandsFor
  <2>2. new.ord.class \in {"default", "long"} /\ u.ord.class \in {"default", "long"}
    BY <1>3 DEF InOrder
  <2>3. OutrankedBy(new.ord, old.ord) <=> u.ord.n > new.ord.n
    BY <2>1, <2>2 DEF OutrankedBy, BothOrdered, SameClass
  <2> QED BY <1>2, <1>3, <2>1, <2>3 DEF Beats
<1>4. ASSUME mode.merge = "event", CommitTimeDelete(new)
      PROVE  Beats(new, n, u, i)
  BY <1>4 DEF Beats
<1>5. ASSUME mode.merge = "event", ~CommitTimeDelete(u)
      PROVE  IF NewWins(mode.merge, old, new) THEN Beats(new, n, u, i)
                                              ELSE Beats(u, i, new, n)
  BY <1>3, <1>4, <1>5 DEF NewWins, ShouldKeepNewer
<1>6. ASSUME mode.merge = "event", new.del
      PROVE  IF DeleteApplies(mode.merge, new, old)
             THEN Beats(new, n, u, i)
             ELSE \/ Beats(u, i, new, n)
                  \/ StandsFor(old, new) /\ Beats(new, n, u, i)
  <2>1. CASE CommitTimeDelete(u)
    <3>1. CommitTimeDelete(old) /\ ~DeleteApplies(mode.merge, new, old)
      BY <1>6, <2>1 DEF StandsFor, DeleteApplies
    <3>2. CASE CommitTimeDelete(new)
      <4>1. DOMAIN new.row = {} /\ old.del = new.del
        BY <1>6, <2>1 DEF Shape, StandsFor, CommitTimeDelete
      <4>2. StandsFor(old, new)
        BY <3>1, <3>2, <4>1 DEF StandsFor
      <4> QED BY <1>4, <1>6, <3>1, <3>2, <4>2
    <3>3. CASE ~CommitTimeDelete(new)
      BY <1>6, <2>1, <3>1, <3>3 DEF Beats
    <3> QED BY <3>2, <3>3
  <2>2. CASE ~CommitTimeDelete(u) /\ CommitTimeDelete(new)
    <3>1. DeleteApplies(mode.merge, new, old)
      BY <1>6, <2>2 DEF DeleteApplies, StandsFor, CommitTimeDelete
    <3> QED BY <1>4, <1>6, <2>2, <3>1
  <2>3. CASE ~CommitTimeDelete(u) /\ ~CommitTimeDelete(new)
    <3>1. DeleteApplies(mode.merge, new, old) <=> ~OutrankedBy(new.ord, old.ord)
      BY <1>3, <1>6, <2>3 DEF DeleteApplies, CommitTimeDelete
    <3> QED BY <1>3, <1>6, <2>3, <3>1
  <2> QED BY <2>1, <2>2, <2>3
<1> QED BY <1>1, <1>5, <1>6

(* The four ways in which a version meets the buffered one. *)
LEMMA MergedForms ==
    ASSUME NEW new, IsVersion(new), Shape(new), NEW old, IsVersion(old), Shape(old),
           NEW block, mode.fill \in BOOLEAN
    PROVE  LET m == Merged(block, new, old)
               w == NewWins(mode.merge, old, new)
           IN  \/ /\ block = "delete"
                  /\ m = IF DeleteApplies(mode.merge, new, old) THEN new ELSE old
               \/ /\ block # "delete" /\ ~mode.fill /\ ~new.del /\ ~old.del
                  /\ m = FoldNarrow(mode.merge, new, old)
               \/ /\ block # "delete" /\ mode.fill
                  /\ m = IF w THEN FillPartial(new, old) ELSE FillPartial(old, new)
               \/ /\ block # "delete" /\ ~mode.fill
                  /\ new.del \/ old.del \/ DOMAIN new.row = Columns
                  /\ m = IF w THEN new ELSE old
<1> DEFINE m == Merged(block, new, old)
           narrow == ~new.del /\ IsPartial(new.row)
<1>1. narrow => ~mode.fill
  BY DEF Shape, IsPartial
<1>2. ~narrow /\ ~new.del => DOMAIN new.row = Columns
  BY DEF Shape, IsPartial
<1>3. CASE block = "delete"
  BY <1>3 DEF Merged, DeltaMergeDelete
<1>4. CASE block # "delete" /\ narrow
  <2>1. m = IF old.del THEN DeltaMerge(mode.merge, new, old)
                       ELSE FoldNarrow(mode.merge, new, old)
    BY <1>4 DEF Merged, MergeData
  <2> HIDE DEF m
  <2>2. CASE old.del
    BY <1>1, <1>4, <2>1, <2>2 DEF DeltaMerge, m
  <2>3. CASE ~old.del
    BY <1>1, <1>4, <2>1, <2>3 DEF m
  <2> QED BY <2>2, <2>3
<1>5. CASE block # "delete" /\ ~narrow
  <2>1. m = IF mode.fill THEN FoldFilled(mode.merge, new, old)
                         ELSE DeltaMerge(mode.merge, new, old)
    BY <1>5 DEF Merged, MergeData
  <2>2. CASE mode.fill
    BY <1>5, <2>1, <2>2 DEF FoldFilled
  <2>3. CASE ~mode.fill
    BY <1>2, <1>5, <2>1, <2>3 DEF DeltaMerge
  <2> QED BY <2>2, <2>3
<1> QED BY <1>3, <1>4, <1>5

(* Completing leaves a placeholder only where both versions have it. *)
LEMMA FillShape ==
    ASSUME mode.fill, NEW t, IsVersion(t), Shape(t), NEW s, Shape(s)
    PROVE  LET f == FillPartial(t, s)
           IN  /\ Shape(f) /\ f.id = t.id /\ f.del = t.del
               /\ ~f.del => \A c \in Columns :
                    f.row[c] = Hole <=> /\ t.row[c] = Hole
                                        /\ s.del \/ s.row[c] = Hole
               /\ f.del = TRUE \/ DOMAIN f.row = Columns
<1> DEFINE f == FillPartial(t, s)
<1>1. /\ DOMAIN f.row = DOMAIN t.row
      /\ \A c \in DOMAIN t.row :
           f.row[c] = IF t.row[c] = Hole /\ c \in DOMAIN s.row THEN s.row[c]
                                                               ELSE t.row[c]
      /\ f.del = t.del /\ f.id = t.id
  BY FillStands
<1> HIDE DEF f
<1>2. Shape(f)
  BY <1>1 DEF Shape
<1>3. f.del = TRUE \/ DOMAIN f.row = Columns
  BY <1>1 DEF Shape, IsVersion
<1>4. s.del \/ DOMAIN s.row = Columns
  BY DEF Shape
<1>5. s.del => DOMAIN s.row = {}
  BY DEF Shape
<1>6. ASSUME ~f.del, NEW c \in Columns
      PROVE  f.row[c] = Hole <=> t.row[c] = Hole /\ (s.del \/ s.row[c] = Hole)
  <2>1. c \in DOMAIN t.row
    BY <1>1, <1>3, <1>6
  <2>2. f.row[c] = IF t.row[c] = Hole /\ c \in DOMAIN s.row THEN s.row[c]
                                                            ELSE t.row[c]
    BY <1>1, <2>1
  <2> QED BY <1>4, <1>5, <2>2
<1> QED BY <1>1, <1>2, <1>3, <1>6 DEF f

(* What a merged version keeps of the two. *)
LEMMA MergedShape ==
    ASSUME NEW new, IsVersion(new), Shape(new), NEW old, IsVersion(old), Shape(old),
           NEW block, block = "delete" => new.del, mode.fill \in BOOLEAN
    PROVE  LET m == Merged(block, new, old)
           IN  /\ Shape(m)
               /\ m.id \in {new.id, old.id}
               /\ m.del => new.del \/ old.del
               /\ (~new.del /\ ~Whole(new) => ~old.del) /\ (~old.del => Whole(old))
                    => (~m.del => Whole(m))
               /\ mode.fill /\ ~m.del => \A c \in Columns : m.row[c] = Hole =>
                    /\ c \notin DOMAIN new.row \/ new.row[c] = Hole
                    /\ old.del \/ old.row[c] = Hole
<1> DEFINE m == Merged(block, new, old)
           keep == (~new.del /\ ~Whole(new) => ~old.del) /\ (~old.del => Whole(old))
<1>0. Hole \notin Nat
  BY RecordBufferAssumption
<1>1. CASE block = "delete" /\ m = (IF DeleteApplies(mode.merge, new, old)
                                    THEN new ELSE old)
  <2>1. m \in {new, old} /\ new.del /\ DOMAIN new.row = {}
    BY <1>1 DEF Shape
  <2> HIDE DEF m
  <2>2. m.del \/ m = old
    BY <2>1
  <2> QED BY <2>1, <2>2 DEF m
<1>2. CASE /\ ~mode.fill /\ ~new.del /\ ~old.del
           /\ m = FoldNarrow(mode.merge, new, old)
  <2> DEFINE f == FoldNarrow(mode.merge, new, old)
  <2>0. /\ DOMAIN f.row = DOMAIN new.row \cup DOMAIN old.row
        /\ \A c \in DOMAIN f.row :
             \/ c \in DOMAIN new.row /\ f.row[c] = new.row[c]
             \/ c \in DOMAIN old.row /\ f.row[c] = old.row[c]
        /\ ~f.del /\ f.id = new.id
    <3>1. ~new.del /\ ~old.del
      BY <1>2
    <3> QED BY <3>1, FoldStands
  <2> HIDE DEF m, f
  <2>1. /\ DOMAIN m.row = DOMAIN new.row \cup DOMAIN old.row
        /\ \A c \in DOMAIN m.row :
             \/ c \in DOMAIN new.row /\ m.row[c] = new.row[c]
             \/ c \in DOMAIN old.row /\ m.row[c] = old.row[c]
        /\ ~m.del /\ m.id = new.id
    BY <1>2, <2>0 DEF f
  <2>2. Shape(m)
    BY <1>2, <2>1 DEF Shape
  <2>3. keep => Whole(m)
    <3>1. keep => DOMAIN m.row = Columns
      BY <1>2, <2>1, <2>2 DEF Whole, Shape
    <3>2. \A c \in DOMAIN m.row : m.row[c] # Hole
      BY <1>0, <1>2, <2>2 DEF Shape
    <3> QED BY <3>1, <3>2 DEF Whole
  <2> QED BY <1>2, <2>1, <2>2, <2>3 DEF m
<1>4. CASE mode.fill /\ m = FillPartial(new, old)
  <2> HIDE DEF m
  <2>1. /\ Shape(m) /\ m.id = new.id /\ m.del = new.del
        /\ ~m.del => \A c \in Columns :
             m.row[c] = Hole <=> new.row[c] = Hole /\ (old.del \/ old.row[c] = Hole)
        /\ m.del = TRUE \/ DOMAIN m.row = Columns
    BY <1>4, FillShape
  <2>2. keep /\ ~m.del => Whole(m)
    BY <2>1 DEF Whole, Shape
  <2> QED BY <2>1, <2>2 DEF m
<1>5. CASE mode.fill /\ m = FillPartial(old, new)
  <2> HIDE DEF m
  <2>1. /\ Shape(m) /\ m.id = old.id /\ m.del = old.del
        /\ ~m.del => \A c \in Columns :
             m.row[c] = Hole <=> old.row[c] = Hole /\ (new.del \/ new.row[c] = Hole)
        /\ m.del = TRUE \/ DOMAIN m.row = Columns
    BY <1>5, FillShape
  <2>2. keep /\ ~m.del => Whole(m)
    BY <2>1 DEF Whole
  <2>3. new.del => DOMAIN new.row = {}
    BY DEF Shape
  <2> QED BY <2>1, <2>2, <2>3 DEF m
<1>6. CASE /\ ~mode.fill
           /\ new.del \/ old.del \/ DOMAIN new.row = Columns
           /\ m = IF NewWins(mode.merge, old, new) THEN new ELSE old
  <2>1. m \in {new, old}
    BY <1>6
  <2> HIDE DEF m
  <2>2. keep /\ ~new.del => Whole(new)
    BY <1>0, <1>6 DEF Whole, Shape
  <2>3. keep /\ ~m.del => Whole(m)
    BY <2>1, <2>2
  <2> QED BY <1>6, <2>1, <2>3 DEF m
<1> QED BY <1>1, <1>2, <1>4, <1>5, <1>6, MergedForms

(* A merged version stands for the higher of the two. *)
LEMMA MergedStands ==
    ASSUME mode.merge \in {"commit", "event"}, mode.fill \in BOOLEAN,
           NEW new \in LogVersions, Shape(new), InOrder(new),
           NEW u \in LogVersions, InOrder(u),
           NEW old, IsVersion(old), Shape(old), StandsFor(old, u),
           NEW i \in Nat, NEW n \in Nat, i < n,
           NEW block, block = "delete" => new.del,
           block # "delete" /\ mode.merge = "event" => ~CommitTimeDelete(u)
    PROVE  LET m == Merged(block, new, old)
           IN  \/ StandsFor(m, new) /\ Beats(new, n, u, i)
               \/ StandsFor(m, u) /\ Beats(u, i, new, n)
<1> DEFINE m == Merged(block, new, old)
           w == NewWins(mode.merge, old, new)
<1>1. IsVersion(new) /\ new.ord \in OrderValues /\ new.del \in BOOLEAN
      /\ u.ord \in OrderValues /\ u.del \in BOOLEAN
  BY NewVersions DEF LogVersions
<1>2. SUFFICES \/ StandsFor(m, new) /\ Beats(new, n, u, i)
               \/ StandsFor(m, old) /\ Beats(u, i, new, n)
  BY StandsForFacts
<1>3. block # "delete" =>
        IF w THEN Beats(new, n, u, i) ELSE Beats(u, i, new, n)
  BY <1>1, DecidedByOrder
<1>4. CASE block = "delete" /\ m = (IF DeleteApplies(mode.merge, new, old)
                                    THEN new ELSE old)
  <2>1. IF DeleteApplies(mode.merge, new, old)
        THEN Beats(new, n, u, i)
        ELSE \/ Beats(u, i, new, n)
             \/ StandsFor(old, new) /\ Beats(new, n, u, i)
    BY <1>1, <1>4, DecidedByOrder
  <2> QED BY <1>4, <2>1, StandsForFacts
<1>5. CASE /\ block # "delete" /\ ~new.del /\ ~old.del
           /\ m = FoldNarrow(mode.merge, new, old)
  <2>1. IF w THEN StandsFor(m, new) ELSE StandsFor(m, old)
    BY <1>1, <1>5, FoldStands
  <2> QED BY <1>3, <1>5, <2>1
<1>6. CASE /\ block # "delete"
           /\ m = IF w THEN FillPartial(new, old) ELSE FillPartial(old, new)
  <2>1. IF w THEN StandsFor(m, new) ELSE StandsFor(m, old)
    BY <1>1, <1>6, FillStands
  <2> QED BY <1>3, <1>6, <2>1
<1>7. CASE block # "delete" /\ m = IF w THEN new ELSE old
  BY <1>3, <1>7, StandsForFacts
<1> QED BY <1>1, <1>4, <1>5, <1>6, <1>7, MergedForms

-----------------------------------------------------------------------------
(* The records of a log lg for one record, S, and the version buffered for *)
(* them.                                                                   *)
Sorted(lg, S) == \A i \in S : InOrder(lg[i].ver)
Calm(lg, S) ==
    mode.merge = "event" =>
        \A i, j \in S : i < j /\ CommitTimeDelete(lg[i].ver) => lg[j].block = "delete"

Highest(lg, w, S) == \A j \in S : Beats(lg[w].ver, w, lg[j].ver, j)

(* It stands for the highest of them. *)
Wins(lg, v, S) ==
    Calm(lg, S) /\ Sorted(lg, S) =>
        \E w \in S : StandsFor(v, lg[w].ver) /\ Highest(lg, w, S)

Gives(lg, i, c) == c \in DOMAIN lg[i].ver.row /\ lg[i].ver.row[c] # Hole
TakenAway(lg, i, S) ==
    \E j \in S : lg[j].ver.del /\ Beats(lg[j].ver, j, lg[i].ver, i)

(* A placeholder is left only where a delete took the values away. *)
Completed(lg, v, S) ==
    mode.fill /\ ~v.del /\ Sorted(lg, S) =>
        \A c \in Columns : v.row[c] = Hole =>
            \A i \in S : Gives(lg, i, c) => TakenAway(lg, i, S)

InBaseFile(k) == \E p \in Positions : base[p + 1].key = k

EntryOK(lg, v, k, S) ==
    /\ v.id = k
    /\ Shape(v)
    /\ v.del => \E i \in S : lg[i].ver.del
    /\ ~v.del /\ ~InBaseFile(k) => Whole(v)
    /\ Wins(lg, v, S)
    /\ Completed(lg, v, S)

(* What a writer may append. *)
LogRecordOK(e) ==
    /\ e.ver \in LogVersions
    /\ e.ver.id = e.ver.key
    /\ Shape(e.ver)
    /\ e.block \in {"data", "delete"}
    /\ e.block = "delete" => e.ver.del

(* Two logs that agree on S. *)
LEMMA EntryFrame ==
    ASSUME NEW lg, NEW lh, NEW S, \A i \in S : lh[i] = lg[i], NEW v, NEW k,
           EntryOK(lg, v, k, S)
    PROVE  EntryOK(lh, v, k, S)
<1>1. /\ Sorted(lh, S) <=> Sorted(lg, S)
      /\ Calm(lh, S) <=> Calm(lg, S)
  BY DEF Sorted, Calm
<1>2. \A w \in S : Highest(lh, w, S) <=> Highest(lg, w, S)
  BY DEF Highest
<1>3. Wins(lh, v, S)
  BY <1>1, <1>2 DEF EntryOK, Wins
<1>4. \A i \in S : /\ TakenAway(lh, i, S) <=> TakenAway(lg, i, S)
                   /\ \A c : Gives(lh, i, c) <=> Gives(lg, i, c)
  BY DEF TakenAway, Gives
<1>5. Completed(lh, v, S)
  BY <1>1, <1>4 DEF EntryOK, Completed
<1> QED BY <1>3, <1>5 DEF EntryOK

(* The key in the envelope is not looked at. *)
LEMMA EntryEnvelope ==
    ASSUME NEW lg, NEW v, IsVersion(v), NEW k, NEW S, EntryOK(lg, v, k, S), NEW x
    PROVE  EntryOK(lg, [v EXCEPT !.key = x], k, S)
<1> DEFINE u == [v EXCEPT !.key = x]
<1>1. u.id = v.id /\ u.del = v.del /\ u.ord = v.ord /\ u.row = v.row
  BY DEF IsVersion
<1> HIDE DEF u
<1>2. CommitTimeDelete(u) <=> CommitTimeDelete(v)
  BY <1>1 DEF CommitTimeDelete
<1>3. \A y : StandsFor(v, y) => StandsFor(u, y)
  BY <1>1, <1>2 DEF StandsFor
<1>4. Wins(lg, u, S)
  BY <1>3 DEF EntryOK, Wins
<1>5. Completed(lg, u, S)
  BY <1>1 DEF EntryOK, Completed
<1>6. Shape(u) /\ (Whole(v) => Whole(u))
  BY <1>1 DEF EntryOK, Shape, Whole
<1> QED BY <1>1, <1>4, <1>5, <1>6 DEF EntryOK, u

(* The first record of a key. *)
LEMMA EntryFirst ==
    ASSUME NEW lg, NEW n \in Nat, LogRecordOK(lg[n]), NEW k, lg[n].ver.key = k,
           ~lg[n].ver.del /\ ~InBaseFile(k) => Whole(lg[n].ver)
    PROVE  EntryOK(lg, lg[n].ver, k, {n})
<1> DEFINE v == lg[n].ver
<1>1. v.ord.n \in Nat /\ v \in LogVersions
  BY DEF LogRecordOK, LogVersions, OrderValues
<1>2. Highest(lg, n, {n})
  BY <1>1, BeatsOrder DEF Highest
<1>3. StandsFor(v, v)
  BY StandsForFacts
<1>4. Wins(lg, v, {n})
  BY <1>2, <1>3 DEF Wins
<1>5. Completed(lg, v, {n})
  BY DEF Completed, Gives
<1> QED BY <1>4, <1>5 DEF EntryOK, LogRecordOK

(* Where a tombstone is buffered, a delete stands above every value. *)
LEMMA DeadTakesAll ==
    ASSUME NEW lg, NEW v, NEW k, NEW S, EntryOK(lg, v, k, S), v.del, Sorted(lg, S),
           \A i \in S : LogRecordOK(lg[i]), NEW i \in S, NEW c, Gives(lg, i, c)
    PROVE  TakenAway(lg, i, S)
<1>1. CASE Calm(lg, S)
  <2>1. PICK w \in S : StandsFor(v, lg[w].ver) /\ Highest(lg, w, S)
    BY <1>1 DEF EntryOK, Wins
  <2>2. lg[w].ver.del
    BY <2>1 DEF StandsFor
  <2> QED BY <2>1, <2>2 DEF TakenAway, Highest
<1>2. CASE ~Calm(lg, S)
  <2>1. mode.merge = "event" /\ \E j \in S : CommitTimeDelete(lg[j].ver)
    BY <1>2 DEF Calm
  <2>2. PICK j \in S : CommitTimeDelete(lg[j].ver)
    BY <2>1
  <2>3. ~CommitTimeDelete(lg[i].ver)
    BY DEF CommitTimeDelete, Gives, LogRecordOK, Shape
  <2>4. Beats(lg[j].ver, j, lg[i].ver, i)
    BY <2>1, <2>2, <2>3 DEF Beats
  <2>5. lg[j].ver.del
    BY <2>2 DEF CommitTimeDelete
  <2> QED BY <2>4, <2>5 DEF TakenAway
<1> QED BY <1>1, <1>2

(* A further record of the key, merged into what is buffered. *)
LEMMA EntryMerged ==
    ASSUME mode.merge \in {"commit", "event"}, mode.fill \in BOOLEAN,
           NEW lg, NEW S \in SUBSET Nat, \A i \in S : LogRecordOK(lg[i]),
           NEW n \in Nat, \A i \in S : i < n, LogRecordOK(lg[n]),
           NEW k, lg[n].ver.key = k, NEW old, IsVersion(old), EntryOK(lg, old, k, S),
           ~InBaseFile(k) /\ ~lg[n].ver.del /\ ~Whole(lg[n].ver) => ~old.del
    PROVE  EntryOK(lg, Merged(lg[n].block, lg[n].ver, old), k, S \cup {n})
<1> DEFINE new == lg[n].ver
           block == lg[n].block
           m == Merged(block, new, old)
           T == S \cup {n}
<1>1. /\ new \in LogVersions /\ IsVersion(new) /\ Shape(new) /\ new.id = k
      /\ block = "delete" => new.del
      /\ new.ord.n \in Nat
  BY NewVersions DEF LogRecordOK, LogVersions, OrderValues
<1>2. Shape(old) /\ old.id = k
  BY DEF EntryOK
<1>3. /\ \A i \in S : lg[i].ver.ord.n \in Nat /\ lg[i].ver \in LogVersions
      /\ \A i \in T : lg[i].ver.ord.n \in Nat
  BY <1>1 DEF LogRecordOK, LogVersions, OrderValues
<1> HIDE DEF new, block, m
<1>4. /\ Shape(m)
      /\ m.id \in {new.id, old.id}
      /\ m.del => new.del \/ old.del
      /\ (~new.del /\ ~Whole(new) => ~old.del) /\ (~old.del => Whole(old))
           => (~m.del => Whole(m))
      /\ mode.fill /\ ~m.del => \A c \in Columns : m.row[c] = Hole =>
           /\ c \notin DOMAIN new.row \/ new.row[c] = Hole
           /\ old.del \/ old.row[c] = Hole
  BY <1>1, <1>2, MergedShape DEF m
<1>5. m.del => \E i \in T : lg[i].ver.del
  BY <1>4 DEF EntryOK, new
<1>6. ~m.del /\ ~InBaseFile(k) => Whole(m)
  BY <1>4 DEF EntryOK, new
<1>7. /\ Sorted(lg, T) => Sorted(lg, S) /\ InOrder(new)
      /\ Calm(lg, T) => Calm(lg, S)
  BY DEF Sorted, Calm, new
<1>8. Wins(lg, m, T)
  <2> SUFFICES ASSUME Calm(lg, T), Sorted(lg, T)
               PROVE  \E x \in T : StandsFor(m, lg[x].ver) /\ Highest(lg, x, T)
    BY DEF Wins
  <2>1. PICK w \in S : StandsFor(old, lg[w].ver) /\ Highest(lg, w, S)
    BY <1>7 DEF EntryOK, Wins
  <2>2. w \in Nat /\ w < n /\ lg[w].ver \in LogVersions /\ InOrder(lg[w].ver)
    BY <1>3, <1>7 DEF Sorted
  <2>3. block # "delete" /\ mode.merge = "event" => ~CommitTimeDelete(lg[w].ver)
    BY <2>2 DEF Calm, block
  <2>4. \/ StandsFor(m, new) /\ Beats(new, n, lg[w].ver, w)
        \/ StandsFor(m, lg[w].ver) /\ Beats(lg[w].ver, w, new, n)
    BY <1>1, <1>2, <1>7, <2>1, <2>2, <2>3, MergedStands DEF m
  <2>5. ASSUME Beats(new, n, lg[w].ver, w) PROVE Highest(lg, n, T)
    <3>1. \A j \in S : Beats(lg[w].ver, w, lg[j].ver, j)
      BY <2>1 DEF Highest
    <3>2. ASSUME NEW j \in S PROVE Beats(new, n, lg[j].ver, j)
      <4>1. j \in Nat /\ lg[j].ver.ord.n \in Nat /\ lg[w].ver.ord.n \in Nat
        BY <1>3
      <4>2. Beats(lg[w].ver, w, lg[j].ver, j)
        BY <3>1
      <4> QED BY <1>1, <2>2, <2>5, <4>1, <4>2 DEF Beats
    <3>3. Beats(new, n, new, n)
      BY <1>1, BeatsOrder
    <3> QED BY <3>2, <3>3 DEF Highest, new
  <2>6. ASSUME Beats(lg[w].ver, w, new, n) PROVE Highest(lg, w, T)
    BY <2>1, <2>6 DEF Highest, new
  <2> QED BY <2>1, <2>4, <2>5, <2>6 DEF new
<1>9. Completed(lg, m, T)
  <2> SUFFICES ASSUME mode.fill, ~m.del, Sorted(lg, T), NEW c \in Columns,
                      m.row[c] = Hole, NEW i \in T, Gives(lg, i, c)
               PROVE  TakenAway(lg, i, T)
    BY DEF Completed
  <2>1. i \in S
    BY <1>4 DEF Gives, new
  <2>2. TakenAway(lg, i, S) => TakenAway(lg, i, T)
    BY DEF TakenAway
  <2>3. CASE ~old.del
    <3>1. old.row[c] = Hole
      BY <1>4, <2>3
    <3>2. TakenAway(lg, i, S)
      BY <1>7, <2>1, <2>3, <3>1 DEF EntryOK, Completed
    <3> QED BY <2>2, <3>2
  <2>4. CASE old.del
    BY <1>7, <2>1, <2>2, <2>4, DeadTakesAll
  <2> QED BY <2>3, <2>4
<1> QED BY <1>1, <1>2, <1>4, <1>5, <1>6, <1>8, <1>9 DEF EntryOK, m, new, block

-----------------------------------------------------------------------------
(* The map, keyed by position or by record key, against the log. *)
At(lg, byPos, i) == IF byPos THEN lg[i].pos ELSE lg[i].ver.key
OpsUnder(lg, byPos, mk) == {i \in DOMAIN lg : At(lg, byPos, i) = mk}
KeyUnder(byPos, mk) == IF byPos THEN base[mk + 1].key ELSE mk
MapKeys(lg, byPos) == {At(lg, byPos, i) : i \in DOMAIN lg}
EntriesHold(lg, map, byPos) ==
    \A mk \in DOMAIN map :
        EntryOK(lg, map[mk], KeyUnder(byPos, mk), OpsUnder(lg, byPos, mk))

BufferInv ==
    /\ RekeyInv
    /\ err # "rekey" => /\ \A i \in DOMAIN log : LogRecordOK(log[i])
                        /\ EntriesHold(log, records, usePos)
    /\ phase = "scan" => DOMAIN records = MapKeys(log, usePos)

LEMMA SameRead ==
    ASSUME UNCHANGED <<mode, base>>
    PROVE  /\ \A lg, v, k, S : EntryOK(lg, v, k, S)' <=> EntryOK(lg, v, k, S)
           /\ \A e : LogRecordOK(e)' <=> LogRecordOK(e)
           /\ \A b, mk : KeyUnder(b, mk)' = KeyUnder(b, mk)
<1>1. \A v : (Shape(v)' <=> Shape(v)) /\ (InOrder(v)' <=> InOrder(v))
  BY DEF Shape, InOrder
<1>2. \A u, i, v, j : Beats(u, i, v, j)' <=> Beats(u, i, v, j)
  BY DEF Beats
<1>3. \A lg, S : (Sorted(lg, S)' <=> Sorted(lg, S)) /\ (Calm(lg, S)' <=> Calm(lg, S))
  BY <1>1 DEF Sorted, Calm
<1>4. \A lg, w, S : Highest(lg, w, S)' <=> Highest(lg, w, S)
  BY <1>2 DEF Highest
<1>5. \A lg, v, S : Wins(lg, v, S)' <=> Wins(lg, v, S)
  BY <1>3, <1>4 DEF Wins
<1>6. \A lg, i, S : TakenAway(lg, i, S)' <=> TakenAway(lg, i, S)
  BY <1>2 DEF TakenAway
<1>7. \A lg, v, S : Completed(lg, v, S)' <=> Completed(lg, v, S)
  BY <1>3, <1>6 DEF Completed
<1>8. \A k : InBaseFile(k)' <=> InBaseFile(k)
  BY DEF InBaseFile, Positions
<1>9. \A lg, v, k, S : EntryOK(lg, v, k, S)' <=> EntryOK(lg, v, k, S)
  BY <1>1, <1>5, <1>7, <1>8 DEF EntryOK
<1>10. \A e : LogRecordOK(e)' <=> LogRecordOK(e)
  BY <1>1 DEF LogRecordOK
<1>11. \A b, mk : KeyUnder(b, mk)' = KeyUnder(b, mk)
  BY DEF KeyUnder
<1> QED BY <1>9, <1>10, <1>11

(* What writers append: a version that lacks values is of a record that    *)
(* exists.                                                                 *)
LEMMA WriterSteps ==
    ASSUME ReadInv, ProcessDataBlock \/ ProcessDeleteMarker \/ ProcessDeleteBlock
    PROVE  \E block \in {"data", "delete"}, v \in LogVersions :
             /\ \E p \in PositionsOf(v.key) :
                  (mode.positions \/ p = NoPos) /\ ProcessBlock(block, v, p)
             /\ v.id = v.key /\ Shape(v) /\ (block = "delete" => v.del)
             /\ ~v.del /\ ~Whole(v) => Known(v.key)
<1>1. OrdersHere \subseteq OrderValues
  BY RecordBufferAssumption
  DEF OrdersHere, OrderValues, DefaultOrder, Order, OrderClasses
<1>2. Len(log) + 1 \in Nat
  BY DEF ReadInv
<1>3. CASE ProcessDataBlock
  <2>1. PICK k \in Keys, o \in OrdersHere, columns \in {Columns} \cup Narrow,
             holes \in {{}} \cup Holes :
          /\ columns # Columns => ~mode.fill /\ Known(k)
          /\ holes # {} => mode.fill /\ Known(k)
          /\ \E p \in PositionsOf(k) :
               /\ mode.positions \/ p = NoPos
               /\ ProcessBlock("data",
                    Data(k, o, k, NewRow(Len(log) + 1, columns, holes)), p)
    BY <1>3 DEF ProcessDataBlock
  <2> DEFINE row == NewRow(Len(log) + 1, columns, holes)
             v == Data(k, o, k, row)
  <2>2. columns \in SUBSET Columns /\ holes \in SUBSET Columns
    BY RecordBufferAssumption
  <2>3. v \in LogVersions
    BY <1>1, <1>2, <2>2, NewVersions
  <2>4. v.key = k /\ v.id = v.key /\ v.del = FALSE /\ v.row = row
    BY DEF Data
  <2>5. DOMAIN row = columns
        /\ \A c \in columns : row[c] = IF c \in holes THEN Hole ELSE Len(log) + 1
    BY DEF NewRow
  <2> HIDE DEF v, row
  <2>6. \E p \in PositionsOf(v.key) :
          (mode.positions \/ p = NoPos) /\ ProcessBlock("data", v, p)
    BY <2>1, <2>4 DEF v, row
  <2>7. Shape(v)
    BY <1>2, <2>1, <2>2, <2>4, <2>5 DEF Shape
  <2>8. ~Whole(v) => Known(v.key)
    <3>1. Hole # Len(log) + 1
      BY <1>2, RecordBufferAssumption
    <3>2. columns = Columns /\ holes = {} => Whole(v)
      BY <2>4, <2>5, <3>1 DEF Whole
    <3> QED BY <2>1, <2>4, <3>2
  <2> QED BY <2>3, <2>4, <2>6, <2>7, <2>8
<1>4. CASE ProcessDeleteMarker \/ ProcessDeleteBlock
  <2>1. PICK k \in Keys, o \in OrdersHere, block \in {"data", "delete"} :
          \E p \in PositionsOf(k) :
            /\ mode.positions \/ p = NoPos
            /\ ProcessBlock(block, Tombstone(k, o), p)
    BY <1>4 DEF ProcessDeleteMarker, ProcessDeleteBlock
  <2> DEFINE v == Tombstone(k, o)
  <2>2. v \in LogVersions
    BY <1>1, NewVersions
  <2>3. v.key = k /\ v.id = v.key /\ v.row = << >> /\ v.del = TRUE
    BY DEF Tombstone
  <2> HIDE DEF v
  <2>4. \E p \in PositionsOf(v.key) :
          (mode.positions \/ p = NoPos) /\ ProcessBlock(block, v, p)
    BY <2>1, <2>3 DEF v
  <2>5. DOMAIN v.row = {}
    BY <2>3
  <2>6. Shape(v)
    BY <2>3, <2>5 DEF Shape
  <2> QED BY <2>2, <2>3, <2>4, <2>6
<1> QED BY <1>3, <1>4

(* The map a log record goes to holds what the log says so far. *)
LEMMA TargetHolds ==
    ASSUME BufferInv, phase = "scan", NEW p, ~(usePos /\ p = NoPos /\ RekeyClash)
    PROVE  /\ DOMAIN Target(p) = MapKeys(log, usePos /\ p # NoPos)
           /\ EntriesHold(log, Target(p), usePos /\ p # NoPos)
<1>1. /\ \A mk \in DOMAIN records : IsVersion(records[mk])
      /\ usePos \in BOOLEAN
      /\ DOMAIN records = MapKeys(log, usePos)
      /\ \A mk \in DOMAIN records : EntryOK(log, records[mk], KeyUnder(usePos, mk),
                                            OpsUnder(log, usePos, mk))
  BY DEF BufferInv, RekeyInv, PlacedInv, FallbackInv, EntriesHold
<1>2. ASSUME NEW mk \in DOMAIN records
      PROVE  /\ IsVersion(Stored(mk))
             /\ EntryOK(log, Stored(mk), KeyUnder(usePos, mk), OpsUnder(log, usePos, mk))
  <2>1. Stored(mk) = records[mk] \/ Stored(mk) = [records[mk] EXCEPT !.key = mk]
    BY DEF Stored
  <2>2. EntryOK(log, [records[mk] EXCEPT !.key = mk], KeyUnder(usePos, mk),
                OpsUnder(log, usePos, mk))
    BY <1>1, EntryEnvelope
  <2>3. IsVersion(Stored(mk))
    BY <1>1, StoredVersion
  <2> QED BY <1>1, <2>1, <2>2, <2>3
<1>3. CASE ~(usePos /\ p = NoPos)
  <2>1. Target(p) = [mk \in DOMAIN records |-> Stored(mk)]
    BY <1>3 DEF Target
  <2>2. (usePos /\ p # NoPos) = usePos
    BY <1>1, <1>3
  <2> QED BY <1>1, <1>2, <2>1, <2>2 DEF EntriesHold
<1>4. CASE usePos /\ p = NoPos
  <2>1. Target(p) = RekeyedMap /\ DOMAIN RekeyedMap = Rekeyed
    BY <1>4 DEF Target, RekeyedMap
  <2>2. ~TwoRows
    BY <1>4, ClashExact DEF BufferInv
  <2>3. /\ Placed = DOMAIN log
        /\ \A mk \in DOMAIN records : NameOf(records[mk]) = base[mk + 1].key
        /\ DOMAIN records = {log[i].pos : i \in DOMAIN log}
        /\ log \in Seq(LogEntries)
        /\ \A i \in DOMAIN log :
             log[i].pos # NoPos => base[log[i].pos + 1].key = log[i].ver.key
    BY <1>4 DEF BufferInv, RekeyInv, PlacedInv, FallbackInv, ReadInv
  <2>4. \A i \in DOMAIN log : log[i].pos # NoPos
    <3>1. \A i \in DOMAIN log : i \in 1 .. i
      BY <2>3
    <3> QED BY <2>3, <3>1 DEF Placed
  <2>5. \A mk \in DOMAIN records : RowKey(mk) = base[mk + 1].key
    BY <1>1, <2>3, StoredVersion
  <2>6. Rekeyed = {log[i].ver.key : i \in DOMAIN log}
    BY <2>3, <2>4, <2>5 DEF Rekeyed
  <2>7. ASSUME NEW k \in Rekeyed
        PROVE  EntryOK(log, RekeyedMap[k], k, OpsUnder(log, FALSE, k))
    <3> DEFINE mk == CHOOSE x \in DOMAIN records : RowKey(x) = k
    <3>1. mk \in DOMAIN records /\ RowKey(mk) = k
      BY DEF Rekeyed
    <3>2. RekeyedMap[k] = [Stored(mk) EXCEPT !.key = k]
      BY DEF RekeyedMap
    <3> HIDE DEF mk
    <3>3. KeyUnder(usePos, mk) = k
      BY <1>4, <2>5, <3>1 DEF KeyUnder
    <3>4. OpsUnder(log, usePos, mk) = OpsUnder(log, FALSE, k)
      <4>1. ASSUME NEW i \in DOMAIN log PROVE log[i].pos = mk <=> log[i].ver.key = k
        <5>1. log[i].pos = mk => log[i].ver.key = k
          BY <2>3, <2>4, <2>5, <3>1
        <5>2. PICK j \in DOMAIN log : log[j].pos = mk
          BY <2>3, <3>1
        <5>3. log[j].ver.key = k
          BY <2>3, <2>4, <2>5, <3>1, <5>2
        <5>4. log[i].ver.key = k => log[i].pos = log[j].pos
          BY <2>2, <2>3, <5>3 DEF TwoRows
        <5> QED BY <5>1, <5>2, <5>4
      <4> QED BY <1>4, <4>1 DEF OpsUnder, At
    <3>5. EntryOK(log, Stored(mk), k, OpsUnder(log, FALSE, k)) /\ IsVersion(Stored(mk))
      BY <1>2, <3>1, <3>3, <3>4
    <3>6. PICK s, S : s = Stored(mk) /\ S = OpsUnder(log, FALSE, k)
      OBVIOUS
    <3>7. EntryOK(log, [s EXCEPT !.key = k], k, S)
      BY <3>5, <3>6, EntryEnvelope
    <3> QED BY <3>2, <3>6, <3>7
  <2>8. DOMAIN Target(p) = MapKeys(log, FALSE)
    BY <2>1, <2>6 DEF MapKeys, At
  <2>9. EntriesHold(log, Target(p), FALSE)
    BY <2>1, <2>7 DEF EntriesHold, KeyUnder
  <2>10. (usePos /\ p # NoPos) = FALSE
    BY <1>4
  <2> QED BY <2>8, <2>9, <2>10
<1> QED BY <1>3, <1>4

(* process_data_block and process_delete_block keep the map true to the log. *)
LEMMA BlockHolds ==
    ASSUME BufferInv, NEW block \in {"data", "delete"}, NEW v \in LogVersions,
           NEW p \in PositionsOf(v.key), ProcessBlock(block, v, p),
           v.id = v.key, Shape(v), block = "delete" => v.del,
           ~v.del /\ ~Whole(v) => Known(v.key), err' # "rekey"
    PROVE  /\ \A i \in DOMAIN log' : LogRecordOK(log'[i])
           /\ EntriesHold(log', records', usePos')
           /\ DOMAIN records' = MapKeys(log', usePos')
<1> DEFINE e == [ver |-> v, pos |-> p, block |-> block]
           n == Len(log) + 1
           map == Target(p)
           mk == MapKey(v.key, p)
           new == IF mk \in DOMAIN map THEN Merged(block, v, map[mk]) ELSE v
           b == usePos /\ p # NoPos
<1>1. phase = "scan" /\ log' = Append(log, e) /\ UNCHANGED <<mode, base>>
  BY DEF ProcessBlock
<1>2. ~(usePos /\ p = NoPos /\ RekeyClash)
  BY DEF ProcessBlock, Fail
<1>3. records' = Put(map, mk, new) /\ usePos' = b
  BY <1>2 DEF ProcessBlock
<1>4. ReadInv /\ RekeyInv /\ log \in Seq(LogEntries) /\ usePos \in BOOLEAN
  BY DEF BufferInv, RekeyInv, ReadInv, FallbackInv
<1>5. p # NoPos => p \in Positions /\ base[p + 1].key = v.key
  BY DEF PositionsOf
<1>6. e \in LogEntries /\ e.pos = p /\ e.ver = v /\ e.block = block
  BY DEF LogEntries, PositionsOf
<1>7. /\ DOMAIN log' = DOMAIN log \cup {n} /\ n \notin DOMAIN log
      /\ \A i \in DOMAIN log : log'[i] = log[i]
      /\ log'[n] = e
      /\ n \in Nat /\ DOMAIN log \subseteq Nat /\ \A i \in DOMAIN log : i < n
  <2>1. n \in Nat /\ DOMAIN log = 1 .. Len(log)
    BY <1>4
  <2> QED BY <1>1, <1>4, <1>6, <2>1, LongerLog
<1>8. /\ DOMAIN map = MapKeys(log, b)
      /\ EntriesHold(log, map, b)
      /\ \A x \in DOMAIN map : IsVersion(map[x])
  BY <1>1, <1>2, <1>4, TargetHolds, TargetVersions
<1>9. /\ At(log', b, n) = mk
      /\ \A i \in DOMAIN log : At(log', b, i) = At(log, b, i)
      /\ KeyUnder(b, mk) = v.key
      /\ b \in BOOLEAN
  <2>1. At(log', b, n) = mk
    BY <1>6, <1>7 DEF At, MapKey
  <2>2. \A i \in DOMAIN log : At(log', b, i) = At(log, b, i)
    BY <1>7 DEF At
  <2>3. KeyUnder(b, mk) = v.key
    BY <1>5 DEF KeyUnder, MapKey
  <2> QED BY <2>1, <2>2, <2>3
<1>10. LogRecordOK(e) /\ \A i \in DOMAIN log : LogRecordOK(log[i])
  BY <1>1, <1>4, <1>6 DEF LogRecordOK, BufferInv, RekeyInv, FallbackInv
<1>11. mode.merge \in {"commit", "event"} /\ mode.fill \in BOOLEAN
  BY <1>4, PositionsFacts
<1> HIDE DEF e, n, map, mk, new, b
<1>12. \A i \in DOMAIN log' : LogRecordOK(log'[i])
  BY <1>7, <1>10
<1>13. DOMAIN records' = MapKeys(log', b)
  <2>1. DOMAIN records' = DOMAIN map \cup {mk}
    BY <1>3 DEF Put
  <2>2. MapKeys(log', b) = MapKeys(log, b) \cup {mk}
    BY <1>7, <1>9 DEF MapKeys
  <2> QED BY <1>8, <2>1, <2>2
<1>14. ASSUME NEW x \in DOMAIN records', x # mk
       PROVE  EntryOK(log', records'[x], KeyUnder(b, x), OpsUnder(log', b, x))
  <2>1. x \in DOMAIN map /\ records'[x] = map[x]
    BY <1>3, <1>14 DEF Put
  <2>2. OpsUnder(log', b, x) = OpsUnder(log, b, x)
    BY <1>7, <1>9, <1>14 DEF OpsUnder
  <2>3. \A i \in OpsUnder(log, b, x) : log'[i] = log[i]
    BY <1>7 DEF OpsUnder
  <2>4. EntryOK(log, map[x], KeyUnder(b, x), OpsUnder(log, b, x))
    BY <1>8, <2>1 DEF EntriesHold
  <2>5. EntryOK(log', map[x], KeyUnder(b, x), OpsUnder(log, b, x))
    BY <2>3, <2>4, EntryFrame
  <2> QED BY <2>1, <2>2, <2>5
<1>15. EntryOK(log', new, v.key, OpsUnder(log', b, mk))
  <2> DEFINE S == OpsUnder(log, b, mk)
  <2>1. OpsUnder(log', b, mk) = S \cup {n}
    BY <1>7, <1>9 DEF OpsUnder
  <2>2. S \subseteq DOMAIN log
    BY DEF OpsUnder
  <2>3. ASSUME ~InBaseFile(v.key), ~v.del, ~Whole(v)
        PROVE  /\ S # {}
               /\ \A i \in S : ~log[i].ver.del
    <3>1. p = NoPos
      BY <1>5, <2>3 DEF InBaseFile
    <3>2. ~b /\ mk = v.key
      BY <3>1 DEF b, mk, MapKey
    <3>3. S = {i \in DOMAIN log : log[i].ver.key = v.key}
      BY <3>2 DEF OpsUnder, At
    <3>4. Known(v.key)
      BY <2>3
    <3> QED BY <2>3, <3>3, <3>4 DEF Known, InBaseFile
  <2>4. log'[n] = e /\ log'[n].ver = v /\ log'[n].block = block
    BY <1>6, <1>7
  <2>5. CASE mk \notin DOMAIN map
    <3>1. S = {} /\ new = v
      BY <1>8, <2>5 DEF MapKeys, OpsUnder, new
    <3>2. ~v.del /\ ~InBaseFile(v.key) => Whole(v)
      BY <2>3, <3>1
    <3>3. EntryOK(log', v, v.key, {n})
      BY <1>7, <1>10, <2>4, <3>2, EntryFirst
    <3>4. OpsUnder(log', b, mk) = {n}
      BY <2>1, <3>1
    <3> QED BY <3>1, <3>3, <3>4
  <2>6. CASE mk \in DOMAIN map
    <3> DEFINE old == map[mk]
    <3>1. new = Merged(block, v, old)
      BY <2>6 DEF new
    <3>2. EntryOK(log, old, v.key, S) /\ IsVersion(old)
      BY <1>8, <1>9, <2>6 DEF EntriesHold
    <3>3. \A i \in S : log'[i] = log[i]
      BY <1>7, <2>2
    <3> HIDE DEF old, S
    <3>4. EntryOK(log', old, v.key, S)
      BY <3>2, <3>3, EntryFrame
    <3>5. ~InBaseFile(v.key) /\ ~v.del /\ ~Whole(v) => ~old.del
      BY <2>3, <3>2 DEF EntryOK
    <3>6. /\ S \in SUBSET Nat /\ \A i \in S : i < n
          /\ \A i \in S : LogRecordOK(log'[i])
      BY <1>7, <1>10, <2>2, <3>3
    <3>7. EntryOK(log', Merged(log'[n].block, log'[n].ver, old), v.key, S \cup {n})
      BY <1>7, <1>10, <1>11, <2>4, <3>2, <3>4, <3>5, <3>6, EntryMerged
    <3> QED BY <2>1, <2>4, <3>1, <3>7
  <2> QED BY <2>5, <2>6
<1>16. mk \in DOMAIN records' => records'[mk] = new
  BY <1>3 DEF Put
<1>17. EntriesHold(log', records', b)
  BY <1>9, <1>14, <1>15, <1>16 DEF EntriesHold
<1> QED BY <1>3, <1>12, <1>13, <1>17

(* A step that only drops entries leaves the others as they were. *)
LEMMA QuietBuffer ==
    ASSUME BufferInv, RekeyInv', UNCHANGED <<mode, base, log, usePos>>,
           DOMAIN records' \subseteq DOMAIN records,
           \A mk \in DOMAIN records' : records'[mk] = records[mk],
           phase' = "scan" => phase = "scan" /\ records' = records,
           err = "rekey" => err' = "rekey"
    PROVE  BufferInv'
<1>1. err' # "rekey" => \A i \in DOMAIN log : LogRecordOK(log[i])'
  BY SameRead DEF BufferInv
<1>2. ASSUME err' # "rekey", NEW mk \in DOMAIN records'
      PROVE  EntryOK(log, records[mk], KeyUnder(usePos, mk), OpsUnder(log, usePos, mk))'
  <2>1. PICK v, k, S : v = records[mk] /\ k = KeyUnder(usePos, mk)
                       /\ S = OpsUnder(log, usePos, mk)
    OBVIOUS
  <2>2. PICK lg : lg = log
    OBVIOUS
  <2>3. PICK b : b = usePos
    OBVIOUS
  <2>4. EntryOK(lg, v, k, S)
    BY <1>2, <2>1, <2>2 DEF BufferInv, EntriesHold
  <2>5. EntryOK(lg, v, k, S)'
    BY <2>4, SameRead
  <2>6. KeyUnder(usePos, mk)' = k
    BY <2>1 DEF KeyUnder
  <2>7. OpsUnder(log, usePos, mk)' = S
    BY <2>1 DEF OpsUnder, At
  <2>8. records'[mk] = v /\ log' = lg
    BY <2>1, <2>2
  <2> QED BY <2>5, <2>6, <2>7, <2>8
<1>3. err' # "rekey" => EntriesHold(log, records, usePos)'
  BY <1>2 DEF EntriesHold
<1>4. phase' = "scan" => DOMAIN records' = MapKeys(log, usePos)'
  BY DEF BufferInv, MapKeys, At
<1> QED BY <1>1, <1>3, <1>4 DEF BufferInv

LEMMA BufferInit == Init => BufferInv
<1> SUFFICES ASSUME Init PROVE BufferInv
  OBVIOUS
<1>1. DOMAIN log = {} /\ DOMAIN records = {}
  BY DEF Init
<1> QED BY <1>1, RekeyInit DEF BufferInv, EntriesHold, MapKeys

LEMMA BufferStep == BufferInv /\ [Next]_vars => BufferInv'
<1> SUFFICES ASSUME BufferInv, [Next]_vars PROVE BufferInv'
  OBVIOUS
<1>0. RekeyInv /\ RekeyInv'
  BY RekeyStep DEF BufferInv
<1>1. CASE ProcessDataBlock \/ ProcessDeleteMarker \/ ProcessDeleteBlock
  <2>1. PICK block \in {"data", "delete"}, v \in LogVersions :
          /\ \E p \in PositionsOf(v.key) : ProcessBlock(block, v, p)
          /\ v.id = v.key /\ Shape(v) /\ (block = "delete" => v.del)
          /\ ~v.del /\ ~Whole(v) => Known(v.key)
    BY <1>0, <1>1, WriterSteps DEF RekeyInv
  <2>2. PICK p \in PositionsOf(v.key) : ProcessBlock(block, v, p)
    BY <2>1
  <2>3. CASE err' = "rekey"
    BY <1>0, <2>3 DEF BufferInv, RekeyInv, FallbackInv
  <2>4. CASE err' # "rekey"
    <3>1. /\ \A i \in DOMAIN log' : LogRecordOK(log'[i])
          /\ EntriesHold(log', records', usePos')
          /\ DOMAIN records' = MapKeys(log', usePos')
      BY <2>1, <2>2, <2>4, BlockHolds
    <3>2. UNCHANGED <<mode, base>>
      BY <2>2 DEF ProcessBlock
    <3>3. PICK lg, map, b : lg = log' /\ map = records' /\ b = usePos'
      OBVIOUS
    <3>4. EntriesHold(lg, map, b)'
      <4> SUFFICES ASSUME NEW mk \in DOMAIN map
                   PROVE  EntryOK(lg, map[mk], KeyUnder(b, mk), OpsUnder(lg, b, mk))'
        BY DEF EntriesHold
      <4>1. PICK v1, k1, S1 : v1 = map[mk] /\ k1 = KeyUnder(b, mk)
                              /\ S1 = OpsUnder(lg, b, mk)
        OBVIOUS
      <4>2. EntryOK(lg, v1, k1, S1)
        BY <3>1, <3>3, <4>1 DEF EntriesHold
      <4>3. EntryOK(lg, v1, k1, S1)'
        BY <3>2, <4>2, SameRead
      <4>4. KeyUnder(b, mk)' = k1
        BY <3>2, <4>1, SameRead
      <4> QED BY <4>1, <4>3, <4>4
    <3>5. \A i \in DOMAIN lg : LogRecordOK(lg[i])'
      BY <3>1, <3>2, <3>3, SameRead
    <3> QED BY <1>0, <3>1, <3>3, <3>4, <3>5 DEF BufferInv
  <2> QED BY <2>3, <2>4
<1>2. CASE Spill \/ EndScan \/ BaseExhausted \/ StorageError
  <2>1. /\ UNCHANGED <<mode, base, log, usePos, records>> /\ phase # "failed"
        /\ phase' = "scan" => phase = "scan"
    BY <1>2 DEF Spill, EndScan, BaseExhausted, StorageError, Fail
  <2>2. err # "rekey"
    BY <1>0, <2>1 DEF RekeyInv, FallbackInv
  <2> QED BY <1>0, <2>1, <2>2, QuietBuffer
<1>3. CASE MergeBaseBatch
  <2>1. /\ UNCHANGED <<mode, base, log, usePos, phase, err>> /\ phase = "base"
        /\ \E ks : records' = Without(records, ks)
    BY <1>3 DEF MergeBaseBatch
  <2>2. /\ DOMAIN records' \subseteq DOMAIN records
        /\ \A mk \in DOMAIN records' : records'[mk] = records[mk]
    BY <2>1 DEF Without
  <2> QED BY <1>0, <2>1, <2>2, QuietBuffer
<1>4. CASE DrainLogOnlyInserts
  <2>1. /\ UNCHANGED <<mode, base, log, usePos>> /\ phase = "drain"
        /\ \E ks : records' = Without(records, ks)
        /\ phase' # "scan"
    BY <1>4 DEF DrainLogOnlyInserts, Fail
  <2>2. /\ DOMAIN records' \subseteq DOMAIN records
        /\ \A mk \in DOMAIN records' : records'[mk] = records[mk]
    BY <2>1 DEF Without
  <2>3. err # "rekey"
    BY <1>0, <2>1 DEF RekeyInv, FallbackInv
  <2> QED BY <1>0, <2>1, <2>2, <2>3, QuietBuffer
<1>5. CASE NextChunkDone \/ UNCHANGED vars
  <2>1. UNCHANGED <<mode, base, log, usePos, records, phase, err>>
    BY <1>5 DEF NextChunkDone, vars
  <2> QED BY <1>0, <2>1, QuietBuffer
<1> QED BY <1>1, <1>2, <1>3, <1>4, <1>5 DEF Next, NextChunk

-----------------------------------------------------------------------------
(* A record of the base file, and one that only the log has. *)
LEMMA BaseRowFacts ==
    ASSUME ReadInv, NEW p \in Positions
    PROVE  /\ IsVersion(BaseRow(p)) /\ Shape(BaseRow(p))
           /\ BaseRow(p).del = FALSE /\ ~CommitTimeDelete(BaseRow(p))
           /\ BaseRow(p).ord = base[p + 1].ord /\ BaseRow(p).ord \in OrderValues
           /\ BaseRow(p).id = base[p + 1].key /\ base[p + 1].key \in Keys
           /\ DOMAIN BaseRow(p).row = Columns
<1>1. PICK r \in Reads : mode = r.mode /\ base = r.base
  BY DEF ReadInv
<1>2. /\ r.base \in Seq([key : Keys, ord : OrderValues, holes : SUBSET Columns])
      /\ \A x \in DOMAIN r.base : r.base[x].holes # {} => r.mode.fill
  BY RecordBufferAssumption DEF OrderValues
<1>3. /\ base[p + 1] \in [key : Keys, ord : OrderValues, holes : SUBSET Columns]
      /\ base[p + 1].holes # {} => mode.fill
  <2>1. p + 1 \in DOMAIN r.base
    BY <1>1, <1>2 DEF Positions
  <2>2. \A S : r.base \in Seq(S) => r.base[p + 1] \in S
    BY <2>1
  <2>3. r.base[p + 1].holes # {} => r.mode.fill
    BY <1>2, <2>1
  <2> QED BY <1>1, <1>2, <2>2, <2>3
<1>4. /\ BaseRow(p).del = FALSE /\ BaseRow(p).ord = base[p + 1].ord
      /\ BaseRow(p).id = base[p + 1].key /\ IsVersion(BaseRow(p))
      /\ BaseRow(p).row = [c \in Columns |-> IF c \in base[p + 1].holes THEN Hole ELSE 0]
  BY DEF BaseRow, Data, IsVersion
<1>5. /\ DOMAIN BaseRow(p).row = Columns
      /\ \A c \in Columns : BaseRow(p).row[c] = IF c \in base[p + 1].holes THEN Hole ELSE 0
  BY <1>4
<1>6. Shape(BaseRow(p))
  BY <1>3, <1>4, <1>5 DEF Shape
<1> QED BY <1>3, <1>4, <1>5, <1>6 DEF CommitTimeDelete

(* What the map says of where log records are. *)
LEMMA PlacesFacts ==
    ASSUME BufferInv, err # "rekey"
    PROVE  /\ usePos \in BOOLEAN /\ DOMAIN log \subseteq Nat \ {0}
           /\ log \in Seq(LogEntries)
           /\ usePos => \A i \in DOMAIN log : /\ log[i].pos \in Positions
                                              /\ base[log[i].pos + 1].key = log[i].ver.key
           /\ \A i \in DOMAIN log : /\ log[i].ver.key \in Keys
                                    /\ LogRecordOK(log[i])
                                    /\ log[i].ver.ord.n \in Nat
<1>1. /\ log \in Seq(LogEntries) /\ usePos \in BOOLEAN
      /\ \A i \in DOMAIN log :
           log[i].pos # NoPos => base[log[i].pos + 1].key = log[i].ver.key
      /\ usePos => Placed = DOMAIN log
      /\ \A i \in DOMAIN log : LogRecordOK(log[i])
  BY DEF BufferInv, RekeyInv, ReadInv, FallbackInv
<1>2. \A i \in DOMAIN log : log[i] \in LogEntries
  BY <1>1
<1>3. \A i \in DOMAIN log : /\ log[i].pos \in Positions \cup {NoPos}
                            /\ log[i].ver.key \in Keys /\ log[i].ver.ord.n \in Nat
  BY <1>2 DEF LogEntries, LogVersions, OrderValues
<1>4. DOMAIN log \subseteq Nat \ {0}
  BY <1>1
<1>5. usePos => \A i \in DOMAIN log : log[i].pos # NoPos
  <2>1. \A i \in DOMAIN log : i \in 1 .. i
    BY <1>4
  <2> QED BY <1>1, <2>1 DEF Placed
<1> QED BY <1>1, <1>3, <1>4, <1>5

LEMMA RowOps ==
    ASSUME BufferInv, err # "rekey", UniqueKeys \/ usePos, NEW p \in Positions
    PROVE  /\ OpsAt(p) = OpsUnder(log, usePos, LookupKey(p))
           /\ KeyUnder(usePos, LookupKey(p)) = base[p + 1].key
<1>1. CASE usePos
  <2>1. ASSUME NEW i \in DOMAIN log
        PROVE  i \in OpsAt(p) <=> log[i].pos = p
    <3>1. log[i].pos \in Positions /\ base[log[i].pos + 1].key = log[i].ver.key
      BY <1>1, PlacesFacts
    <3>2. NoPos \notin Positions
      BY PositionsFacts DEF BufferInv, RekeyInv
    <3> QED BY <3>1, <3>2 DEF OpsAt, UniqueKeys
  <2> QED BY <1>1, <2>1 DEF OpsAt, OpsUnder, At, LookupKey, KeyUnder
<1>2. CASE ~usePos
  BY <1>2 DEF OpsAt, OpsUnder, At, LookupKey, KeyUnder
<1> QED BY <1>1, <1>2

LEMMA LookupInjective ==
    ASSUME UniqueKeys \/ usePos, NEW p \in Positions, NEW q \in Positions,
           LookupKey(p) = LookupKey(q)
    PROVE  p = q
BY DEF LookupKey, UniqueKeys

(* The records that only the log has are those no base row looks up. *)
LEMMA LogOnlyIs ==
    ASSUME BufferInv, err # "rekey"
    PROVE  /\ LogOnly = MapKeys(log, usePos) \ {LookupKey(q) : q \in Positions}
           /\ \A k \in LogOnly : /\ ~usePos /\ ~InBaseFile(k)
                                 /\ OpsOf(k) = OpsUnder(log, usePos, k)
                                 /\ KeyUnder(usePos, k) = k
<1>1. CASE usePos
  <2>1. MapKeys(log, usePos) \subseteq Positions
    BY <1>1, PlacesFacts DEF MapKeys, At
  <2>2. {LookupKey(q) : q \in Positions} = Positions
    BY <1>1 DEF LookupKey
  <2>3. LogOnly = {}
    BY <1>1, PlacesFacts DEF LogOnly, OpsOf
  <2> QED BY <2>1, <2>2, <2>3
<1>2. CASE ~usePos
  <2>1. \A k : k \in LogOnly => ~InBaseFile(k)
    BY DEF LogOnly, InBaseFile
  <2>2. \A k : OpsOf(k) = OpsUnder(log, usePos, k) /\ KeyUnder(usePos, k) = k
    BY <1>2 DEF OpsOf, OpsUnder, At, KeyUnder
  <2>3. \A k : k \in MapKeys(log, usePos) <=> OpsOf(k) # {} /\ k \in Keys
    BY <1>2, PlacesFacts DEF MapKeys, At, OpsOf
  <2>4. \A k : k \in {LookupKey(q) : q \in Positions}
                 <=> \E p \in Positions : base[p + 1].key = k
    BY <1>2 DEF LookupKey
  <2>5. LogOnly = MapKeys(log, usePos) \ {LookupKey(q) : q \in Positions}
    BY <2>3, <2>4 DEF LogOnly
  <2> QED BY <1>2, <2>1, <2>2, <2>5
<1> QED BY <1>1, <1>2, PlacesFacts

(* The order of the versions, and which of them wins. *)
LEMMA AboveIsBeats ==
    ASSUME NEW i, NEW j, NEW p
    PROVE  Above(i, j, p) <=> Beats(Version(i, p), i, Version(j, p), j)
BY DEF Above, Beats

LEMMA WinnerIs ==
    ASSUME NEW is \in SUBSET Nat, NEW p, \A i \in is : Version(i, p).ord.n \in Nat,
           NEW w \in is, \A j \in is : Beats(Version(w, p), w, Version(j, p), j)
    PROVE  Winner(is, p) = w
<1>1. \A j \in is : Above(w, j, p)
  BY AboveIsBeats
<1>2. PICK x : x = Winner(is, p)
  OBVIOUS
<1>3. x \in is /\ \A j \in is : Above(x, j, p)
  BY <1>1, <1>2 DEF Winner
<1>4. /\ Beats(Version(x, p), x, Version(w, p), w)
      /\ Beats(Version(w, p), w, Version(x, p), x)
  BY <1>3, AboveIsBeats
<1> QED BY <1>2, <1>3, <1>4, BeatsOrder

(* A version of a base row that meets what is buffered for it. *)
LEMMA KernelPicks ==
    ASSUME NEW merge \in {"commit", "event"}, NEW b, ~b.del,
           NEW v, v.del \in BOOLEAN
    PROVE  /\ PickWinner(merge, v, b.ord) =
                IF ~NewWins(merge, b, v) THEN "base"
                ELSE IF v.del THEN "log_delete" ELSE "log_data"
           /\ merge = "commit" => NewWins(merge, b, v)
BY DEF PickWinner, NewWins, ShouldKeepNewer, CommitTimeDelete

(* What the kernel makes of the two. *)
LEMMA KernelMakes ==
    ASSUME mode.merge \in {"commit", "event"}, mode.fill \in BOOLEAN,
           NEW b, IsVersion(b), Shape(b), ~b.del, DOMAIN b.row = Columns,
           NEW v, IsVersion(v), Shape(v), v.id = b.id,
           NEW m, m = MergeBaseRow(mode.merge, mode.fill, b, v)
    PROVE  LET new == NewWins(mode.merge, b, v)
           IN  /\ m.del \in BOOLEAN
               /\ m.del <=> new /\ v.del
               /\ ~m.del => /\ m.id = b.id /\ DOMAIN m.row = Columns
                            /\ StandsFor(m, IF new THEN v ELSE b)
                            /\ \A c \in Columns : m.row[c] \in Nat \/ m.row[c] = Hole
                            /\ ~mode.fill => \A c \in Columns : m.row[c] \in Nat
                            /\ \A c \in Columns : m.row[c] = Hole =>
                                 b.row[c] = Hole /\ (v.del \/ v.row[c] = Hole)
<1> DEFINE new == NewWins(mode.merge, b, v)
<1>0. /\ Hole \notin Nat /\ v.del \in BOOLEAN /\ DOMAIN b.row = Columns
      /\ b.del = FALSE
  <2>1. b.del \in BOOLEAN /\ v.del \in BOOLEAN
    BY DEF IsVersion
  <2> QED BY <2>1, RecordBufferAssumption
<1>1. CASE ~new
  <2>1. m = IF mode.fill /\ ~v.del THEN FillPartial(b, v) ELSE b
    BY <1>0, <1>1, KernelPicks DEF MergeBaseRow
  <2>2. CASE mode.fill /\ ~v.del
    <3>1. /\ Shape(m) /\ m.id = b.id /\ m.del = b.del
          /\ ~m.del => \A c \in Columns :
               m.row[c] = Hole <=> b.row[c] = Hole /\ (v.del \/ v.row[c] = Hole)
          /\ m.del = TRUE \/ DOMAIN m.row = Columns
      <4>1. m = FillPartial(b, v)
        BY <2>1, <2>2
      <4>2. PICK f : f = FillPartial(b, v)
        OBVIOUS
      <4>3. /\ Shape(f) /\ f.id = b.id /\ f.del = b.del
            /\ ~f.del => \A c \in Columns :
                 f.row[c] = Hole <=> b.row[c] = Hole /\ (v.del \/ v.row[c] = Hole)
            /\ f.del = TRUE \/ DOMAIN f.row = Columns
        BY <2>2, <4>2, FillShape
      <4> QED BY <4>1, <4>2, <4>3
    <3>2. StandsFor(m, b)
      BY <2>1, <2>2, FillStands
    <3> QED BY <1>0, <1>1, <2>2, <3>1, <3>2 DEF Shape
  <2>3. CASE ~(mode.fill /\ ~v.del)
    <3>1. m = b
      BY <2>1, <2>3
    <3>2. StandsFor(m, b)
      BY <3>1, StandsForFacts
    <3> QED BY <1>0, <1>1, <2>3, <3>1, <3>2 DEF Shape
  <2> QED BY <2>2, <2>3
<1>2. CASE new /\ v.del = TRUE
  <2>1. m = Tombstone(v.key, v.ord)
    <3>1. PickWinner(mode.merge, v, b.ord) = "log_delete"
      BY <1>0, <1>2, KernelPicks
    <3> QED BY <3>1 DEF MergeBaseRow
  <2> QED BY <1>2, <2>1 DEF Tombstone
<1>3. CASE new /\ ~v.del
  <2>1. m = IF IsPartial(v.row)
            THEN Data(v.key, v.ord, v.id, Overlay(v.row, b.row, Columns))
            ELSE IF mode.fill THEN FillPartial(v, b) ELSE v
    BY <1>0, <1>3, KernelPicks DEF MergeBaseRow
  <2>2. CASE IsPartial(v.row)
    <3>1. /\ m.del = FALSE /\ m.ord = v.ord /\ m.id = v.id
          /\ m.row = Overlay(v.row, b.row, Columns)
      BY <2>1, <2>2 DEF Data
    <3>2. /\ DOMAIN m.row = Columns
          /\ \A c \in Columns : m.row[c] = IF c \in DOMAIN v.row THEN v.row[c] ELSE b.row[c]
      BY <1>0, <3>1 DEF Overlay
    <3>3. ~mode.fill
      BY <1>3, <2>2 DEF Shape, IsPartial
    <3>4. \A c \in Columns : m.row[c] \in Nat
      BY <1>0, <3>2, <3>3 DEF Shape
    <3>5. StandsFor(m, v)
      BY <1>0, <1>3, <3>1, <3>2 DEF StandsFor, CommitTimeDelete, Shape
    <3> QED BY <1>0, <1>3, <3>1, <3>2, <3>3, <3>4, <3>5
  <2>3. CASE ~IsPartial(v.row) /\ mode.fill
    <3>1. /\ Shape(m) /\ m.id = v.id /\ m.del = v.del
          /\ ~m.del => \A c \in Columns :
               m.row[c] = Hole <=> v.row[c] = Hole /\ (b.del \/ b.row[c] = Hole)
          /\ m.del = TRUE \/ DOMAIN m.row = Columns
      <4>1. m = FillPartial(v, b)
        BY <2>1, <2>3
      <4>2. PICK f : f = FillPartial(v, b)
        OBVIOUS
      <4>3. /\ Shape(f) /\ f.id = v.id /\ f.del = v.del
            /\ ~f.del => \A c \in Columns :
                 f.row[c] = Hole <=> v.row[c] = Hole /\ (b.del \/ b.row[c] = Hole)
            /\ f.del = TRUE \/ DOMAIN f.row = Columns
        BY <2>3, <4>2, FillShape
      <4> QED BY <4>1, <4>2, <4>3
    <3>2. StandsFor(m, v)
      BY <2>1, <2>3, FillStands
    <3> QED BY <1>0, <1>3, <2>3, <3>1, <3>2 DEF Shape
  <2>4. CASE ~IsPartial(v.row) /\ ~mode.fill
    <3>1. m = v
      BY <2>1, <2>4
    <3>2. StandsFor(m, v) /\ DOMAIN v.row = Columns
      BY <2>4, <3>1, StandsForFacts DEF Shape, IsPartial
    <3> QED BY <1>0, <1>3, <2>4, <3>1, <3>2 DEF Shape
  <2> QED BY <2>2, <2>3, <2>4
<1> QED BY <1>0, <1>1, <1>2, <1>3

(* What the versions is of a record make of it: m is dead when the highest *)
(* of them is, or else has the values it has, and an open column is one    *)
(* that no version gives, or a delete took away.                           *)
Right(m, is, p) ==
    LET w == Winner(is, p)
    IN  /\ m.del <=> Version(w, p).del
        /\ ~m.del => \A c \in Columns :
             Known0(w, c, p) => m.row[c] = Version(w, p).row[c]

Filled(row, is, p) ==
    Ranked(is, p) =>
        \A c \in Columns : row[c] \in {Hole, Null} =>
            \A i \in is : Known0(i, c, p) =>
                \E j \in is : Version(j, p).del /\ Above(j, i, p)

LEMMA StoredHolds ==
    ASSUME BufferInv, err # "rekey", NEW mk \in DOMAIN records
    PROVE  /\ IsVersion(Stored(mk))
           /\ EntryOK(log, Stored(mk), KeyUnder(usePos, mk), OpsUnder(log, usePos, mk))
<1>1. IsVersion(records[mk])
  BY DEF BufferInv, RekeyInv, PlacedInv
<1>2. EntryOK(log, records[mk], KeyUnder(usePos, mk), OpsUnder(log, usePos, mk))
  BY DEF BufferInv, EntriesHold
<1>3. Stored(mk) \in {records[mk], [records[mk] EXCEPT !.key = mk]}
  BY DEF Stored
<1>4. EntryOK(log, [records[mk] EXCEPT !.key = mk], KeyUnder(usePos, mk),
              OpsUnder(log, usePos, mk))
  BY <1>1, <1>2, EntryEnvelope
<1> QED BY <1>1, <1>2, <1>3, <1>4, StoredVersion

(* The premises of the property, in terms of the log. *)
LEMMA VersionsOf ==
    ASSUME NEW S \in SUBSET (Nat \ {0}), NEW p
    PROVE  /\ \A i \in S : Version(i, p) = log[i].ver
           /\ Version(0, p) = BaseRow(p)
           /\ NotRevived(S) => Calm(log, S)
           /\ Ranked(S, p) => Sorted(log, S)
           /\ Ranked(S \cup {0}, p) => Sorted(log, S) /\ InOrder(BaseRow(p))
<1>1. (\A i \in S : Version(i, p) = log[i].ver) /\ Version(0, p) = BaseRow(p)
  BY DEF Version
<1>2. NotRevived(S) => Calm(log, S)
  <2>1. S \ {0} = S
    OBVIOUS
  <2> QED BY <2>1 DEF NotRevived, Calm
<1> QED BY <1>1, <1>2 DEF Ranked, Sorted, InOrder

(* A base row whose record has log versions. *)
LEMMA RowMade ==
    ASSUME BufferInv, err # "rekey", UniqueKeys \/ usePos, NEW p \in Positions,
           LookupKey(p) \in DOMAIN records, NEW m, m = MergedRow(p)
    PROVE  /\ m.del \in BOOLEAN
           /\ ~m.del => m.id = base[p + 1].key /\ DOMAIN m.row = Columns
           /\ NotRevived(OpsAt(p)) /\ Ranked(OpsAt(p) \cup {0}, p)
                => Right(m, OpsAt(p) \cup {0}, p)
           /\ ~m.del => Filled(m.row, OpsAt(p) \cup {0}, p)
<1>1. PICK S, v, b, k : /\ S = OpsAt(p) /\ v = Stored(LookupKey(p)) /\ b = BaseRow(p)
                        /\ k = base[p + 1].key
  OBVIOUS
<1>2. IsVersion(v) /\ EntryOK(log, v, k, S)
  BY <1>1, StoredHolds, RowOps
<1>3. /\ S \subseteq DOMAIN log /\ S \in SUBSET (Nat \ {0})
      /\ \A i \in S : LogRecordOK(log[i]) /\ log[i].ver.ord.n \in Nat
  BY <1>1, PlacesFacts DEF OpsAt
<1>4. /\ IsVersion(b) /\ Shape(b) /\ b.del = FALSE /\ ~CommitTimeDelete(b)
      /\ b.ord \in OrderValues /\ b.ord.n \in Nat /\ b.id = k /\ DOMAIN b.row = Columns
  BY <1>1, BaseRowFacts DEF BufferInv, RekeyInv, OrderValues
<1>5. mode.merge \in {"commit", "event"} /\ mode.fill \in BOOLEAN
  BY PositionsFacts DEF BufferInv, RekeyInv
<1>6. m = MergeBaseRow(mode.merge, mode.fill, b, v)
  BY <1>1 DEF MergedRow
<1>7. Shape(v) /\ v.id = b.id /\ v.del \in BOOLEAN
  BY <1>2, <1>4 DEF EntryOK, IsVersion
<1>8. /\ m.del \in BOOLEAN
      /\ m.del <=> NewWins(mode.merge, b, v) /\ v.del
      /\ ~m.del => /\ m.id = b.id /\ DOMAIN m.row = Columns
                   /\ StandsFor(m, IF NewWins(mode.merge, b, v) THEN v ELSE b)
                   /\ \A c \in Columns : m.row[c] \in Nat \/ m.row[c] = Hole
                   /\ ~mode.fill => \A c \in Columns : m.row[c] \in Nat
                   /\ \A c \in Columns : m.row[c] = Hole =>
                        b.row[c] = Hole /\ (v.del \/ v.row[c] = Hole)
  BY <1>2, <1>4, <1>5, <1>6, <1>7, KernelMakes
<1>9. /\ \A i \in S : Version(i, p) = log[i].ver
      /\ Version(0, p) = b
      /\ NotRevived(S) => Calm(log, S)
      /\ Ranked(S \cup {0}, p) => Sorted(log, S) /\ InOrder(b)
  BY <1>1, <1>3, VersionsOf
<1>10. ASSUME NotRevived(S), Ranked(S \cup {0}, p)
      PROVE  Right(m, S \cup {0}, p)
  <2>1. PICK w \in S : StandsFor(v, log[w].ver) /\ Highest(log, w, S)
    BY <1>2, <1>9, <1>10 DEF EntryOK, Wins
  <2>2. PICK u : u = log[w].ver
    OBVIOUS
  <2>3. /\ u \in LogVersions /\ u.ord \in OrderValues /\ u.del \in BOOLEAN
        /\ Shape(u) /\ InOrder(u) /\ u.ord.n \in Nat /\ w \in Nat /\ 0 < w
        /\ StandsFor(v, u)
    BY <1>3, <1>9, <1>10, <2>1, <2>2 DEF LogRecordOK, LogVersions, Sorted
  <2>4. NewWins(mode.merge, b, v) <=> NewWins(mode.merge, b, u)
    BY <2>3 DEF NewWins, ShouldKeepNewer, StandsFor
  <2>5. IF NewWins(mode.merge, b, u) THEN Beats(u, w, b, 0) ELSE Beats(b, 0, u, w)
    <3>1. StandsFor(b, b) /\ InOrder(b) /\ b.del \in BOOLEAN
      BY <1>4, <1>9, <1>10, StandsForFacts
    <3>2. /\ mode.merge = "event" /\ ~CommitTimeDelete(b) =>
               IF NewWins(mode.merge, b, u) THEN Beats(u, w, b, 0) ELSE Beats(b, 0, u, w)
          /\ mode.merge = "commit" => NewWins(mode.merge, b, u) /\ Beats(u, w, b, 0)
      BY <1>4, <1>5, <2>3, <3>1, DecidedByOrder
    <3> QED BY <1>4, <1>5, <3>2
  <2>6. \A j \in S : Beats(u, w, log[j].ver, j)
    BY <2>1, <2>2 DEF Highest
  <2>7. \A i \in S \cup {0} : Version(i, p).ord.n \in Nat /\ i \in Nat
    BY <1>3, <1>4, <1>9
  <2>8. CASE NewWins(mode.merge, b, u)
    <3>1. \A j \in S \cup {0} : Beats(Version(w, p), w, Version(j, p), j)
      BY <1>9, <2>1, <2>2, <2>5, <2>6, <2>8
    <3>2. Winner(S \cup {0}, p) = w
      BY <2>1, <2>7, <3>1, WinnerIs
    <3>3. m.del <=> u.del
      BY <1>8, <2>3, <2>4, <2>8 DEF StandsFor
    <3>4. ~m.del => StandsFor(m, u)
      BY <1>8, <2>3, <2>4, <2>8, StandsForFacts
    <3> QED BY <1>9, <2>1, <2>2, <3>2, <3>3, <3>4 DEF Right, Known0, StandsFor
  <2>9. CASE ~NewWins(mode.merge, b, u)
    <3>1. \A j \in S \cup {0} : Beats(Version(0, p), 0, Version(j, p), j)
      <4>1. Beats(b, 0, b, 0)
        BY <1>4, BeatsOrder
      <4>2. ASSUME NEW j \in S PROVE Beats(b, 0, log[j].ver, j)
        <5>1. PICK x : x = log[j].ver
          OBVIOUS
        <5>2. x.ord.n \in Nat /\ j \in Nat
          BY <1>3, <5>1
        <5>3. Beats(b, 0, u, w) /\ Beats(u, w, x, j)
          BY <2>5, <2>6, <2>9, <5>1
        <5> QED BY <1>4, <2>3, <5>1, <5>2, <5>3, BeatsOrder
      <4> QED BY <1>9, <4>1, <4>2
    <3>2. Winner(S \cup {0}, p) = 0
      BY <2>7, <3>1, WinnerIs
    <3>3. ~m.del /\ StandsFor(m, b)
      BY <1>8, <2>4, <2>9
    <3> QED BY <1>4, <1>9, <3>2, <3>3 DEF Right, Known0, StandsFor
  <2> QED BY <2>8, <2>9
<1>11. ASSUME ~m.del, Ranked(S \cup {0}, p), NEW c \in Columns, m.row[c] \in {Hole, Null},
              NEW i \in S \cup {0}, Known0(i, c, p)
      PROVE  \E j \in S \cup {0} : Version(j, p).del /\ Above(j, i, p)
  <2>1. m.row[c] = Hole /\ mode.fill
    BY <1>5, <1>8, <1>11, RecordBufferAssumption
  <2>2. b.row[c] = Hole /\ (v.del \/ v.row[c] = Hole)
    BY <1>8, <1>11, <2>1
  <2>3. i \in S /\ Gives(log, i, c)
    BY <1>9, <1>11, <2>2 DEF Known0, Gives
  <2>4. Sorted(log, S)
    BY <1>9, <1>11
  <2>5. TakenAway(log, i, S)
    <3>1. CASE v.del
      BY <1>2, <1>3, <2>3, <2>4, <3>1, DeadTakesAll
    <3>2. CASE ~v.del
      BY <1>2, <2>1, <2>2, <2>3, <2>4, <3>2 DEF EntryOK, Completed
    <3> QED BY <3>1, <3>2
  <2>6. PICK j \in S : log[j].ver.del /\ Beats(log[j].ver, j, log[i].ver, i)
    BY <2>5 DEF TakenAway
  <2> QED BY <1>9, <2>3, <2>6, AboveIsBeats
<1> QED BY <1>1, <1>4, <1>8, <1>10, <1>11 DEF Filled

-----------------------------------------------------------------------------
(* The rows handed out so far, for one record. *)
Exact(rows, p, k, is) ==
    LET w == Winner(is, p)
        got == {o \in rows : o.pos = p /\ o.key = k}
    IN  IF Version(w, p).del
        THEN got = {}
        ELSE \E o \in rows :
                /\ got = {o}
                /\ \A c \in Columns :
                      Known0(w, c, p) => o.row[c] = Version(w, p).row[c]

PosOK(rows, p) ==
    /\ NotRevived(OpsAt(p)) /\ Ranked(OpsAt(p) \cup {0}, p)
         => Exact(rows, p, base[p + 1].key, OpsAt(p) \cup {0})
    /\ \A o \in rows : o.pos = p => Filled(o.row, OpsAt(p) \cup {0}, p)

LogOnlyOK(rows, k) ==
    NotRevived(OpsOf(k)) /\ Ranked(OpsOf(k), NoPos)
      => Exact(rows, NoPos, k, OpsOf(k))

LEMMA ExactMade ==
    ASSUME NEW rows, NEW p, NEW k, NEW is, NEW m, m.del \in BOOLEAN,
           Right(m, is, p), ~m.del => m.id = k,
           {o \in rows : o.pos = p /\ o.key = k} =
             IF m.del THEN {} ELSE {OutRow(p, m)}
    PROVE  Exact(rows, p, k, is)
<1>1. CASE m.del
  BY <1>1 DEF Exact, Right
<1>2. CASE ~m.del
  <2>1. PICK o : o = OutRow(p, m)
    OBVIOUS
  <2>2. {x \in rows : x.pos = p /\ x.key = k} = {o} /\ o \in rows /\ o.row = m.row
    BY <1>2, <2>1 DEF OutRow
  <2> QED BY <1>2, <2>2 DEF Exact, Right
<1> QED BY <1>1, <1>2

LEMMA OutRowIs ==
    ASSUME NEW p, NEW m
    PROVE  OutRow(p, m).pos = p /\ OutRow(p, m).key = m.id /\ OutRow(p, m).row = m.row
BY DEF OutRow

(* A row is as it was where the rows of its position are. *)
LEMMA PosSame ==
    ASSUME NEW rows, NEW more, NEW p,
           {o \in more : o.pos = p} = {o \in rows : o.pos = p}, PosOK(rows, p)
    PROVE  PosOK(more, p)
<1>1. \A k : {o \in more : o.pos = p /\ o.key = k} = {o \in rows : o.pos = p /\ o.key = k}
  OBVIOUS
<1>2. \A o : o \in more /\ o.pos = p <=> o \in rows /\ o.pos = p
  OBVIOUS
<1>3. \A k, is : Exact(rows, p, k, is) => Exact(more, p, k, is)
  BY <1>1, <1>2 DEF Exact
<1> QED BY <1>2, <1>3 DEF PosOK

LEMMA PosMade ==
    ASSUME BufferInv, err # "rekey", UniqueKeys \/ usePos, NEW p \in Positions,
           LookupKey(p) \in DOMAIN records, NEW rows,
           {o \in rows : o.pos = p} =
             IF MergedRow(p).del THEN {} ELSE {OutRow(p, MergedRow(p))}
    PROVE  PosOK(rows, p)
<1>1. PICK m, is : m = MergedRow(p) /\ is = OpsAt(p) \cup {0}
  OBVIOUS
<1>2. /\ m.del \in BOOLEAN
      /\ ~m.del => m.id = base[p + 1].key /\ DOMAIN m.row = Columns
      /\ NotRevived(OpsAt(p)) /\ Ranked(is, p) => Right(m, is, p)
      /\ ~m.del => Filled(m.row, is, p)
  BY <1>1, RowMade
<1>3. {o \in rows : o.pos = p} = IF m.del THEN {} ELSE {OutRow(p, m)}
  BY <1>1
<1>4. {o \in rows : o.pos = p /\ o.key = base[p + 1].key} =
        IF m.del THEN {} ELSE {OutRow(p, m)}
  BY <1>2, <1>3, OutRowIs
<1>5. Right(m, is, p) => Exact(rows, p, base[p + 1].key, is)
  BY <1>2, <1>4, ExactMade
<1>6. \A o \in rows : o.pos = p => Filled(o.row, is, p)
  BY <1>2, <1>3, OutRowIs
<1> QED BY <1>1, <1>2, <1>5, <1>6 DEF PosOK

LEMMA PosKept ==
    ASSUME ReadInv, NEW p \in Positions, OpsAt(p) = {}, NEW rows,
           {o \in rows : o.pos = p} = {OutRow(p, BaseRow(p))}
    PROVE  PosOK(rows, p)
<1>1. PICK b, k : b = BaseRow(p) /\ k = base[p + 1].key
  OBVIOUS
<1>2. /\ Shape(b) /\ b.del = FALSE /\ b.ord.n \in Nat /\ b.id = k
      /\ DOMAIN b.row = Columns
  BY <1>1, BaseRowFacts DEF OrderValues
<1>3. OpsAt(p) \cup {0} = {0}
  OBVIOUS
<1>4. Version(0, p) = b
  BY <1>1 DEF Version
<1>5. Winner({0}, p) = 0
  <2>1. Beats(b, 0, b, 0)
    BY <1>2, BeatsOrder
  <2> QED BY <1>2, <1>4, <2>1, WinnerIs
<1>6. Right(b, {0}, p)
  BY <1>2, <1>4, <1>5 DEF Right
<1>7. {o \in rows : o.pos = p /\ o.key = k} = IF b.del THEN {} ELSE {OutRow(p, b)}
  BY <1>1, <1>2, OutRowIs
<1>8. Exact(rows, p, k, {0})
  <2>1. b.del \in BOOLEAN /\ (~b.del => b.id = k)
    BY <1>2
  <2> QED BY ONLY <1>6, <1>7, <2>1, ExactMade
<1>9. Filled(b.row, {0}, p)
  BY <1>2, <1>4, RecordBufferAssumption DEF Filled, Known0, Shape
<1>10. \A o \in rows : o.pos = p => o.row = b.row
  BY <1>1, OutRowIs
<1> QED BY <1>1, <1>3, <1>8, <1>9, <1>10 DEF PosOK

(* What is buffered for a record that only the log has. *)
LEMMA LogOnlyMade ==
    ASSUME BufferInv, err # "rekey", NEW k \in LogOnly, k \in DOMAIN records
    PROVE  /\ records[k].del \in BOOLEAN
           /\ ~records[k].del =>
                /\ ~HasHole(records[k].row)
                /\ Inserted(k).id = k /\ DOMAIN Inserted(k).row = Columns
                /\ \A c \in Columns : Inserted(k).row[c] \in Nat
           /\ \A rows :
                {o \in rows : o.pos = NoPos /\ o.key = k} =
                  (IF records[k].del THEN {} ELSE {OutRow(NoPos, Inserted(k))})
                => LogOnlyOK(rows, k)
<1>1. PICK v, S : v = records[k] /\ S = OpsOf(k)
  OBVIOUS
<1>2. IsVersion(v) /\ EntryOK(log, v, k, S) /\ ~InBaseFile(k)
  BY <1>1, LogOnlyIs DEF BufferInv, RekeyInv, PlacedInv, EntriesHold
<1>3. /\ v.id = k /\ Shape(v) /\ v.del \in BOOLEAN
      /\ ~v.del => Whole(v)
  BY <1>2 DEF EntryOK, IsVersion
<1>4. PICK m : m = Inserted(k)
  OBVIOUS
<1>5. /\ m.id = v.id /\ m.del = v.del /\ m.ord = v.ord
      /\ m.row = [c \in Columns |-> IF c \in DOMAIN v.row THEN v.row[c] ELSE Null]
  <2>1. m = [v EXCEPT !.row = Pad(v.row)]
    BY <1>1, <1>4 DEF Inserted
  <2>2. Pad(v.row) = [c \in Columns |-> IF c \in DOMAIN v.row THEN v.row[c] ELSE Null]
    BY DEF Pad, Overlay
  <2> QED BY <1>2, <2>1, <2>2 DEF IsVersion
<1>6. ~v.del => \A c \in Columns : m.row[c] = v.row[c] /\ m.row[c] \in Nat
  BY <1>3, <1>5 DEF Whole, Shape
<1>7. ~v.del => ~HasHole(v.row)
  BY <1>3 DEF Whole, HasHole
<1>8. ASSUME NotRevived(S), Ranked(S, NoPos) PROVE Right(m, S, NoPos)
  <2>1. /\ S \in SUBSET (Nat \ {0}) /\ S \in SUBSET Nat
        /\ \A i \in S : log[i].ver.ord.n \in Nat /\ LogRecordOK(log[i])
    BY <1>1, PlacesFacts DEF OpsOf
  <2>2. /\ \A i \in S : Version(i, NoPos) = log[i].ver
        /\ Calm(log, S) /\ Sorted(log, S)
    BY <1>8, <2>1, VersionsOf
  <2>3. PICK w \in S : StandsFor(v, log[w].ver) /\ Highest(log, w, S)
    BY <1>2, <2>2 DEF EntryOK, Wins
  <2>4. \A j \in S : Beats(Version(w, NoPos), w, Version(j, NoPos), j)
    BY <2>2, <2>3 DEF Highest
  <2>5. Winner(S, NoPos) = w
    BY <2>1, <2>2, <2>4, WinnerIs
  <2>6. /\ m.del <=> log[w].ver.del
        /\ DOMAIN log[w].ver.row \subseteq Columns
    BY <1>5, <2>1, <2>3 DEF StandsFor, LogRecordOK, Shape
  <2>7. ~m.del => \A c \in Columns : Known0(w, c, NoPos) => m.row[c] = log[w].ver.row[c]
    BY <1>5, <1>6, <2>2, <2>3 DEF Known0, StandsFor
  <2> QED BY <2>2, <2>5, <2>6, <2>7 DEF Right
<1>9. ASSUME NEW rows, {o \in rows : o.pos = NoPos /\ o.key = k} =
                         (IF v.del THEN {} ELSE {OutRow(NoPos, m)})
      PROVE  LogOnlyOK(rows, k)
  <2>1. Right(m, S, NoPos) => Exact(rows, NoPos, k, S)
    BY <1>3, <1>5, <1>9, ExactMade
  <2> QED BY <1>1, <1>8, <2>1 DEF LogOnlyOK
<1> QED BY <1>1, <1>3, <1>4, <1>5, <1>6, <1>7, <1>9

(* Nothing of this changes once the scan is over. *)
LEMMA SameRows ==
    ASSUME UNCHANGED <<mode, base, log, usePos>>
    PROVE  /\ Positions' = Positions /\ LogOnly' = LogOnly
           /\ \A p : LookupKey(p)' = LookupKey(p)
           /\ MapKeys(log, usePos)' = MapKeys(log, usePos)
           /\ UniqueKeys' <=> UniqueKeys
           /\ \A rows, p : PosOK(rows, p)' <=> PosOK(rows, p)
           /\ \A rows, k : LogOnlyOK(rows, k)' <=> LogOnlyOK(rows, k)
<1>1. /\ Positions' = Positions
      /\ \A p : LookupKey(p)' = LookupKey(p)
      /\ MapKeys(log, usePos)' = MapKeys(log, usePos)
  BY DEF Positions, LookupKey, MapKeys, At
<1>2. UniqueKeys' <=> UniqueKeys
  BY <1>1 DEF UniqueKeys
<1>3. (\A p : OpsAt(p)' = OpsAt(p)) /\ (\A k : OpsOf(k)' = OpsOf(k))
  BY <1>2 DEF OpsAt, OpsOf, NoPos
<1>4. LogOnly' = LogOnly
  BY <1>1, <1>3 DEF LogOnly
<1>5. \A i, p : Version(i, p)' = Version(i, p)
  BY DEF Version, BaseRow, Data
<1>6. \A i, j, p : Above(i, j, p)' <=> Above(i, j, p)
  BY <1>5 DEF Above, CommitTimeDelete, IsDefaultOrder
<1>7. \A is, p : Winner(is, p)' = Winner(is, p)
  BY <1>6 DEF Winner
<1>8. \A is, p : (Ranked(is, p)' <=> Ranked(is, p)) /\ (NotRevived(is)' <=> NotRevived(is))
  BY <1>5 DEF Ranked, NotRevived, CommitTimeDelete, IsDefaultOrder
<1>9. \A i, c, p : Known0(i, c, p)' <=> Known0(i, c, p)
  BY <1>5 DEF Known0
<1>10. \A rows, p, k, is : Exact(rows, p, k, is)' <=> Exact(rows, p, k, is)
  BY <1>5, <1>7, <1>9 DEF Exact
<1>11. \A row, is, p : Filled(row, is, p)' <=> Filled(row, is, p)
  BY <1>5, <1>6, <1>8, <1>9 DEF Filled
<1>12. \A rows, p : PosOK(rows, p)' <=> PosOK(rows, p)
  BY <1>3, <1>8, <1>10, <1>11 DEF PosOK
<1>13. \A rows, k : LogOnlyOK(rows, k)' <=> LogOnlyOK(rows, k)
  BY <1>3, <1>8, <1>10 DEF LogOnlyOK, NoPos
<1> QED BY <1>1, <1>2, <1>4, <1>12, <1>13

(***************************************************************************)
(* While the base file is read, the map has lost what the rows so far      *)
(* looked up, and each of them has given what its versions say; then what  *)
(* is left are the records only the log has, and those drained are right.  *)
(***************************************************************************)
RowsInv ==
    /\ phase = "scan" => cursor = 0 /\ out = {}
    /\ err # "sentinel"
    /\ phase \in {"base", "drain", "done"} =>
        /\ cursor \in 0 .. Len(base)
        /\ \A o \in out : \/ o.pos \in 0 .. cursor - 1
                          \/ /\ o.pos = NoPos /\ phase # "base"
                             /\ o.key \in LogOnly \ DOMAIN records
                             /\ \A c \in Columns : o.row[c] \in Nat
        /\ UniqueKeys \/ usePos => \A p \in 0 .. cursor - 1 : PosOK(out, p)
        /\ phase = "base" =>
             DOMAIN records = MapKeys(log, usePos) \ {LookupKey(q) : q \in 0 .. cursor - 1}
        /\ phase # "base" =>
             /\ cursor = Len(base) /\ DOMAIN records \subseteq LogOnly
             /\ \A k \in LogOnly \ DOMAIN records : LogOnlyOK(out, k)
        /\ phase = "done" => DOMAIN records = {}

(* A batch is a stretch of the base file. *)
LEMMA BatchIs ==
    ASSUME ReadInv, cursor \in 0 .. Len(base)
    PROVE  \E n \in 0 .. Len(base) :
             /\ n >= cursor /\ Batch = cursor .. n - 1
             /\ IsFiniteSet(Batch) /\ Cardinality(Batch) = n - cursor
             /\ Batch = {} => cursor = Len(base)
             /\ Batch \subseteq Positions
<1>1. Len(base) \in Nat /\ BatchRows \in Nat \ {0} /\ cursor \in Nat
  BY PositionsFacts, RecordBufferAssumption
<1>2. PICK n \in 0 .. Len(base) :
        /\ n >= cursor /\ n <= cursor + BatchRows
        /\ n = Len(base) \/ n = cursor + BatchRows
  <2>1. CASE cursor + BatchRows <= Len(base)
    BY <1>1, <2>1
  <2>2. CASE cursor + BatchRows > Len(base)
    BY <1>1, <2>2
  <2> QED BY <1>1, <2>1, <2>2
<1>3. Batch = cursor .. n - 1
  BY <1>1, <1>2 DEF Batch, Positions
<1>4. IsFiniteSet(cursor .. n - 1) /\ Cardinality(cursor .. n - 1) = n - cursor
  <2>1. PICK a, z : a = cursor /\ z = n - 1
    OBVIOUS
  <2>2. a \in Int /\ z \in Int /\ a <= z + 1 /\ z + 1 - a = n - cursor
    BY <1>1, <1>2, <2>1
  <2>3. IsFiniteSet(a .. z) /\ Cardinality(a .. z) = IF a > z THEN 0 ELSE z - a + 1
    BY <2>2, FS_Interval
  <2>4. (IF a > z THEN 0 ELSE z - a + 1) = z + 1 - a
    BY <2>2
  <2> QED BY <2>1, <2>2, <2>3, <2>4
<1>5. Batch = {} => cursor = Len(base)
  <2>1. n > cursor => cursor \in cursor .. n - 1
    BY <1>1, <1>2
  <2> QED BY <1>1, <1>2, <1>3, <2>1
<1>6. Batch \subseteq Positions
  BY DEF Batch
<1> QED BY <1>2, <1>3, <1>4, <1>5, <1>6

(* The rows of a batch look up everything under their keys: of those with *)
(* one key the first does.                                                *)
LEMMA BatchTakes ==
    ASSUME ReadInv, cursor \in 0 .. Len(base)
    PROVE  /\ {LookupKey(p) : p \in Matched}
                = {LookupKey(q) : q \in Batch} \cap DOMAIN records
           /\ UniqueKeys \/ usePos =>
                Matched = {p \in Batch : LookupKey(p) \in DOMAIN records}
<1>1. PICK n \in 0 .. Len(base) :
        n >= cursor /\ Batch = cursor .. n - 1 /\ IsFiniteSet(Batch)
        /\ Batch \subseteq Positions
  BY BatchIs
<1>2. Len(base) \in Nat
  BY PositionsFacts
<1>3. ASSUME NEW x \in Batch, LookupKey(x) \in DOMAIN records
      PROVE  \E p \in Matched : LookupKey(p) = LookupKey(x)
  <2> DEFINE S == {q \in Batch : LookupKey(q) = LookupKey(x)}
             f == [q \in S |-> n - q]
  <2>1. IsFiniteSet(S) /\ S # {}
    BY <1>1, FS_Subset
  <2>2. f \in [S -> Nat]
    BY <1>1, <1>2
  <2>3. PICK p \in S : \A q \in S : f[q] <= f[p]
    <3> HIDE DEF S, f
    <3> QED BY <2>1, <2>2, GreatestValue
  <2>4. \A q \in Batch : q < p => q \notin S
    BY <1>1, <1>2, <2>3
  <2>5. p \in Matched
    BY <1>3, <2>3, <2>4 DEF Matched
  <2> QED BY <2>3, <2>5
<1>4. \A p \in Matched : p \in Batch /\ LookupKey(p) \in DOMAIN records
  BY DEF Matched
<1>5. UniqueKeys \/ usePos => Matched = {p \in Batch : LookupKey(p) \in DOMAIN records}
  <2>1. UniqueKeys \/ usePos =>
          \A p \in Batch, q \in Batch : LookupKey(p) = LookupKey(q) => p = q
    BY <1>1, LookupInjective
  <2>2. \A p \in Batch, q \in Batch : q < p => q # p
    BY <1>1, <1>2
  <2> QED BY <2>1, <2>2 DEF Matched
<1> QED BY <1>3, <1>4, <1>5

Gone == {p \in Matched : MergedRow(p).del}
BatchOut ==
    {OutRow(p, BaseRow(p)) : p \in Batch \ Matched}
        \cup {OutRow(p, MergedRow(p)) : p \in Matched \ Gone}

LEMMA BatchOutIs ==
    /\ \A o \in BatchOut : o.pos \in Batch
    /\ \A p \in Batch :
         {o \in BatchOut : o.pos = p} =
           IF p \in Matched
           THEN IF MergedRow(p).del THEN {} ELSE {OutRow(p, MergedRow(p))}
           ELSE {OutRow(p, BaseRow(p))}
<1>1. Matched \subseteq Batch
  BY DEF Matched
<1>2. \A o \in BatchOut : \/ \E p \in Batch \ Matched : o = OutRow(p, BaseRow(p)) /\ o.pos = p
                          \/ \E p \in Matched \ Gone : o = OutRow(p, MergedRow(p)) /\ o.pos = p
  BY OutRowIs DEF BatchOut
<1>3. \A o \in BatchOut : o.pos \in Batch
  BY <1>1, <1>2
<1>4. ASSUME NEW p \in Batch
      PROVE  {o \in BatchOut : o.pos = p} =
               IF p \in Matched
               THEN IF MergedRow(p).del THEN {} ELSE {OutRow(p, MergedRow(p))}
               ELSE {OutRow(p, BaseRow(p))}
  <2>1. CASE p \in Batch \ Matched
    <3>1. OutRow(p, BaseRow(p)) \in BatchOut
      BY <2>1 DEF BatchOut
    <3> QED BY <1>2, <2>1, <3>1, OutRowIs
  <2>2. CASE p \in Gone
    BY <1>2, <2>2 DEF Gone
  <2>3. CASE p \in Matched \ Gone
    <3>1. OutRow(p, MergedRow(p)) \in BatchOut
      BY <2>3 DEF BatchOut
    <3>2. ~MergedRow(p).del
      BY <2>3 DEF Gone
    <3> QED BY <1>2, <2>3, <3>1, <3>2, OutRowIs
  <2> QED BY <2>1, <2>2, <2>3 DEF Gone
<1> QED BY <1>3, <1>4

LEMMA BatchFacts ==
    ASSUME MergeBaseBatch
    PROVE  /\ UNCHANGED <<mode, base, log, usePos, phase, err>> /\ phase = "base"
           /\ out' = out \cup BatchOut
           /\ emitted' = emitted + Cardinality(Batch \ Gone)
           /\ DOMAIN records' = DOMAIN records \ {LookupKey(p) : p \in Matched}
           /\ stats' = [stats EXCEPT !.updates = @ + Cardinality(Matched \ Gone),
                                     !.deletes = @ + Cardinality(Gone)]
           /\ cursor' = cursor + Cardinality(Batch)
BY DEF MergeBaseBatch, Gone, BatchOut, Without

LEMMA RowsBatch ==
    ASSUME BufferInv, RowsInv, MergeBaseBatch
    PROVE  RowsInv'
<1>1. /\ UNCHANGED <<mode, base, log, usePos, phase, err>> /\ phase = "base"
      /\ out' = out \cup BatchOut
      /\ DOMAIN records' = DOMAIN records \ {LookupKey(p) : p \in Matched}
      /\ cursor' = cursor + Cardinality(Batch)
  BY BatchFacts
<1>2. /\ cursor \in 0 .. Len(base)
      /\ \A o \in out : o.pos \in 0 .. cursor - 1
      /\ UniqueKeys \/ usePos => \A p \in 0 .. cursor - 1 : PosOK(out, p)
      /\ DOMAIN records = MapKeys(log, usePos) \ {LookupKey(q) : q \in 0 .. cursor - 1}
      /\ err # "sentinel"
  BY <1>1 DEF RowsInv
<1>3. ReadInv /\ err # "rekey" /\ Len(base) \in Nat /\ Positions = 0 .. Len(base) - 1
  BY <1>1, PositionsFacts DEF BufferInv, RekeyInv, FallbackInv, Positions
<1>4. PICK n \in 0 .. Len(base) :
        /\ n >= cursor /\ Batch = cursor .. n - 1 /\ Batch \subseteq Positions
        /\ cursor' = n
  <2>1. PICK n \in 0 .. Len(base) :
          /\ n >= cursor /\ Batch = cursor .. n - 1 /\ Batch \subseteq Positions
          /\ Cardinality(Batch) = n - cursor
    BY <1>2, <1>3, BatchIs
  <2>2. cursor' = n
    BY <1>1, <1>2, <1>3, <2>1
  <2> QED BY <2>1, <2>2
<1>5. 0 .. n - 1 = (0 .. cursor - 1) \cup Batch /\ (0 .. cursor - 1) \cap Batch = {}
  BY <1>2, <1>3, <1>4
<1>6. DOMAIN records' = MapKeys(log, usePos) \ {LookupKey(q) : q \in 0 .. n - 1}
  <2>1. {LookupKey(p) : p \in Matched} = {LookupKey(q) : q \in Batch} \cap DOMAIN records
    BY <1>2, <1>3, BatchTakes
  <2>2. {LookupKey(q) : q \in 0 .. n - 1} =
          {LookupKey(q) : q \in 0 .. cursor - 1} \cup {LookupKey(q) : q \in Batch}
    BY <1>5
  <2> QED BY <1>1, <1>2, <2>1, <2>2
<1>7. \A o \in out' : o.pos \in 0 .. n - 1
  BY <1>1, <1>2, <1>5, BatchOutIs
<1>8. ASSUME UniqueKeys \/ usePos, NEW p \in 0 .. n - 1 PROVE PosOK(out \cup BatchOut, p)
  <2>1. CASE p \in 0 .. cursor - 1
    <3>1. {o \in out \cup BatchOut : o.pos = p} = {o \in out : o.pos = p}
      BY <1>5, <2>1, BatchOutIs
    <3> QED BY <1>2, <1>8, <2>1, <3>1, PosSame
  <2>2. CASE p \in Batch
    <3>1. {o \in out \cup BatchOut : o.pos = p} = {o \in BatchOut : o.pos = p}
      BY <1>2, <1>5, <2>2
    <3>2. p \in Positions
      BY <1>4, <2>2
    <3>3. Matched = {x \in Batch : LookupKey(x) \in DOMAIN records}
      BY <1>2, <1>3, <1>8, BatchTakes
    <3>4. CASE p \in Matched
      <4>1. {o \in out \cup BatchOut : o.pos = p} =
              IF MergedRow(p).del THEN {} ELSE {OutRow(p, MergedRow(p))}
        BY <2>2, <3>1, <3>4, BatchOutIs
      <4>2. LookupKey(p) \in DOMAIN records
        BY <3>3, <3>4
      <4> QED BY <1>3, <1>8, <3>2, <4>1, <4>2, PosMade
    <3>5. CASE p \notin Matched
      <4>1. {o \in out \cup BatchOut : o.pos = p} = {OutRow(p, BaseRow(p))}
        BY <2>2, <3>1, <3>5, BatchOutIs
      <4>2. LookupKey(p) \notin MapKeys(log, usePos)
        <5>1. \A q \in 0 .. cursor - 1 : q \in Positions /\ q # p
          BY <1>2, <1>3, <1>5, <2>2
        <5>2. \A q \in 0 .. cursor - 1 : LookupKey(q) # LookupKey(p)
          BY <1>8, <3>2, <5>1, LookupInjective
        <5> QED BY <1>2, <2>2, <3>3, <3>5, <5>2
      <4>3. OpsAt(p) = {}
        BY <1>3, <1>8, <3>2, <4>2, RowOps DEF OpsUnder, MapKeys
      <4> QED BY <1>3, <3>2, <4>1, <4>3, PosKept
    <3> QED BY <3>4, <3>5
  <2> QED BY <1>5, <2>1, <2>2
<1>9. PICK rows : rows = out \cup BatchOut
  OBVIOUS
<1>10. UniqueKeys \/ usePos => \A p \in 0 .. n - 1 : PosOK(rows, p)'
  BY <1>1, <1>8, <1>9, SameRows
<1>11. UniqueKeys' \/ usePos' => \A p \in 0 .. n - 1 : PosOK(out, p)'
  BY <1>1, <1>9, <1>10, SameRows
<1>12. DOMAIN records' = MapKeys(log, usePos)' \ {LookupKey(q)' : q \in 0 .. n - 1}
  BY <1>1, <1>6, SameRows
<1> QED BY <1>1, <1>2, <1>4, <1>7, <1>11, <1>12 DEF RowsInv

LEMMA RowsExhausted ==
    ASSUME BufferInv, RowsInv, BaseExhausted
    PROVE  RowsInv'
<1>1. /\ UNCHANGED <<mode, base, log, usePos, records, err, cursor, out>>
      /\ phase = "base" /\ phase' = "drain" /\ Batch = {}
  BY DEF BaseExhausted
<1>2. /\ cursor \in 0 .. Len(base)
      /\ \A o \in out : o.pos \in 0 .. cursor - 1
      /\ UniqueKeys \/ usePos => \A p \in 0 .. cursor - 1 : PosOK(out, p)
      /\ DOMAIN records = MapKeys(log, usePos) \ {LookupKey(q) : q \in 0 .. cursor - 1}
      /\ err # "sentinel"
  BY <1>1 DEF RowsInv
<1>3. ReadInv /\ err # "rekey" /\ Len(base) \in Nat
  BY <1>1, PositionsFacts DEF BufferInv, RekeyInv, FallbackInv
<1>4. cursor = Len(base)
  BY <1>1, <1>2, <1>3, BatchIs
<1>5. DOMAIN records = LogOnly
  BY <1>2, <1>3, <1>4, LogOnlyIs DEF Positions
<1>6. UniqueKeys' \/ usePos' => \A p \in 0 .. cursor - 1 : PosOK(out, p)'
  <2>1. PICK rows : rows = out
    OBVIOUS
  <2>2. UniqueKeys \/ usePos => \A p \in 0 .. cursor - 1 : PosOK(rows, p)'
    BY <1>1, <1>2, <2>1, SameRows
  <2> QED BY <1>1, <2>1, <2>2, SameRows
<1>7. LogOnly' = DOMAIN records'
  BY <1>1, <1>5, SameRows
<1> QED BY <1>1, <1>2, <1>4, <1>6, <1>7 DEF RowsInv

LEMMA LogOnlySame ==
    ASSUME NEW rows, NEW more, NEW k, LogOnlyOK(rows, k),
           {o \in more : o.pos = NoPos /\ o.key = k}
             = {o \in rows : o.pos = NoPos /\ o.key = k}
    PROVE  LogOnlyOK(more, k)
<1>1. \A o : o \in more /\ o.pos = NoPos /\ o.key = k
               <=> o \in rows /\ o.pos = NoPos /\ o.key = k
  OBVIOUS
<1>2. \A is : Exact(rows, NoPos, k, is) => Exact(more, NoPos, k, is)
  BY <1>1 DEF Exact
<1> QED BY <1>2 DEF LogOnlyOK

Live(ks) == {mk \in ks : ~records[mk].del}
DrainOut(ks) == {OutRow(NoPos, Inserted(mk)) : mk \in Live(ks)}

(* The guard against a placeholder never acts; the last chunk is empty. *)
LEMMA DrainFacts ==
    ASSUME BufferInv, RowsInv, DrainLogOnlyInserts
    PROVE  \E ks \in SUBSET DOMAIN records :
             /\ UNCHANGED <<mode, base, log, usePos, cursor, err>> /\ phase = "drain"
             /\ DOMAIN records' = DOMAIN records \ ks
             /\ out' = out \cup DrainOut(ks)
             /\ emitted' = emitted + Cardinality(Live(ks))
             /\ stats' = [stats EXCEPT !.inserts = @ + Cardinality(Live(ks)),
                                       !.deletes = @ + Cardinality(ks \ Live(ks))]
             /\ phase' = IF Live(ks) = {} THEN "done" ELSE "drain"
             /\ Live(ks) = {} => ks = DOMAIN records
<1>1. PICK ks \in Chunks :
        /\ phase = "drain"
        /\ records' = Without(records, ks)
        /\ stats' = [stats EXCEPT !.inserts = @ + Cardinality(Live(ks)),
                                  !.deletes = @ + Cardinality(ks \ Live(ks))]
        /\ IF Leaks(Live(ks))
           THEN Fail("sentinel") /\ UNCHANGED <<out, emitted>>
           ELSE /\ out' = out \cup DrainOut(ks)
                /\ emitted' = emitted + Cardinality(Live(ks))
                /\ phase' = IF Live(ks) = {} THEN "done" ELSE "drain"
                /\ UNCHANGED err
        /\ UNCHANGED <<mode, base, log, usePos, cursor>>
  BY DEF DrainLogOnlyInserts, Live, DrainOut
<1>2. /\ ks \in SUBSET DOMAIN records
      /\ \/ Cardinality(Live(ks)) = ChunkRows
         \/ Cardinality(Live(ks)) < ChunkRows /\ ks = DOMAIN records
  BY DEF Chunks, Live
<1>3. err # "rekey" /\ DOMAIN records \subseteq LogOnly
  BY <1>1 DEF BufferInv, RekeyInv, FallbackInv, RowsInv
<1>4. ~Leaks(Live(ks))
  BY <1>2, <1>3, LogOnlyMade DEF Leaks, Live
<1>5. Live(ks) = {} => ks = DOMAIN records
  BY <1>2, FS_EmptySet, RecordBufferAssumption
<1>6. DOMAIN records' = DOMAIN records \ ks
  BY <1>1 DEF Without
<1> QED BY <1>1, <1>2, <1>4, <1>5, <1>6

LEMMA RowsDrain ==
    ASSUME BufferInv, RowsInv, DrainLogOnlyInserts
    PROVE  RowsInv'
<1>1. PICK ks \in SUBSET DOMAIN records :
        /\ UNCHANGED <<mode, base, log, usePos, cursor, err>> /\ phase = "drain"
        /\ DOMAIN records' = DOMAIN records \ ks
        /\ out' = out \cup DrainOut(ks)
        /\ phase' = IF Live(ks) = {} THEN "done" ELSE "drain"
        /\ Live(ks) = {} => ks = DOMAIN records
  BY DrainFacts
<1>2. /\ cursor \in 0 .. Len(base) /\ cursor = Len(base)
      /\ \A o \in out : \/ o.pos \in 0 .. cursor - 1
                        \/ /\ o.pos = NoPos
                           /\ o.key \in LogOnly \ DOMAIN records
                           /\ \A c \in Columns : o.row[c] \in Nat
      /\ UniqueKeys \/ usePos => \A p \in 0 .. cursor - 1 : PosOK(out, p)
      /\ DOMAIN records \subseteq LogOnly
      /\ \A k \in LogOnly \ DOMAIN records : LogOnlyOK(out, k)
      /\ err # "sentinel"
  BY <1>1 DEF RowsInv
<1>3. err # "rekey" /\ Len(base) \in Nat
  BY <1>1, PositionsFacts DEF BufferInv, RekeyInv, FallbackInv
<1>4. ASSUME NEW mk \in ks
      PROVE  /\ mk \in LogOnly /\ records[mk].del \in BOOLEAN
             /\ ~records[mk].del =>
                  Inserted(mk).id = mk /\ \A c \in Columns : Inserted(mk).row[c] \in Nat
             /\ \A rows :
                  {o \in rows : o.pos = NoPos /\ o.key = mk} =
                    (IF records[mk].del THEN {} ELSE {OutRow(NoPos, Inserted(mk))})
                  => LogOnlyOK(rows, mk)
  BY <1>2, <1>3, LogOnlyMade
<1>5. \A o \in DrainOut(ks) : \E mk \in ks :
        /\ ~records[mk].del /\ o = OutRow(NoPos, Inserted(mk))
        /\ o.pos = NoPos /\ o.key = mk
        /\ \A c \in Columns : o.row[c] \in Nat
  BY <1>4, OutRowIs DEF DrainOut, Live
<1>6. PICK rows : rows = out \cup DrainOut(ks)
  OBVIOUS
<1>7. \A o \in rows : \/ o.pos \in 0 .. cursor - 1
                      \/ /\ o.pos = NoPos
                         /\ o.key \in LogOnly \ DOMAIN records'
                         /\ \A c \in Columns : o.row[c] \in Nat
  BY <1>1, <1>2, <1>4, <1>5, <1>6
<1>8. ASSUME UniqueKeys \/ usePos, NEW p \in 0 .. cursor - 1 PROVE PosOK(rows, p)
  <2>1. p # NoPos
    BY <1>2, <1>3 DEF NoPos
  <2>2. {o \in rows : o.pos = p} = {o \in out : o.pos = p}
    BY <1>5, <1>6, <2>1
  <2> QED BY <1>2, <1>8, <2>2, PosSame
<1>9. ASSUME NEW k \in LogOnly \ DOMAIN records' PROVE LogOnlyOK(rows, k)
  <2>1. CASE k \in ks
    <3>1. NoPos \notin 0 .. cursor - 1
      BY <1>2, <1>3 DEF NoPos
    <3>2. {o \in out : o.pos = NoPos /\ o.key = k} = {}
      BY <1>2, <2>1, <3>1
    <3>3. {o \in DrainOut(ks) : o.pos = NoPos /\ o.key = k} =
            IF records[k].del THEN {} ELSE {OutRow(NoPos, Inserted(k))}
      <4>1. CASE records[k].del
        BY <1>5, <4>1
      <4>2. CASE ~records[k].del
        <5>1. OutRow(NoPos, Inserted(k)) \in DrainOut(ks)
          BY <2>1, <4>2 DEF DrainOut, Live
        <5> QED BY <1>4, <1>5, <2>1, <4>2, <5>1, OutRowIs
      <4> QED BY <4>1, <4>2
    <3>4. {o \in rows : o.pos = NoPos /\ o.key = k} =
            {o \in DrainOut(ks) : o.pos = NoPos /\ o.key = k}
      BY <1>6, <3>2
    <3> QED BY <1>4, <2>1, <3>3, <3>4
  <2>2. CASE k \notin ks
    <3>1. k \in LogOnly \ DOMAIN records
      BY <1>1, <2>2
    <3>2. {o \in rows : o.pos = NoPos /\ o.key = k} =
            {o \in out : o.pos = NoPos /\ o.key = k}
      BY <1>5, <1>6, <2>2
    <3> QED BY <1>2, <3>1, <3>2, LogOnlySame
  <2> QED BY <2>1, <2>2
<1>10. UniqueKeys' \/ usePos' => \A p \in 0 .. cursor - 1 : PosOK(rows, p)'
  BY <1>1, <1>8, SameRows
<1>11. \A k \in LogOnly' \ DOMAIN records' : LogOnlyOK(rows, k)'
  BY <1>1, <1>9, SameRows
<1>12. LogOnly' = LogOnly /\ DOMAIN records' \subseteq LogOnly
  BY <1>1, <1>2, SameRows
<1>13. Live(ks) = {} => DOMAIN records' = {}
  BY <1>1
<1>14. out' = rows /\ phase' \in {"drain", "done"} /\ (phase' = "done" => Live(ks) = {})
  BY <1>1, <1>6
<1> QED BY <1>1, <1>2, <1>7, <1>10, <1>11, <1>12, <1>13, <1>14 DEF RowsInv, NoPos

LEMMA RowsStep == BufferInv /\ RowsInv /\ [Next]_vars => RowsInv'
<1> SUFFICES ASSUME BufferInv, RowsInv, [Next]_vars PROVE RowsInv'
  OBVIOUS
<1>1. CASE ProcessDataBlock \/ ProcessDeleteMarker \/ ProcessDeleteBlock
  <2>1. \E block, v, p : ProcessBlock(block, v, p)
    BY <1>1 DEF ProcessDataBlock, ProcessDeleteMarker, ProcessDeleteBlock
  <2>2. /\ phase = "scan" /\ phase' \in {"scan", "failed"} /\ err' \in {err, "rekey"}
        /\ UNCHANGED <<cursor, out>>
    BY <2>1 DEF ProcessBlock, Fail
  <2> QED BY <2>2 DEF RowsInv
<1>2. CASE Spill
  BY <1>2 DEF Spill, RowsInv
<1>3. CASE StorageError
  BY <1>3 DEF StorageError, Fail, RowsInv
<1>4. CASE EndScan
  <2>1. /\ UNCHANGED <<mode, base, log, usePos, records, err, cursor, out>>
        /\ phase = "scan" /\ phase' = "base" /\ cursor = 0 /\ out = {}
        /\ err # "sentinel"
    BY <1>4 DEF EndScan, RowsInv
  <2>2. DOMAIN records = MapKeys(log, usePos) /\ Len(base) \in Nat
    BY <2>1, PositionsFacts DEF BufferInv, RekeyInv
  <2>3. MapKeys(log, usePos)' = MapKeys(log, usePos)
    BY <2>1, SameRows
  <2>4. 0 .. cursor' - 1 = {}
    BY <2>1
  <2> QED BY <2>1, <2>2, <2>3, <2>4 DEF RowsInv
<1>5. CASE MergeBaseBatch
  BY <1>5, RowsBatch
<1>6. CASE BaseExhausted
  BY <1>6, RowsExhausted
<1>7. CASE DrainLogOnlyInserts
  BY <1>7, RowsDrain
<1>8. CASE NextChunkDone \/ UNCHANGED vars
  <2>1. UNCHANGED vars
    BY <1>8 DEF NextChunkDone
  <2>2. UNCHANGED <<mode, base, log, usePos>> /\ UNCHANGED <<out, cursor, phase, records, err>>
    BY <2>1 DEF vars
  <2>3. PICK rows : rows = out
    OBVIOUS
  <2>4. /\ \A p : PosOK(rows, p)' <=> PosOK(rows, p)
        /\ \A k : LogOnlyOK(rows, k)' <=> LogOnlyOK(rows, k)
        /\ LogOnly' = LogOnly /\ (UniqueKeys' <=> UniqueKeys)
        /\ \A p : LookupKey(p)' = LookupKey(p)
        /\ MapKeys(log, usePos)' = MapKeys(log, usePos)
    BY <2>2, SameRows
  <2> QED BY <2>2, <2>3, <2>4 DEF RowsInv, NoPos
<1> QED BY <1>1, <1>2, <1>3, <1>4, <1>5, <1>6, <1>7, <1>8 DEF Next, NextChunk

-----------------------------------------------------------------------------
(* Counting the rows and the updates. *)
Stats == [inserts : Nat, updates : Nat, deletes : Nat]

CountInv ==
    /\ stats \in Stats
    /\ emitted \in Nat
    /\ phase = "scan" => /\ emitted = 0
                         /\ stats = [inserts |-> 0, updates |-> 0, deletes |-> 0]
    /\ phase \in {"base", "drain", "done"} =>
         /\ IsFiniteSet(out) /\ emitted = Cardinality(out)
         /\ stats.inserts + stats.updates + stats.deletes + Cardinality(DOMAIN records)
              = Cardinality(MapKeys(log, usePos))
         /\ phase = "base" => emitted + stats.deletes = cursor
         /\ phase # "base" => emitted + stats.deletes + Cardinality(DOMAIN records)
                                = Len(base) + Cardinality(LogOnly)

LEMMA SumsKept ==
    ASSUME NEW i \in Nat, NEW u \in Nat, NEW d \in Nat, NEW M, NEW a \in Nat,
           NEW e \in Nat, NEW r \in Nat
    PROVE  /\ i + u + d + (a + e + r) = M => (i + a) + u + (d + e) + r = M
           /\ i + d + (a + e + r) = M => (i + a) + (d + e) + r = M
OBVIOUS

LEMMA ImageCount ==
    ASSUME NEW S, IsFiniteSet(S), NEW f, DOMAIN f = S, NEW T, T = {f[x] : x \in S},
           \A x, y \in S : f[x] = f[y] => x = y
    PROVE  IsFiniteSet(T) /\ Cardinality(T) = Cardinality(S)
<1>1. PICK g : g = [x \in S |-> f[x]]
  OBVIOUS
<1>2. g \in Surjection(S, T) /\ g \in Injection(S, T)
  BY <1>1 DEF Surjection, Injection, IsInjective
<1> QED BY <1>2, FS_Surjection

LEMMA CountDisjoint ==
    ASSUME NEW S, IsFiniteSet(S), NEW T, IsFiniteSet(T), S \cap T = {}
    PROVE  /\ IsFiniteSet(S \cup T)
           /\ Cardinality(S \cup T) = Cardinality(S) + Cardinality(T)
           /\ Cardinality(S) \in Nat /\ Cardinality(T) \in Nat
<1>1. Cardinality(S \cap T) = 0
  BY FS_EmptySet
<1>2. /\ IsFiniteSet(S \cup T)
      /\ Cardinality(S \cup T) = Cardinality(S) + Cardinality(T) - Cardinality(S \cap T)
  BY FS_Union
<1>3. Cardinality(S) \in Nat /\ Cardinality(T) \in Nat
  BY FS_CardinalityType
<1> QED BY <1>1, <1>2, <1>3

LEMMA CountSplit ==
    ASSUME NEW S, IsFiniteSet(S), NEW T \in SUBSET S
    PROVE  /\ IsFiniteSet(T) /\ IsFiniteSet(S \ T)
           /\ Cardinality(S) = Cardinality(T) + Cardinality(S \ T)
           /\ Cardinality(S) \in Nat /\ Cardinality(T) \in Nat /\ Cardinality(S \ T) \in Nat
<1>1. IsFiniteSet(T) /\ IsFiniteSet(S \ T)
  BY FS_Subset
<1>2. T \cup (S \ T) = S /\ T \cap (S \ T) = {}
  OBVIOUS
<1>3. /\ Cardinality(T \cup (S \ T)) = Cardinality(T) + Cardinality(S \ T)
      /\ Cardinality(T) \in Nat /\ Cardinality(S \ T) \in Nat
  BY <1>1, <1>2, CountDisjoint
<1>4. Cardinality(S) = Cardinality(T) + Cardinality(S \ T)
  BY <1>2, <1>3
<1> QED BY <1>1, <1>3, <1>4

LEMMA MapKeysFinite ==
    ASSUME BufferInv, err # "rekey"
    PROVE  IsFiniteSet(MapKeys(log, usePos)) /\ LogOnly \subseteq MapKeys(log, usePos)
           /\ IsFiniteSet(DOMAIN log)
<1>1. Len(log) \in Nat /\ DOMAIN log = 1 .. Len(log)
  BY PlacesFacts
<1>2. IsFiniteSet(DOMAIN log)
  BY <1>1, FS_Interval
<1>3. PICK f : f = [i \in DOMAIN log |-> At(log, usePos, i)]
  OBVIOUS
<1>4. f \in Surjection(DOMAIN log, MapKeys(log, usePos))
  BY <1>3 DEF Surjection, MapKeys
<1> QED BY <1>2, <1>4, FS_Surjection, LogOnlyIs

(* A batch: a row for each position that is not deleted, a map key for each *)
(* that finds a version.                                                    *)
LEMMA BatchCounts ==
    ASSUME ReadInv, cursor \in 0 .. Len(base)
    PROVE  /\ IsFiniteSet(BatchOut)
           /\ Cardinality(BatchOut) = Cardinality(Batch \ Gone)
           /\ IsFiniteSet({LookupKey(p) : p \in Matched})
           /\ Cardinality({LookupKey(p) : p \in Matched})
                = Cardinality(Matched \ Gone) + Cardinality(Gone)
           /\ Cardinality(Batch) = Cardinality(Batch \ Gone) + Cardinality(Gone)
           /\ Cardinality(Batch) \in Nat /\ Cardinality(Gone) \in Nat
           /\ Cardinality(Batch \ Gone) \in Nat /\ Cardinality(Matched \ Gone) \in Nat
<1>1. IsFiniteSet(Batch) /\ Batch \subseteq Nat
  BY BatchIs, PositionsFacts
<1>2. Matched \subseteq Batch /\ Gone \subseteq Matched
  BY DEF Matched, Gone
<1>3. /\ IsFiniteSet(Batch \ Gone)
      /\ Cardinality(Batch) = Cardinality(Gone) + Cardinality(Batch \ Gone)
      /\ Cardinality(Batch) \in Nat /\ Cardinality(Gone) \in Nat
      /\ Cardinality(Batch \ Gone) \in Nat
  BY <1>1, <1>2, CountSplit
<1>4. IsFiniteSet(Matched)
  BY <1>1, <1>2, FS_Subset
<1>5. /\ Cardinality(Matched) = Cardinality(Gone) + Cardinality(Matched \ Gone)
      /\ Cardinality(Matched \ Gone) \in Nat
  BY <1>2, <1>4, CountSplit
<1>6. /\ IsFiniteSet({LookupKey(p) : p \in Matched})
      /\ Cardinality({LookupKey(p) : p \in Matched}) = Cardinality(Matched)
  <2>1. PICK f : f = [p \in Matched |-> LookupKey(p)]
    OBVIOUS
  <2>2. \A p, q \in Matched : LookupKey(p) = LookupKey(q) => p = q
    <3>1. \A p, q \in Matched : p \in Nat /\ q \in Nat /\ (LookupKey(p) = LookupKey(q)
                                  => ~(q < p) /\ ~(p < q))
      BY <1>1, <1>2 DEF Matched
    <3> QED BY <3>1
  <2>3. PICK T : T = {LookupKey(p) : p \in Matched}
    OBVIOUS
  <2>4. /\ DOMAIN f = Matched /\ T = {f[x] : x \in Matched}
        /\ \A x, y \in Matched : f[x] = f[y] => x = y
    BY <2>1, <2>2, <2>3
  <2>5. IsFiniteSet(T) /\ Cardinality(T) = Cardinality(Matched)
    BY <1>4, <2>4, ImageCount
  <2> QED BY <2>3, <2>5
<1>7. IsFiniteSet(BatchOut) /\ Cardinality(BatchOut) = Cardinality(Batch \ Gone)
  <2>1. PICK f : f = [p \in Batch \ Gone |-> IF p \in Matched THEN OutRow(p, MergedRow(p))
                                                             ELSE OutRow(p, BaseRow(p))]
    OBVIOUS
  <2>2. \A p \in Batch \ Gone : f[p].pos = p
    BY <2>1, OutRowIs
  <2>3. BatchOut = {f[p] : p \in Batch \ Gone}
    <3>1. \A p \in Batch \ Matched : p \in Batch \ Gone /\ f[p] = OutRow(p, BaseRow(p))
      BY <1>2, <2>1
    <3>2. \A p \in Matched \ Gone : p \in Batch \ Gone /\ f[p] = OutRow(p, MergedRow(p))
      BY <1>2, <2>1
    <3>3. \A p \in Batch \ Gone : p \in Batch \ Matched \/ p \in Matched \ Gone
      OBVIOUS
    <3> QED BY <3>1, <3>2, <3>3 DEF BatchOut
  <2>4. PICK T, S : T = BatchOut /\ S = Batch \ Gone
    OBVIOUS
  <2>5. /\ DOMAIN f = S /\ T = {f[x] : x \in S} /\ IsFiniteSet(S)
        /\ \A x, y \in S : f[x] = f[y] => x = y
    BY <1>3, <2>1, <2>2, <2>3, <2>4
  <2>6. IsFiniteSet(T) /\ Cardinality(T) = Cardinality(S)
    BY <2>5, ImageCount
  <2> QED BY <2>4, <2>6
<1> QED BY <1>3, <1>5, <1>6, <1>7

LEMMA CountBatch ==
    ASSUME BufferInv, RowsInv, CountInv, MergeBaseBatch
    PROVE  CountInv'
<1>1. /\ UNCHANGED <<mode, base, log, usePos, phase, err>> /\ phase = "base"
      /\ out' = out \cup BatchOut
      /\ emitted' = emitted + Cardinality(Batch \ Gone)
      /\ DOMAIN records' = DOMAIN records \ {LookupKey(p) : p \in Matched}
      /\ stats' = [stats EXCEPT !.updates = @ + Cardinality(Matched \ Gone),
                                !.deletes = @ + Cardinality(Gone)]
      /\ cursor' = cursor + Cardinality(Batch)
  BY BatchFacts
<1>2. /\ stats \in Stats /\ emitted \in Nat
      /\ IsFiniteSet(out) /\ emitted = Cardinality(out)
      /\ stats.inserts + stats.updates + stats.deletes + Cardinality(DOMAIN records)
           = Cardinality(MapKeys(log, usePos))
      /\ emitted + stats.deletes = cursor
  BY <1>1 DEF CountInv
<1>3. /\ ReadInv /\ err # "rekey" /\ Len(base) \in Nat /\ cursor \in 0 .. Len(base)
      /\ \A o \in out : o.pos \in 0 .. cursor - 1
      /\ DOMAIN records \subseteq MapKeys(log, usePos)
  BY <1>1, PositionsFacts DEF BufferInv, RekeyInv, FallbackInv, RowsInv
<1>4. PICK taken : taken = {LookupKey(p) : p \in Matched}
  OBVIOUS
<1>5. /\ IsFiniteSet(BatchOut)
      /\ Cardinality(BatchOut) = Cardinality(Batch \ Gone)
      /\ IsFiniteSet(taken)
      /\ Cardinality(taken) = Cardinality(Matched \ Gone) + Cardinality(Gone)
      /\ Cardinality(Batch) = Cardinality(Batch \ Gone) + Cardinality(Gone)
      /\ Cardinality(Batch) \in Nat /\ Cardinality(Gone) \in Nat
      /\ Cardinality(Batch \ Gone) \in Nat /\ Cardinality(Matched \ Gone) \in Nat
  BY <1>3, <1>4, BatchCounts
<1>6. out \cap BatchOut = {}
  <2>1. \A p \in Batch : p \notin 0 .. cursor - 1
    BY <1>3 DEF Batch, Positions
  <2> QED BY <1>3, <2>1, BatchOutIs
<1>7. /\ IsFiniteSet(out') /\ Cardinality(out') = Cardinality(out) + Cardinality(BatchOut)
  BY <1>1, <1>2, <1>5, <1>6, CountDisjoint
<1>8. IsFiniteSet(DOMAIN records) /\ taken \in SUBSET DOMAIN records
  <2>1. taken \in SUBSET DOMAIN records
    BY <1>4 DEF Matched
  <2>2. IsFiniteSet(DOMAIN records)
    BY <1>3, MapKeysFinite, FS_Subset
  <2> QED BY <2>1, <2>2
<1>9. /\ Cardinality(DOMAIN records) = Cardinality(taken) + Cardinality(DOMAIN records')
      /\ Cardinality(DOMAIN records') \in Nat
  BY <1>1, <1>4, <1>8, CountSplit
<1>10. /\ stats' \in Stats
       /\ stats'.inserts = stats.inserts
       /\ stats'.updates = stats.updates + Cardinality(Matched \ Gone)
       /\ stats'.deletes = stats.deletes + Cardinality(Gone)
  <2>1. PICK x, y, t : /\ x = stats.updates + Cardinality(Matched \ Gone)
                       /\ y = stats.deletes + Cardinality(Gone) /\ t = stats'
    OBVIOUS
  <2>2. x \in Nat /\ y \in Nat
    BY <1>2, <1>5, <2>1 DEF Stats
  <2>3. t = [stats EXCEPT !.updates = x, !.deletes = y]
    BY <1>1, <2>1
  <2>4. t \in Stats /\ t.inserts = stats.inserts /\ t.updates = x /\ t.deletes = y
    <3>1. stats \in Stats
      BY <1>2
    <3> QED BY ONLY <2>2, <2>3, <3>1 DEF Stats
  <2> QED BY <2>1, <2>4
<1>11. stats.inserts \in Nat /\ stats.updates \in Nat /\ stats.deletes \in Nat
  BY <1>2 DEF Stats
<1>12. /\ emitted' \in Nat /\ emitted' = Cardinality(out')
       /\ emitted' + stats'.deletes = cursor'
  BY <1>1, <1>2, <1>5, <1>7, <1>10, <1>11
<1>13. stats'.inserts + stats'.updates + stats'.deletes + Cardinality(DOMAIN records')
         = Cardinality(MapKeys(log, usePos))
  BY <1>2, <1>5, <1>9, <1>10, <1>11
<1>14. MapKeys(log, usePos)' = MapKeys(log, usePos)
  BY <1>1, SameRows
<1> QED BY <1>1, <1>7, <1>10, <1>12, <1>13, <1>14 DEF CountInv

LEMMA CountDrain ==
    ASSUME BufferInv, RowsInv, CountInv, DrainLogOnlyInserts
    PROVE  CountInv'
<1>1. PICK ks \in SUBSET DOMAIN records :
        /\ UNCHANGED <<mode, base, log, usePos, cursor, err>> /\ phase = "drain"
        /\ DOMAIN records' = DOMAIN records \ ks
        /\ out' = out \cup DrainOut(ks)
        /\ emitted' = emitted + Cardinality(Live(ks))
        /\ stats' = [stats EXCEPT !.inserts = @ + Cardinality(Live(ks)),
                                  !.deletes = @ + Cardinality(ks \ Live(ks))]
        /\ phase' = IF Live(ks) = {} THEN "done" ELSE "drain"
  BY DrainFacts
<1>2. /\ stats \in Stats /\ emitted \in Nat
      /\ IsFiniteSet(out) /\ emitted = Cardinality(out)
      /\ stats.inserts + stats.updates + stats.deletes + Cardinality(DOMAIN records)
           = Cardinality(MapKeys(log, usePos))
      /\ emitted + stats.deletes + Cardinality(DOMAIN records)
           = Len(base) + Cardinality(LogOnly)
  BY <1>1 DEF CountInv
<1>3. /\ err # "rekey" /\ Len(base) \in Nat /\ cursor = Len(base)
      /\ \A o \in out : \/ o.pos \in 0 .. cursor - 1
                        \/ o.pos = NoPos /\ o.key \notin DOMAIN records
      /\ DOMAIN records \subseteq LogOnly
  BY <1>1, PositionsFacts DEF BufferInv, RekeyInv, FallbackInv, RowsInv
<1>4. \A mk \in ks : mk \in DOMAIN records /\ mk \in LogOnly
  BY <1>3
<1>5. \A mk \in Live(ks) : Inserted(mk).id = mk
  BY <1>3, <1>4, LogOnlyMade DEF Live
<1>6. IsFiniteSet(DOMAIN records) /\ IsFiniteSet(LogOnly)
  BY <1>3, MapKeysFinite, FS_Subset
<1>7. PICK live, rows, rest : live = Live(ks) /\ rows = DrainOut(ks) /\ rest = ks \ Live(ks)
  OBVIOUS
<1>8. /\ IsFiniteSet(ks) /\ Cardinality(DOMAIN records') \in Nat
      /\ Cardinality(DOMAIN records) = Cardinality(ks) + Cardinality(DOMAIN records')
  BY <1>1, <1>6, CountSplit
<1>9. /\ IsFiniteSet(live) /\ Cardinality(ks) = Cardinality(live) + Cardinality(rest)
      /\ Cardinality(live) \in Nat /\ Cardinality(rest) \in Nat
  <2>1. live \in SUBSET ks
    BY <1>7 DEF Live
  <2> QED BY <1>7, <1>8, <2>1, CountSplit
<1>10. IsFiniteSet(rows) /\ Cardinality(rows) = Cardinality(live)
  <2>1. PICK f : f = [mk \in live |-> OutRow(NoPos, Inserted(mk))]
    OBVIOUS
  <2>2. \A mk \in live : f[mk].key = mk
    BY <1>5, <1>7, <2>1, OutRowIs
  <2>3. /\ DOMAIN f = live /\ rows = {f[mk] : mk \in live}
        /\ \A x, y \in live : f[x] = f[y] => x = y
    BY <1>7, <2>1, <2>2 DEF DrainOut
  <2> QED BY <1>9, <2>3, ImageCount
<1>11. out \cap rows = {}
  <2>1. \A o \in rows : o.pos = NoPos /\ o.key \in DOMAIN records
    BY <1>4, <1>5, <1>7, OutRowIs DEF DrainOut, Live
  <2>2. NoPos \notin 0 .. cursor - 1
    BY <1>3 DEF NoPos
  <2> QED BY <1>3, <2>1, <2>2
<1>12. IsFiniteSet(out') /\ Cardinality(out') = Cardinality(out) + Cardinality(rows)
  <2>1. out' = out \cup rows
    BY <1>1, <1>7
  <2> QED BY <1>2, <1>10, <1>11, <2>1, CountDisjoint
<1>13. /\ stats' \in Stats
       /\ stats'.updates = stats.updates
       /\ stats'.inserts = stats.inserts + Cardinality(live)
       /\ stats'.deletes = stats.deletes + Cardinality(rest)
  <2>1. PICK x, y, t : /\ x = stats.inserts + Cardinality(live)
                       /\ y = stats.deletes + Cardinality(rest) /\ t = stats'
    OBVIOUS
  <2>2. x \in Nat /\ y \in Nat
    BY <1>2, <1>9, <2>1 DEF Stats
  <2>3. t = [stats EXCEPT !.inserts = x, !.deletes = y]
    BY <1>1, <1>7, <2>1
  <2>4. t \in Stats /\ t.updates = stats.updates /\ t.inserts = x /\ t.deletes = y
    <3>1. stats \in Stats
      BY <1>2
    <3> QED BY ONLY <2>2, <2>3, <3>1 DEF Stats
  <2> QED BY <2>1, <2>4
<1>14. stats.inserts \in Nat /\ stats.updates \in Nat /\ stats.deletes \in Nat
       /\ Cardinality(LogOnly) \in Nat
  BY <1>2, <1>6, FS_CardinalityType DEF Stats
<1>15. /\ emitted' \in Nat /\ emitted' = Cardinality(out')
  BY <1>1, <1>2, <1>7, <1>9, <1>10, <1>12
<1>16. emitted' = emitted + Cardinality(live)
  BY <1>1, <1>7
<1>17. /\ emitted' + stats'.deletes + Cardinality(DOMAIN records')
            = Len(base) + Cardinality(LogOnly)
       /\ stats'.inserts + stats'.updates + stats'.deletes + Cardinality(DOMAIN records')
            = Cardinality(MapKeys(log, usePos))
  <2>1. PICK a, e, r, R : /\ a = Cardinality(live) /\ e = Cardinality(rest)
                          /\ r = Cardinality(DOMAIN records')
                          /\ R = Cardinality(DOMAIN records)
    OBVIOUS
  <2>2. PICK i, u, d, m : /\ i = stats.inserts /\ u = stats.updates /\ d = stats.deletes
                          /\ m = emitted
    OBVIOUS
  <2>3. a \in Nat /\ e \in Nat /\ r \in Nat /\ R = a + e + r
    BY <1>8, <1>9, <2>1
  <2>4. i \in Nat /\ u \in Nat /\ d \in Nat /\ m \in Nat
    BY <1>2, <1>14, <2>2
  <2>5. /\ i + u + d + (a + e + r) = Cardinality(MapKeys(log, usePos))
        /\ m + d + (a + e + r) = Len(base) + Cardinality(LogOnly)
    BY <1>2, <2>1, <2>2, <2>3
  <2>6. /\ (i + a) + u + (d + e) + r = Cardinality(MapKeys(log, usePos))
        /\ (m + a) + (d + e) + r = Len(base) + Cardinality(LogOnly)
    BY <2>3, <2>4, <2>5, SumsKept
  <2>7. /\ stats'.inserts = i + a /\ stats'.updates = u /\ stats'.deletes = d + e
        /\ emitted' = m + a
    BY <1>13, <1>16, <2>1, <2>2
  <2> QED BY <2>1, <2>6, <2>7
<1>18. /\ MapKeys(log, usePos)' = MapKeys(log, usePos) /\ LogOnly' = LogOnly
       /\ base' = base /\ phase' \in {"drain", "done"}
  BY <1>1, SameRows
<1> QED BY <1>12, <1>13, <1>15, <1>17, <1>18 DEF CountInv

LEMMA CountStep == BufferInv /\ RowsInv /\ CountInv /\ [Next]_vars => CountInv'
<1> SUFFICES ASSUME BufferInv, RowsInv, CountInv, [Next]_vars PROVE CountInv'
  OBVIOUS
<1>1. CASE ProcessDataBlock \/ ProcessDeleteMarker \/ ProcessDeleteBlock
  <2>1. \E block, v, p : ProcessBlock(block, v, p)
    BY <1>1 DEF ProcessDataBlock, ProcessDeleteMarker, ProcessDeleteBlock
  <2>2. phase = "scan" /\ phase' \in {"scan", "failed"} /\ UNCHANGED <<emitted, stats>>
    BY <2>1 DEF ProcessBlock, Fail
  <2> QED BY <2>2 DEF CountInv
<1>2. CASE Spill
  BY <1>2 DEF Spill, CountInv
<1>3. CASE StorageError
  BY <1>3 DEF StorageError, Fail, CountInv
<1>4. CASE EndScan
  <2>1. /\ UNCHANGED <<mode, base, log, usePos, records, cursor, out, emitted, stats>>
        /\ phase = "scan" /\ phase' = "base" /\ cursor = 0 /\ out = {}
        /\ emitted = 0 /\ stats = [inserts |-> 0, updates |-> 0, deletes |-> 0]
    BY <1>4 DEF EndScan, RowsInv, CountInv
  <2>2. /\ DOMAIN records = MapKeys(log, usePos) /\ err # "rekey"
        /\ MapKeys(log, usePos)' = MapKeys(log, usePos)
    BY <2>1, SameRows DEF BufferInv, RekeyInv, FallbackInv
  <2>3. Cardinality(MapKeys(log, usePos)) \in Nat
    BY <2>2, MapKeysFinite, FS_CardinalityType
  <2>4. IsFiniteSet(out) /\ Cardinality(out) = 0
    BY <2>1, FS_EmptySet
  <2> QED BY <2>1, <2>2, <2>3, <2>4 DEF CountInv
<1>5. CASE MergeBaseBatch
  BY <1>5, CountBatch
<1>6. CASE BaseExhausted
  <2>1. /\ UNCHANGED <<mode, base, log, usePos, records, cursor, out, emitted, stats>>
        /\ phase = "base" /\ phase' = "drain"
    BY <1>6 DEF BaseExhausted
  <2>2. RowsInv'
    BY <1>6, RowsExhausted
  <2>3. cursor = Len(base) /\ DOMAIN records = LogOnly /\ err # "rekey"
    <3>1. /\ err # "rekey" /\ Batch = {} /\ cursor \in 0 .. Len(base) /\ ReadInv
          /\ DOMAIN records = MapKeys(log, usePos) \ {LookupKey(q) : q \in 0 .. cursor - 1}
      BY <1>6, <2>1 DEF BaseExhausted, RowsInv, BufferInv, RekeyInv, FallbackInv
    <3>2. cursor = Len(base)
      BY <3>1, BatchIs
    <3> QED BY <3>1, <3>2, LogOnlyIs DEF Positions
  <2>4. /\ LogOnly' = LogOnly /\ MapKeys(log, usePos)' = MapKeys(log, usePos)
        /\ base' = base /\ DOMAIN records' = DOMAIN records
    BY <2>1, SameRows
  <2> QED BY <2>1, <2>3, <2>4 DEF CountInv
<1>7. CASE DrainLogOnlyInserts
  BY <1>7, CountDrain
<1>8. CASE NextChunkDone \/ UNCHANGED vars
  <2>1. UNCHANGED vars
    BY <1>8 DEF NextChunkDone
  <2>2. /\ UNCHANGED <<mode, base, log, usePos>>
        /\ UNCHANGED <<out, cursor, phase, records, emitted, stats>>
    BY <2>1 DEF vars
  <2>3. LogOnly' = LogOnly /\ MapKeys(log, usePos)' = MapKeys(log, usePos) /\ base' = base
    BY <2>2, SameRows
  <2> QED BY <2>2, <2>3 DEF CountInv
<1> QED BY <1>1, <1>2, <1>3, <1>4, <1>5, <1>6, <1>7, <1>8 DEF Next, NextChunk

-----------------------------------------------------------------------------
(* The theorems. *)
LEMMA RowsFollow ==
    BufferInv /\ RowsInv /\ CountInv => MergeExact /\ PlaceholdersFilled
<1> SUFFICES ASSUME BufferInv, RowsInv, CountInv PROVE MergeExact /\ PlaceholdersFilled
  OBVIOUS
<1>1. ASSUME phase = "done"
      PROVE  /\ \A p \in Positions : UniqueKeys \/ usePos => PosOK(out, p)
             /\ \A k \in LogOnly : LogOnlyOK(out, k)
             /\ \A o \in out : o.pos = NoPos =>
                  o.key \in LogOnly /\ \A c \in Columns : o.row[c] \in Nat
             /\ \A o \in out : o.pos # NoPos => o.pos \in Positions
             /\ err # "rekey"
  <2>1. Len(base) \in Nat /\ err # "rekey"
    BY <1>1, PositionsFacts DEF BufferInv, RekeyInv, FallbackInv
  <2>2. NoPos \notin Positions
    BY PositionsFacts DEF BufferInv, RekeyInv
  <2> QED BY <1>1, <2>1, <2>2 DEF RowsInv, Positions
<1>2. ASSUME phase = "done" PROVE CountedOnce
  <2>1. /\ emitted = Cardinality(out) /\ DOMAIN records = {}
        /\ stats.inserts + stats.updates + stats.deletes + Cardinality(DOMAIN records)
             = Cardinality(MapKeys(log, usePos))
        /\ emitted + stats.deletes + Cardinality(DOMAIN records)
             = Len(base) + Cardinality(LogOnly)
        /\ stats \in Stats /\ emitted \in Nat
    BY <1>2 DEF CountInv, RowsInv
  <2>2. Cardinality(DOMAIN records) = 0
    BY <2>1, FS_EmptySet
  <2>3. UniqueKeys => Cardinality(MapKeys(log, usePos))
                        = Cardinality({log[i].ver.key : i \in DOMAIN log})
    <3>1. CASE ~usePos
      BY <3>1 DEF MapKeys, At
    <3>2. CASE usePos
      <4>1. SUFFICES ASSUME UniqueKeys
                     PROVE  Cardinality(MapKeys(log, usePos))
                              = Cardinality({log[i].ver.key : i \in DOMAIN log})
        OBVIOUS
      <4>2. \A i \in DOMAIN log : /\ log[i].pos \in Positions
                                  /\ base[log[i].pos + 1].key = log[i].ver.key
        BY <1>1, <1>2, <3>2, PlacesFacts
      <4>3. PICK S, T : S = {log[i].pos : i \in DOMAIN log}
                        /\ T = {log[i].ver.key : i \in DOMAIN log}
        OBVIOUS
      <4>4. PICK f : f = [p \in S |-> base[p + 1].key]
        OBVIOUS
      <4>5. MapKeys(log, usePos) = S
        BY <3>2, <4>3 DEF MapKeys, At
      <4>6. S \subseteq Positions /\ IsFiniteSet(S)
        BY <1>1, <1>2, <4>2, <4>3, <4>5, MapKeysFinite
      <4>7. \A x, y \in S : f[x] = f[y] => x = y
        BY <4>1, <4>4, <4>6 DEF UniqueKeys
      <4>8. DOMAIN f = S /\ T = {f[x] : x \in S}
        BY <4>2, <4>3, <4>4
      <4>9. Cardinality(T) = Cardinality(S)
        BY <4>6, <4>7, <4>8, ImageCount
      <4> QED BY <4>3, <4>5, <4>9
    <3> QED BY <3>1, <3>2
  <2>4. /\ stats.inserts \in Nat /\ stats.updates \in Nat /\ stats.deletes \in Nat
    BY <2>1 DEF Stats
  <2>5. /\ stats.inserts + stats.updates + stats.deletes = Cardinality(MapKeys(log, usePos))
        /\ emitted + stats.deletes = Len(base) + Cardinality(LogOnly)
    BY <2>1, <2>2, <2>4
  <2> QED BY <2>1, <2>3, <2>5 DEF CountedOnce
<1>3. \A rows, p, k, is : rows = out => (Exact(rows, p, k, is) <=> RowExact(p, k, is))
  BY DEF Exact, RowExact, Delivered
<1>4. MergeExact
  BY <1>1, <1>2, <1>3 DEF MergeExact, PosOK, LogOnlyOK
<1>5. PlaceholdersFilled
  <2>1. ASSUME phase = "done", NEW o \in out, NEW c \in Columns,
               o.row[c] \in {Hole, Null}, o.pos # NoPos => UniqueKeys \/ usePos
        PROVE  /\ o.pos # NoPos
               /\ Ranked(OpsAt(o.pos) \cup {0}, o.pos) =>
                    \A i \in OpsAt(o.pos) \cup {0} : Known0(i, c, o.pos) =>
                        \E j \in OpsAt(o.pos) \cup {0} :
                            Version(j, o.pos).del /\ Above(j, i, o.pos)
    <3>1. o.pos # NoPos
      BY <1>1, <2>1, RecordBufferAssumption
    <3>2. Filled(o.row, OpsAt(o.pos) \cup {0}, o.pos)
      BY <1>1, <2>1, <3>1 DEF PosOK
    <3> QED BY <2>1, <3>1, <3>2 DEF Filled
  <2>2. err # "sentinel"
    BY DEF RowsInv
  <2> QED BY <2>1, <2>2 DEF PlaceholdersFilled
<1> QED BY <1>4, <1>5

LEMMA RowsInit == Init => RowsInv /\ CountInv
BY DEF Init, RowsInv, CountInv, Stats

(***************************************************************************)
(* A read that ends hands out, for every record of the slice, the values   *)
(* of its newest version by the ordering the table chose, nothing for one  *)
(* whose newest version is a delete, nothing else, and counts every record *)
(* once: for base files and logs of any size, batches and chunks of any    *)
(* size, keyed by position, by key, or re-keyed half way, with any part of *)
(* the map on disk.  By BufferInv, what is buffered under a key stands for *)
(* the highest of its log records, and by RowsInv each row consumed and    *)
(* each insert drained is what the two together say.                       *)
(***************************************************************************)
THEOREM MergeTheorem == Spec => []MergeExact
BY BufferInit, BufferStep, RowsInit, RowsStep, CountStep, RowsFollow, PTL DEF Spec

(***************************************************************************)
(* Where a row is handed out with a placeholder or a missing column, no    *)
(* version of the record had a value for it that no delete above it took   *)
(* away; a log-only insert never has one, so the guard against it never    *)
(* ends a read.                                                            *)
(***************************************************************************)
THEOREM PlaceholdersTheorem == Spec => []PlaceholdersFilled
BY BufferInit, BufferStep, RowsInit, RowsStep, CountStep, RowsFollow, PTL DEF Spec
=============================================================================
