------------------------- MODULE SpillableMap_proofs -------------------------
(***************************************************************************)
(* Wherever the merge map keeps a record - in memory, on its way to disk,  *)
(* staged or flushed - a lookup finds what was last stored, the drain      *)
(* gives every record out once, and the two-tier map implements RecordMap. *)
(*                                                                         *)
(* The invariant says, of each place by itself, that what is kept there    *)
(* means what was written; that no key is in two places; and that, until   *)
(* the drain, no written key is in none.  The abstract map is then the     *)
(* history variable `written`, and in the drain what is left of it.        *)
(***************************************************************************)
EXTENDS SpillableMap, FiniteLemmas

-----------------------------------------------------------------------------
(* What a record means in a given heap. *)

RowIn(h, r) == IF r.kind = "ref" THEN h[r.batch][r.row] ELSE r.row
MeaningIn(h, r) ==
    IF r.kind = "delete" THEN [row |-> << >>, ord |-> r.ord, key |-> r.key]
    ELSE [row |-> RowIn(h, r), ord |-> r.ord, key |-> "record"]

(* r's row is there, and r means v. *)
RecordFits(h, r, v) ==
    /\ r.kind = "ref" => r.row \in DOMAIN h[r.batch]
    /\ MeaningIn(h, r) = v

MapFits(f, h, w) == \A k \in DOMAIN f : k \in DOMAIN w
                                        /\ RecordFits(h, f[k], w[k])

SpillFits(sp, h, w) ==
    \A i \in DOMAIN sp : sp[i].key \in DOMAIN w
                         /\ RecordFits(h, sp[i].rec, w[sp[i].key])

(* The index entry e, over the blobs bl, means v. *)
EntryMeaning(bl, e) ==
    IF e.kind = "delete" THEN [row |-> << >>, ord |-> e.ord, key |-> e.key]
    ELSE [row |-> bl[e.blob][e.row], ord |-> e.ord, key |-> "record"]
EntryFits(bl, e, v) ==
    /\ e.kind = "data" => e.blob \in DOMAIN bl /\ e.row \in DOMAIN bl[e.blob]
    /\ EntryMeaning(bl, e) = v

(* A staged row hides an older index entry. *)
IndexFits(d, w) ==
    \A k \in DOMAIN d.index \ DOMAIN d.staging :
        k \in DOMAIN w /\ EntryFits(d.blobs, d.index[k], w[k])

DiskKeys(d) == DOMAIN d.staging \cup DOMAIN d.index
SpillKeys(sp) == {sp[i].key : i \in DOMAIN sp}

(* No key is in two places. *)
Apart(m, d, sp) ==
    /\ DOMAIN m \cap DiskKeys(d) = {}
    /\ SpillKeys(sp) \cap (DOMAIN m \cup DiskKeys(d)) = {}
    /\ \A i, j \in DOMAIN sp : sp[i].key = sp[j].key => i = j

-----------------------------------------------------------------------------
(* The inductive invariant. *)

IsDiskRecord(d) ==
    d = [live |-> d.live, staging |-> d.staging, index |-> d.index,
         blobs |-> d.blobs, len |-> d.len, cache |-> d.cache]

IsDisk(d) ==
    /\ IsDiskRecord(d)
    /\ IsMap(d.staging, RefRec \cup OwnedRec)
    /\ IsMap(d.index, IndexEntry)
    /\ d.live \in BOOLEAN /\ d.blobs \in Seq(Seq(Row))
    /\ d.len \in Nat
    /\ d.cache \in Seq(Nat) /\ Len(d.cache) <= SpillBatchCache
    /\ ~d.live => DiskKeys(d) = {} /\ d.len = 0

PlacesType ==
    /\ IsMap(mem, BufferedRecord)
    /\ IsDisk(disk)
    /\ heap \in [Batches -> Seq(Row)]
    /\ spilled \in Seq([key : Keys, rec : RefRec])
    /\ IsMap(written, Sense)

CallerType ==
    /\ pc \in Pcs
    /\ block \in [batch : Batches \cup {NoBatch}, next : Nat \ {0}]
    /\ clock \in 0 .. MaxClock
    /\ out \in [Keys -> Seq(Sense)] /\ decodes \in Seq(Nat)
    /\ flushErr \in BOOLEAN

(* Every place holds what was written, and no key is in two. *)
PlacesFit ==
    /\ MapFits(mem, heap, written)
    /\ MapFits(disk.staging, heap, written)
    /\ SpillFits(spilled, heap, written)
    /\ ~flushErr => IndexFits(disk, written)
    /\ Apart(mem, disk, spilled)

Phases ==
    /\ spilled # << >> => \/ pc \in {"spill", "failed"}
                          \/ pc = "flush" /\ after = "spill"
    /\ spilled # << >> => disk.live
    /\ pc = "flush" => after \in {"scan", "spill", "evict", "drain"}
    /\ flushErr => pc \in {"drain", "failed"}
    /\ pc \in {"drain", "done"} => DOMAIN disk.staging = {}
    /\ pc = "done" => DOMAIN mem = {} /\ DiskKeys(disk) = {}

(* Until the drain, no written key is lost and nothing has come out. *)
Undrained == pc \notin {"drain", "done", "failed"}
Whole ==
    Undrained =>
        /\ DOMAIN written \subseteq
              DOMAIN mem \cup SpillKeys(spilled) \cup DiskKeys(disk)
        /\ disk.len = Cardinality(DiskKeys(disk))
        /\ out = [k \in Keys |-> << >>]
        /\ decodes = << >>

(* In the drain a written key is either still there or has come out. *)
Drained ==
    pc \in {"drain", "done"} /\ ~flushErr =>
        \A k \in Keys :
            out[k] = IF k \in DOMAIN written \ (DOMAIN mem \cup DiskKeys(disk))
                     THEN <<written[k]>> ELSE << >>

(* What was decoded is behind the drain, or in the cache. *)
DecodedOnce ==
    /\ IsInjective(decodes)
    /\ \A k \in DOMAIN disk.index : disk.index[k].kind = "data" =>
          \A b \in ToSet(decodes) :
              \/ b < disk.index[k].blob
              \/ b = disk.index[k].blob /\ b \in ToSet(disk.cache)

PlacesInv == PlacesType /\ CallerType /\ PlacesFit /\ Phases /\ Whole
             /\ Drained /\ DecodedOnce

-----------------------------------------------------------------------------
(* Records, and the order rows are laid out in. *)

(* SetToSeqs lays out every element once, and PlaceIn finds it again. *)
LEMMA PlaceInFinds ==
    ASSUME NEW S, IsFiniteSet(S), NEW ks \in SetToSeqs(S)
    PROVE  /\ ks \in Seq(S) /\ Len(ks) = Cardinality(S)
           /\ \A i, j \in DOMAIN ks : ks[i] = ks[j] => i = j
           /\ \A k \in S : /\ PlaceIn(ks, k) \in DOMAIN ks
                           /\ ks[PlaceIn(ks, k)] = k
<1> DEFINE n == Cardinality(S)
<1>1. n \in Nat
  BY FS_CardinalityType
<1>2. ks \in [1 .. n -> S] /\ \A i, j \in 1 .. n : i # j => ks[i] # ks[j]
  BY DEF SetToSeqs
<1>3. ks \in Injection(1 .. n, S)
  BY <1>2 DEF Injection, IsInjective
<1>4. IsFiniteSet(1 .. n) /\ Cardinality(1 .. n) = n
  BY <1>1, FS_Interval
<1>5. ks \in Surjection(1 .. n, S)
  BY <1>3, <1>4, FS_Injection
<1>6. \A k \in S : \E i \in DOMAIN ks : ks[i] = k
  BY <1>2, <1>5 DEF Surjection
<1>7. \A k \in S : PlaceIn(ks, k) \in DOMAIN ks /\ ks[PlaceIn(ks, k)] = k
  BY <1>6 DEF PlaceIn
<1>8. ks \in Seq(S) /\ Len(ks) = n
  BY <1>1, <1>2
<1> QED BY <1>2, <1>7, <1>8

(* The fields of the records there are. *)
LEMMA RecordFields ==
    ASSUME NEW r \in BufferedRecord
    PROVE  /\ r.kind \in {"ref", "owned", "delete"} /\ r.ord \in Ords
           /\ r.kind = "ref" => r \in RefRec /\ r.batch \in Batches
                                /\ r.row \in Nat /\ r.key = "record"
           /\ r.kind = "owned" => r \in OwnedRec /\ r.row \in Row
           /\ r.kind = "delete" => /\ r \in DeleteRec
                                   /\ r.key \in {"record", "map"}
           /\ r.kind # "delete" => r \in RefRec \cup OwnedRec
BY DEF BufferedRecord, RefRec, OwnedRec, DeleteRec

(* A record whose row is there has a meaning. *)
LEMMA MeaningType ==
    ASSUME NEW h \in [Batches -> Seq(Row)], NEW r \in BufferedRecord,
           r.kind = "ref" => r.row \in DOMAIN h[r.batch]
    PROVE  /\ MeaningIn(h, r) \in Sense
           /\ r.kind # "delete" => RowIn(h, r) \in Row
<1>1. r.kind # "delete" => RowIn(h, r) \in Row
  <2>1. CASE r.kind = "ref"
    <3>1. h[r.batch] \in Seq(Row) /\ r.row \in DOMAIN h[r.batch]
      BY <2>1, RecordFields
    <3>2. h[r.batch][r.row] \in Row
      BY <3>1
    <3> QED BY <2>1, <3>2 DEF RowIn
  <2>2. CASE r.kind = "owned"
    BY <2>2, RecordFields DEF RowIn
  <2> QED BY <2>1, <2>2, RecordFields
<1>2. CASE r.kind = "delete"
  BY <1>2, RecordFields DEF MeaningIn, Sense
<1>3. CASE r.kind # "delete"
  BY <1>1, <1>3, RecordFields DEF MeaningIn, Sense
<1> QED BY <1>1, <1>2, <1>3

(* Meaning is MeaningIn of the heap there is. *)
LEMMA MeaningNow == \A r : Meaning(r) = MeaningIn(heap, r)
BY DEF Meaning, MeaningIn, GetRecord, RowIn

(* A record fits a heap in which its batch is the same. *)
LEMMA FitsSameBatch ==
    ASSUME NEW h, NEW g, NEW r, NEW v, RecordFits(h, r, v),
           r.kind = "ref" => g[r.batch] = h[r.batch]
    PROVE  RecordFits(g, r, v)
BY DEF RecordFits, MeaningIn, RowIn

(***************************************************************************)
(* Freeing the batches nothing holds any more leaves every record kept in  *)
(* the map, staged or in transit with the row it had.                      *)
(***************************************************************************)
LEMMA DropKeeps ==
    ASSUME NEW h \in [Batches -> Seq(Row)], Drop(h), NEW w,
           DOMAIN mem' \subseteq Keys, mem' \in [DOMAIN mem' -> BufferedRecord],
           disk'.staging \in [DOMAIN disk'.staging -> BufferedRecord],
           \A i \in DOMAIN spilled' : spilled'[i].rec \in BufferedRecord,
           MapFits(mem', h, w), MapFits(disk'.staging, h, w),
           SpillFits(spilled', h, w)
    PROVE  /\ heap' \in [Batches -> Seq(Row)]
           /\ MapFits(mem', heap', w) /\ MapFits(disk'.staging, heap', w)
           /\ SpillFits(spilled', heap', w)
<1>1. heap' \in [Batches -> Seq(Row)]
  <2>1. << >> \in Seq(Row)
    OBVIOUS
  <2> QED BY <2>1 DEF Drop
<1>2. \A b \in Batches : Held(b)' => heap'[b] = h[b]
  BY DEF Drop
<1>3. ASSUME NEW k \in DOMAIN mem'
      PROVE  k \in DOMAIN w /\ RecordFits(heap', mem'[k], w[k])
  <2>1. mem'[k] \in BufferedRecord /\ RecordFits(h, mem'[k], w[k])
        /\ k \in DOMAIN w
    BY DEF MapFits
  <2>2. mem'[k].kind = "ref" => heap'[mem'[k].batch] = h[mem'[k].batch]
    <3>1. \A b \in Batches : RefersTo(mem'[k], b) => Held(b)'
      BY DEF Held, KeysOf, RefersTo
    <3> QED BY <1>2, <2>1, <3>1, RecordFields DEF RefersTo
  <2> QED BY <2>1, <2>2, FitsSameBatch
<1>4. ASSUME NEW k \in DOMAIN disk'.staging
      PROVE  k \in DOMAIN w /\ RecordFits(heap', disk'.staging[k], w[k])
  <2> DEFINE r == disk'.staging[k]
  <2>1. r \in BufferedRecord /\ RecordFits(h, r, w[k]) /\ k \in DOMAIN w
    BY DEF MapFits
  <2>2. r.kind = "ref" => heap'[r.batch] = h[r.batch]
    <3>1. \A b \in Batches : RefersTo(r, b) => Held(b)'
      BY DEF Held, RefersTo
    <3> QED BY <1>2, <2>1, <3>1, RecordFields DEF RefersTo
  <2> QED BY <2>1, <2>2, FitsSameBatch
<1>5. ASSUME NEW i \in DOMAIN spilled'
      PROVE  /\ spilled'[i].key \in DOMAIN w
             /\ RecordFits(heap', spilled'[i].rec, w[spilled'[i].key])
  <2> DEFINE r == spilled'[i].rec
             v == w[spilled'[i].key]
  <2>1. r \in BufferedRecord /\ RecordFits(h, r, v)
        /\ spilled'[i].key \in DOMAIN w
    BY DEF SpillFits
  <2>2. r.kind = "ref" => heap'[r.batch] = h[r.batch]
    <3>1. \A b \in Batches : RefersTo(r, b) => Held(b)'
      BY DEF Held, RefersTo
    <3> QED BY <1>2, <2>1, <3>1, RecordFields DEF RefersTo
  <2> HIDE DEF r, v
  <2>3. RecordFits(heap', r, v)
    BY <2>1, <2>2, FitsSameBatch
  <2> QED BY <2>1, <2>3 DEF r, v
<1> QED BY <1>1, <1>3, <1>4, <1>5 DEF MapFits, SpillFits

-----------------------------------------------------------------------------
(* The disk tier. *)

(* An index entry is a data entry or a tombstone. *)
LEMMA EntryFields ==
    ASSUME NEW e \in IndexEntry
    PROVE  /\ e.kind \in {"data", "delete"} /\ e.ord \in Ords
           /\ e.kind = "data" => e.blob \in Nat /\ e.row \in Nat
           /\ e.kind = "delete" => e.key \in {"record", "map"}
BY DEF IndexEntry

(* The keys on disk are finitely many. *)
LEMMA DiskKeysFinite ==
    ASSUME NEW d, IsDisk(d)
    PROVE  DiskKeys(d) \subseteq Keys /\ IsFiniteSet(DiskKeys(d))
<1>1. DiskKeys(d) \subseteq Keys
  BY DEF IsDisk, IsMap, DiskKeys
<1> QED BY <1>1, FS_Subset, ConstantsAssumption

(* With, and Without, keep the type of a map. *)
LEMMA WithMap ==
    ASSUME NEW T, NEW f, IsMap(f, T), NEW k \in Keys, NEW v \in T
    PROVE  IsMap(With(f, k, v), T)
BY DEF With, IsMap

LEMMA WithoutMap ==
    ASSUME NEW T, NEW f, IsMap(f, T), NEW S
    PROVE  IsMap(Without(f, S), T)
BY DEF Without, IsMap

(* The disk tier after put. *)
LEMMA PutIntoType ==
    ASSUME NEW d, IsDisk(d), d.live, NEW k \in Keys, NEW r \in BufferedRecord
    PROVE  /\ IsDisk(PutInto(d, k, r)) /\ PutInto(d, k, r).live
           /\ DiskKeys(PutInto(d, k, r)) = DiskKeys(d) \cup {k}
           /\ PutInto(d, k, r).cache = d.cache
           /\ d.len = Cardinality(DiskKeys(d)) =>
                PutInto(d, k, r).len = Cardinality(DiskKeys(PutInto(d, k, r)))
<1> DEFINE e == PutInto(d, k, r)
<1>0. e = PutInto(d, k, r)
  OBVIOUS
<1> HIDE DEF e
<1>1. CASE r.kind = "delete"
  <2>1. /\ IsDiskRecord(e) /\ e.live = d.live /\ e.blobs = d.blobs
        /\ e.cache = d.cache
        /\ e.index = With(d.index, k, DeleteEntry(r))
        /\ e.len = d.len + (IF k \in DiskKeys(d) THEN 0 ELSE 1)
    BY <1>0, <1>1 DEF PutInto, IsDisk, IsDiskRecord, DiskKeys
  <2>2. e.staging = Without(d.staging, {k})
    BY <1>0, <1>1 DEF PutInto, IsDisk, IsDiskRecord
  <2>3. DeleteEntry(r) \in IndexEntry
    BY <1>1, RecordFields DEF DeleteEntry, IndexEntry
  <2>4. IsMap(e.staging, RefRec \cup OwnedRec)
    BY <2>2, WithoutMap DEF IsDisk
  <2>5. IsMap(e.index, IndexEntry)
    BY <2>1, <2>3, WithMap DEF IsDisk
  <2>6. DOMAIN e.staging = DOMAIN d.staging \ {k}
    BY <2>2 DEF Without
  <2>7. DOMAIN e.index = DOMAIN d.index \cup {k}
    BY <2>1 DEF With
  <2>8. DiskKeys(e) = DiskKeys(d) \cup {k}
    BY <2>6, <2>7 DEF DiskKeys
  <2>9. IsDisk(e) /\ e.live
    <3>1. e.len \in Nat
      BY <2>1 DEF IsDisk
    <3> QED BY <2>1, <2>4, <2>5, <3>1 DEF IsDisk
  <2>10. d.len = Cardinality(DiskKeys(d)) => e.len = Cardinality(DiskKeys(e))
    <3>1. d.len \in Nat
      BY DEF IsDisk
    <3>2. Cardinality(DiskKeys(e)) = IF k \in DiskKeys(d)
             THEN Cardinality(DiskKeys(d)) ELSE Cardinality(DiskKeys(d)) + 1
      BY <2>8, DiskKeysFinite, FS_AddElement
    <3> QED BY <2>1, <3>1, <3>2
  <2> QED BY <1>0, <2>1, <2>8, <2>9, <2>10
<1>2. CASE r.kind # "delete"
  <2>1. /\ IsDiskRecord(e) /\ e.live = d.live /\ e.blobs = d.blobs
        /\ e.cache = d.cache
        /\ e.staging = With(d.staging, k, r)
        /\ e.index = d.index
        /\ e.len = d.len + (IF k \in DiskKeys(d) THEN 0 ELSE 1)
    BY <1>0, <1>2 DEF PutInto, IsDisk, IsDiskRecord, DiskKeys
  <2>2. r \in RefRec \cup OwnedRec
    BY <1>2, RecordFields
  <2>3. IsMap(e.staging, RefRec \cup OwnedRec)
    BY <2>1, <2>2, WithMap DEF IsDisk
  <2>4. DOMAIN e.staging = DOMAIN d.staging \cup {k}
    BY <2>1 DEF With
  <2>5. DiskKeys(e) = DiskKeys(d) \cup {k}
    BY <2>1, <2>4 DEF DiskKeys
  <2>6. IsDisk(e) /\ e.live
    <3>1. e.len \in Nat
      BY <2>1 DEF IsDisk
    <3> QED BY <2>1, <2>3, <3>1 DEF IsDisk
  <2>7. d.len = Cardinality(DiskKeys(d)) => e.len = Cardinality(DiskKeys(e))
    <3>1. d.len \in Nat
      BY DEF IsDisk
    <3>2. Cardinality(DiskKeys(e)) = IF k \in DiskKeys(d)
             THEN Cardinality(DiskKeys(d)) ELSE Cardinality(DiskKeys(d)) + 1
      BY <2>5, DiskKeysFinite, FS_AddElement
    <3> QED BY <2>1, <3>1, <3>2
  <2> QED BY <1>0, <2>1, <2>5, <2>6, <2>7
<1> QED BY <1>1, <1>2

(* What put leaves on disk means what was written. *)
LEMMA PutIntoFits ==
    ASSUME NEW d, IsDisk(d), NEW k, NEW r \in BufferedRecord, NEW h,
           NEW w, NEW x, MapFits(d.staging, h, w), IndexFits(d, w),
           k \in DOMAIN x, RecordFits(h, r, x[k]),
           \A j \in DOMAIN w \ {k} : j \in DOMAIN x /\ x[j] = w[j]
    PROVE  /\ MapFits(PutInto(d, k, r).staging, h, x)
           /\ IndexFits(PutInto(d, k, r), x)
<1> DEFINE e == PutInto(d, k, r)
<1>0. e = PutInto(d, k, r)
  OBVIOUS
<1> HIDE DEF e
<1>1. CASE r.kind = "delete"
  <2>1. e.blobs = d.blobs /\ e.index = With(d.index, k, DeleteEntry(r))
    BY <1>0, <1>1 DEF PutInto, IsDisk, IsDiskRecord, DiskKeys
  <2>2. e.staging = Without(d.staging, {k})
    BY <1>0, <1>1 DEF PutInto, IsDisk, IsDiskRecord
  <2>3. /\ DOMAIN e.staging = DOMAIN d.staging \ {k}
        /\ \A j \in DOMAIN e.staging : e.staging[j] = d.staging[j]
    BY <2>2 DEF Without
  <2>4. /\ DOMAIN e.index = DOMAIN d.index \cup {k}
        /\ e.index[k] = DeleteEntry(r)
        /\ \A j \in DOMAIN d.index : j # k => e.index[j] = d.index[j]
    BY <2>1 DEF With
  <2>5. EntryFits(e.blobs, DeleteEntry(r), x[k])
    BY <1>1 DEF EntryFits, EntryMeaning, DeleteEntry, RecordFits, MeaningIn
  <2>6. MapFits(e.staging, h, x)
    BY <2>3 DEF MapFits
  <2>7. IndexFits(e, x)
    BY <2>1, <2>3, <2>4, <2>5 DEF IndexFits
  <2> QED BY <1>0, <2>6, <2>7
<1>2. CASE r.kind # "delete"
  <2>1. /\ e.blobs = d.blobs /\ e.staging = With(d.staging, k, r)
        /\ e.index = d.index
    BY <1>0, <1>2 DEF PutInto, IsDisk, IsDiskRecord, DiskKeys
  <2>2. /\ DOMAIN e.staging = DOMAIN d.staging \cup {k}
        /\ e.staging[k] = r
        /\ \A j \in DOMAIN d.staging : j # k => e.staging[j] = d.staging[j]
    BY <2>1 DEF With
  <2>3. MapFits(e.staging, h, x)
    BY <2>2 DEF MapFits
  <2>4. IndexFits(e, x)
    BY <2>1, <2>2 DEF IndexFits
  <2> QED BY <1>0, <2>3, <2>4
<1> QED BY <1>1, <1>2

(* Opening the disk tier changes nothing that is on it. *)
LEMMA EnsureDiskProps ==
    ASSUME NEW d, IsDisk(d)
    PROVE  /\ IsDisk(EnsureDisk(d)) /\ EnsureDisk(d).live
           /\ DiskKeys(EnsureDisk(d)) = DiskKeys(d)
           /\ EnsureDisk(d).len = d.len
           /\ \A h, w : MapFits(d.staging, h, w) =>
                           MapFits(EnsureDisk(d).staging, h, w)
           /\ \A w : IndexFits(d, w) => IndexFits(EnsureDisk(d), w)
<1>1. CASE d.live
  BY <1>1 DEF EnsureDisk
<1>2. CASE ~d.live
  <2> DEFINE e == [NoDisk EXCEPT !.live = TRUE]
  <2>0. /\ IsDiskRecord(NoDisk)
        /\ NoDisk.staging = NoEntries /\ NoDisk.index = NoEntries
        /\ NoDisk.blobs = << >> /\ NoDisk.len = 0 /\ NoDisk.cache = << >>
    BY DEF NoDisk, IsDiskRecord
  <2>2. EnsureDisk(d) = e
    BY <1>2 DEF EnsureDisk
  <2>3. e = [NoDisk EXCEPT !.live = TRUE]
    OBVIOUS
  <2> HIDE DEF e
  <2>10. /\ IsDiskRecord(e) /\ e.live = TRUE /\ e.staging = NoDisk.staging
         /\ e.index = NoDisk.index /\ e.blobs = NoDisk.blobs
         /\ e.len = NoDisk.len /\ e.cache = NoDisk.cache
    <3>1. IsDiskRecord(e) /\ e.staging = NoDisk.staging
         /\ e.index = NoDisk.index /\ e.blobs = NoDisk.blobs
         /\ e.len = NoDisk.len /\ e.cache = NoDisk.cache
      BY <2>0, <2>3 DEF IsDiskRecord
    <3>2. e.live = TRUE
      BY <2>0, <2>3 DEF IsDiskRecord
    <3> QED BY <3>1, <3>2
  <2>1. /\ IsDiskRecord(e)
        /\ e.live = TRUE /\ e.staging = NoEntries /\ e.index = NoEntries
        /\ e.blobs = << >> /\ e.len = 0 /\ e.cache = << >>
    BY <2>0, <2>10, Zenon
  <2>9. DOMAIN NoEntries = {} /\ NoEntries \in [{} -> RefRec \cup OwnedRec]
        /\ NoEntries \in [{} -> IndexEntry]
    BY DEF NoEntries
  <2>4. DiskKeys(e) = {} /\ DiskKeys(d) = {} /\ d.len = 0
    BY <1>2, <2>1, <2>9 DEF DiskKeys, IsDisk
  <2>5. IsDisk(e)
    <3>1. << >> \in Seq(Nat) /\ << >> \in Seq(Seq(Row)) /\ Len(<< >>) = 0
      OBVIOUS
    <3>2. IsMap(e.staging, RefRec \cup OwnedRec) /\ IsMap(e.index, IndexEntry)
      BY <2>1, <2>9 DEF IsMap
    <3>3. 0 <= SpillBatchCache
      BY ConstantsAssumption
    <3>4. e.cache \in Seq(Nat) /\ Len(e.cache) <= SpillBatchCache
      BY <2>1, <3>1, <3>3
    <3>5. e.len \in Nat
      BY <2>1
    <3>7. e.live \in BOOLEAN
      BY <2>1, Zenon
    <3>6. e.blobs \in Seq(Seq(Row))
      BY <2>1, <3>1, Zenon
    <3> QED BY <2>1, <3>2, <3>4, <3>5, <3>6, <3>7 DEF IsDisk
  <2>6. \A h, w : MapFits(e.staging, h, w) /\ IndexFits(e, w)
    BY <2>1, <2>9 DEF MapFits, IndexFits
  <2> QED BY <2>1, <2>2, <2>4, <2>5, <2>6
<1> QED BY <1>1, <1>2 DEF IsDisk

(* The elements of a concatenation. *)
LEMMA ConcatProps ==
    ASSUME NEW S, NEW s \in Seq(S), NEW t \in Seq(S)
    PROVE  /\ s \o t \in Seq(S) /\ Len(s \o t) = Len(s) + Len(t)
           /\ Len(s) \in Nat /\ Len(t) \in Nat
           /\ \A k \in 1 .. Len(s) : (s \o t)[k] = s[k]
           /\ \A k \in 1 .. Len(t) : (s \o t)[Len(s) + k] = t[k]
OBVIOUS

(* A sequence with one element more. *)
LEMMA OneMore ==
    ASSUME NEW c \in Seq(Nat), NEW s \in Seq(Nat)
    PROVE  Len(s) = 1 => /\ c \o s \in Seq(Nat)
                         /\ Len(c \o s) = Len(c) + 1
                         /\ (c \o s)[Len(c \o s)] = s[1]
<1> DEFINE l == c \o s
<1>1. /\ l \in Seq(Nat) /\ Len(l) = Len(c) + Len(s) /\ Len(c) \in Nat
      /\ \A k \in 1 .. Len(s) : l[Len(c) + k] = s[k]
  BY ConcatProps
<1> HIDE DEF l
<1>2. Len(s) = 1 => l[Len(c) + 1] = s[1]
  BY <1>1
<1>3. Len(s) = 1 => Len(l) = Len(c) + 1 /\ l[Len(l)] = s[1]
  BY <1>1, <1>2
<1> QED BY <1>1, <1>3 DEF l

(* A lookup only adds to the decoded batches, within the cache's size. *)
LEMMA LoadedProps ==
    ASSUME IsDisk(disk), NEW k
    PROVE  /\ DecodedBy(k) \subseteq Nat /\ IsFiniteSet(DecodedBy(k))
           /\ Cardinality(DecodedBy(k)) <= 1
           /\ Loaded(disk.cache, k) \in Seq(Nat)
           /\ Len(Loaded(disk.cache, k)) <= SpillBatchCache
           /\ DecodedBy(k) \subseteq ToSet(disk.cache) =>
                Loaded(disk.cache, k) = disk.cache
           /\ DecodedBy(k) \subseteq ToSet(Loaded(disk.cache, k))
<1> DEFINE D == DecodedBy(k)
           c == disk.cache
           missed == D \ ToSet(c)
           s == SetToSeq(missed)
<1>1. c \in Seq(Nat) /\ Len(c) \in Nat /\ Len(c) <= SpillBatchCache
      /\ SpillBatchCache \in Nat \ {0}
  BY ConstantsAssumption DEF IsDisk
<1>2. D = {} \/ \E b \in Nat : D = {b}
  <2>1. \A j \in DOMAIN disk.index : disk.index[j] \in IndexEntry
    BY DEF IsDisk, IsMap
  <2>2. \A j \in DOMAIN disk.index : disk.index[j].kind = "data" =>
           disk.index[j].blob \in Nat
    BY <2>1, EntryFields
  <2> QED BY <2>2 DEF DecodedBy
<1> HIDE DEF D
<1>3. IsFiniteSet(D) /\ D \subseteq Nat /\ Cardinality(D) <= 1
  <2>1. CASE D = {}
    BY <2>1, FS_EmptySet
  <2>2. ASSUME NEW b \in Nat, D = {b}
        PROVE  IsFiniteSet(D) /\ D \subseteq Nat /\ Cardinality(D) <= 1
    <3>1. IsFiniteSet({b}) /\ Cardinality({b}) = 1
      BY FS_Singleton
    <3> QED BY <2>2, <3>1
  <2> QED BY <1>2, <2>1, <2>2
<1> HIDE DEF c
<1>4. CASE missed = {}
  <2>1. s = << >>
    <3>1. s \in Seq({}) /\ ToSet(s) = {}
      BY <1>4, SetToSeqProps, FS_EmptySet
    <3> QED BY <3>1
  <2>2. Loaded(c, k) = IF Len(c \o s) > SpillBatchCache THEN Tail(c \o s)
                       ELSE c \o s
    BY DEF Loaded, D
  <2>3. c \o s = c
    <3> HIDE DEF s
    <3> QED BY <1>1, <2>1
  <2>4. Loaded(c, k) = c
    <3> HIDE DEF s, missed
    <3> QED BY <1>1, <2>2, <2>3
  <2> QED BY <1>1, <1>3, <1>4, <2>4 DEF D, c
<1>5. CASE missed # {}
  <2>1. PICK b \in Nat : D = {b} /\ missed = {b} /\ b \notin ToSet(c)
    BY <1>2, <1>5
  <2>2. IsFiniteSet({b}) /\ Cardinality({b}) = 1
    BY FS_Singleton
  <2>3. s \in Seq({b}) /\ ToSet(s) = {b} /\ IsInjective(s)
    BY <2>1, <2>2, SetToSeqProps
  <2>4. Len(s) = 1
    BY <2>2, <2>3, ElementsCount
  <2>5. s \in Seq(Nat) /\ s[1] = b
    BY <2>3, <2>4
  <2> HIDE DEF s, missed
  <2>10. Loaded(c, k) = IF Len(c \o s) > SpillBatchCache THEN Tail(c \o s)
                        ELSE c \o s
    BY DEF Loaded, D, s, missed
  <2> HIDE DEF s
  <2> DEFINE l == c \o s
  <2>6. l \in Seq(Nat) /\ Len(l) = Len(c) + 1 /\ l[Len(l)] = b
    BY <1>1, <2>4, <2>5, OneMore
  <2>7. Loaded(c, k) = IF Len(l) > SpillBatchCache THEN Tail(l) ELSE l
    BY <2>10
  <2> HIDE DEF l
  <2>8. CASE Len(l) > SpillBatchCache
    <3>1. Len(l) >= 2
      BY <1>1, <2>6, <2>8
    <3>2. /\ Tail(l) \in Seq(Nat) /\ Len(Tail(l)) = Len(c)
          /\ Len(c) \in DOMAIN Tail(l) /\ Tail(l)[Len(c)] = b
      BY <1>1, <2>6, <3>1
    <3>3. b \in ToSet(Tail(l))
      BY <3>2 DEF ToSet
    <3> QED BY <1>1, <1>3, <2>1, <2>7, <2>8, <3>2, <3>3 DEF D, c
  <2>9. CASE ~(Len(l) > SpillBatchCache)
    <3>1. b \in ToSet(l)
      <4>1. Len(l) \in DOMAIN l
        BY <1>1, <2>6
      <4> QED BY <2>6, <4>1 DEF ToSet
    <3> QED BY <1>1, <1>3, <2>1, <2>6, <2>7, <2>9, <3>1 DEF D, c
  <2> QED BY <2>8, <2>9
<1> QED BY <1>4, <1>5

(* A lookup on disk changes the cache of decoded batches only. *)
LEMMA ProbedProps ==
    ASSUME IsDisk(disk), NEW k
    PROVE  /\ IsDisk(Probed(k)) /\ Probed(k).live = disk.live
           /\ Probed(k).staging = disk.staging /\ Probed(k).index = disk.index
           /\ Probed(k).blobs = disk.blobs /\ Probed(k).len = disk.len
           /\ Probed(k).cache = Loaded(disk.cache, k)
           /\ DiskKeys(Probed(k)) = DiskKeys(disk)
           /\ \A w : IndexFits(disk, w) => IndexFits(Probed(k), w)
<1> DEFINE e == Probed(k)
           l == Loaded(disk.cache, k)
<1>1. l \in Seq(Nat) /\ Len(l) <= SpillBatchCache
  BY LoadedProps
<1> HIDE DEF l
<1>2. e = [disk EXCEPT !.cache = l]
  BY DEF Probed, l
<1>3. /\ IsDiskRecord(e)
      /\ e.live = disk.live /\ e.staging = disk.staging
      /\ e.index = disk.index /\ e.blobs = disk.blobs /\ e.len = disk.len
      /\ e.cache = l
  BY <1>2 DEF IsDisk, IsDiskRecord
<1> HIDE DEF e
<1>4. DiskKeys(e) = DiskKeys(disk)
  BY <1>3 DEF DiskKeys
<1>5. IsDisk(e)
  BY <1>1, <1>3, <1>4 DEF IsDisk
<1>6. \A w : IndexFits(disk, w) => IndexFits(e, w)
  BY <1>3 DEF IndexFits
<1> QED BY <1>3, <1>4, <1>5, <1>6 DEF e, l

-----------------------------------------------------------------------------
(* Steps by what they leave alone. *)

(* What a sequence over a set holds is of the set. *)
LEMMA ElementIn ==
    ASSUME NEW S, NEW s \in Seq(S), NEW i \in DOMAIN s
    PROVE  s[i] \in S
OBVIOUS

(* A record of any place holds its batch. *)
LEMMA FreshBatch ==
    ASSUME PlacesType, PlacesFit, NEW c \in Batches, ~Held(c), NEW rows
    PROVE  /\ MapFits(mem, [heap EXCEPT ![c] = rows], written)
           /\ MapFits(disk.staging, [heap EXCEPT ![c] = rows], written)
           /\ SpillFits(spilled, [heap EXCEPT ![c] = rows], written)
<1> DEFINE g == [heap EXCEPT ![c] = rows]
<1>1. \A b \in Batches : b # c => g[b] = heap[b]
  BY DEF PlacesType
<1> HIDE DEF g
<1>2. ASSUME NEW k \in DOMAIN mem
      PROVE  k \in DOMAIN written /\ RecordFits(g, mem[k], written[k])
  <2>1. mem[k] \in BufferedRecord /\ RecordFits(heap, mem[k], written[k])
        /\ k \in DOMAIN written
    BY DEF PlacesType, PlacesFit, IsMap, MapFits
  <2>2. ~RefersTo(mem[k], c)
    BY DEF Held, KeysOf
  <2>3. mem[k].kind = "ref" => g[mem[k].batch] = heap[mem[k].batch]
    BY <1>1, <2>1, <2>2, RecordFields DEF RefersTo
  <2> QED BY <2>1, <2>3, FitsSameBatch
<1>3. ASSUME NEW k \in DOMAIN disk.staging
      PROVE  k \in DOMAIN written /\ RecordFits(g, disk.staging[k], written[k])
  <2> DEFINE r == disk.staging[k]
  <2>1. r \in BufferedRecord /\ RecordFits(heap, r, written[k])
        /\ k \in DOMAIN written
    BY DEF PlacesType, PlacesFit, IsDisk, IsMap, MapFits, BufferedRecord
  <2>2. ~RefersTo(r, c)
    BY DEF Held
  <2>3. r.kind = "ref" => g[r.batch] = heap[r.batch]
    BY <1>1, <2>1, <2>2, RecordFields DEF RefersTo
  <2> QED BY <2>1, <2>3, FitsSameBatch
<1>4. ASSUME NEW i \in DOMAIN spilled
      PROVE  /\ spilled[i].key \in DOMAIN written
             /\ RecordFits(g, spilled[i].rec, written[spilled[i].key])
  <2> DEFINE r == spilled[i].rec
             v == written[spilled[i].key]
  <2>1. r \in BufferedRecord
    <3>1. spilled \in Seq([key : Keys, rec : RefRec])
      BY DEF PlacesType
    <3>2. spilled[i] \in [key : Keys, rec : RefRec]
      BY <3>1, ElementIn, Zenon
    <3> QED BY <3>2 DEF BufferedRecord
  <2>4. RecordFits(heap, r, v) /\ spilled[i].key \in DOMAIN written
    BY DEF PlacesFit, SpillFits
  <2>2. ~RefersTo(r, c)
    BY DEF Held
  <2>3. r.kind = "ref" => g[r.batch] = heap[r.batch]
    BY <1>1, <2>1, <2>2, RecordFields DEF RefersTo
  <2> HIDE DEF r, v
  <2>5. RecordFits(g, r, v)
    BY <2>3, <2>4, FitsSameBatch
  <2> QED BY <2>4, <2>5 DEF r, v
<1> QED BY <1>2, <1>3, <1>4 DEF g, MapFits, SpillFits

(* While nothing is drained, what the drain gave out stays empty. *)
LEMMA OpenStep ==
    ASSUME PlacesInv, Undrained, Undrained',
           UNCHANGED <<out, decodes, flushErr>>,
           PlacesType', PlacesFit', Phases', pc' \in Pcs,
           block' \in [batch : Batches \cup {NoBatch}, next : Nat \ {0}],
           clock' \in 0 .. MaxClock,
           DOMAIN written' \subseteq
              DOMAIN mem' \cup SpillKeys(spilled') \cup DiskKeys(disk'),
           disk'.len = Cardinality(DiskKeys(disk'))
    PROVE  PlacesInv'
<1>1. decodes' = << >> /\ out' = [k \in Keys |-> << >>]
  BY DEF PlacesInv, Whole
<1>2. CallerType'
  BY DEF PlacesInv, CallerType
<1>3. Whole'
  BY <1>1 DEF Whole
<1>4. Drained'
  BY DEF Undrained, Drained
<1>5. DecodedOnce'
  <2>1. DOMAIN decodes' = {}
    BY <1>1
  <2> QED BY <2>1 DEF DecodedOnce, IsInjective, ToSet
<1> QED BY <1>2, <1>3, <1>4, <1>5 DEF PlacesInv

(* A step that only moves on to another phase. *)
LEMMA QuietStep ==
    ASSUME PlacesInv,
           UNCHANGED <<mem, disk, heap, spilled, written, block, clock, out,
                       decodes, flushErr>>,
           pc' \in Pcs, Phases', Undrained' => Undrained, Drained'
    PROVE  PlacesInv'
<1>1. PlacesType' /\ CallerType' /\ PlacesFit' /\ DecodedOnce'
  BY DEF PlacesInv, PlacesType, CallerType, PlacesFit, DecodedOnce
<1>2. Whole'
  BY DEF PlacesInv, Whole
<1> QED BY <1>1, <1>2 DEF PlacesInv

(* An empty sequence has no keys in transit. *)
LEMMA NothingInTransit ==
    ASSUME NEW sp, sp = << >>
    PROVE  SpillKeys(sp) = {} /\ DOMAIN sp = {}
BY DEF SpillKeys

(* When nothing is in transit, a drain starts with every written key there. *)
LEMMA DrainStarts ==
    ASSUME PlacesInv, Undrained, spilled = << >>
    PROVE  \A k \in Keys :
              out[k] = IF k \in DOMAIN written \ (DOMAIN mem \cup DiskKeys(disk))
                       THEN <<written[k]>> ELSE << >>
<1>1. SpillKeys(spilled) = {}
  BY NothingInTransit
<1>2. DOMAIN written \subseteq DOMAIN mem \cup DiskKeys(disk)
  BY <1>1 DEF PlacesInv, Whole
<1>3. \A k \in Keys : out[k] = << >>
  BY DEF PlacesInv, Whole
<1> QED BY <1>2, <1>3

(* An error ends the read wherever it is. *)
LEMMA FailStep ==
    ASSUME PlacesInv, NEW why, FailRead(why)
    PROVE  PlacesInv'
<1>1. /\ UNCHANGED <<mem, disk, heap, spilled, written, block, clock, out,
                     decodes, flushErr>>
      /\ pc' = "failed"
  BY DEF FailRead, bytesVars, evictVars, callerVars, drainVars
<1>2. pc' \in Pcs /\ ~Undrained' /\ Drained' /\ Phases'
  BY <1>1 DEF Pcs, Undrained, Drained, Phases, PlacesInv
<1> QED BY <1>1, <1>2, QuietStep

(* The steps that only choose what to do next. *)
LEMMA ChooseStep ==
    ASSUME PlacesInv,
           \/ CheckBudget \/ CheckCap \/ AcceptFootprint \/ SpillDone
           \/ EndScan \/ SparseDone \/ Over
    PROVE  PlacesInv'
<1>1. UNCHANGED <<mem, disk, heap, spilled, written, block, clock, out,
                  decodes, flushErr>>
  BY DEF CheckBudget, CheckCap, AcceptFootprint, SpillDone, EndScan,
         SparseDone, Over, StartEviction, bytesVars, evictVars, readVars,
         callerVars, drainVars, vars
<1>2. CASE Over
  <2>1. pc' = pc /\ after' = after
    BY <1>2 DEF Over, vars
  <2>2. pc' \in Pcs /\ Phases' /\ (Undrained' => Undrained) /\ Drained'
    BY <1>1, <2>1 DEF PlacesInv, CallerType, Phases, Undrained, Drained
  <2> QED BY <1>1, <2>2, QuietStep
<1>3. CASE SpillDone
  <2>1. /\ pc = "spill" /\ spilled = << >> /\ pc' = "flush"
        /\ after' = "evict"
    BY <1>3 DEF SpillDone
  <2>2. pc' \in Pcs /\ Phases' /\ (Undrained' => Undrained) /\ Drained'
    BY <1>1, <2>1 DEF PlacesInv, Phases, Undrained, Drained, Pcs
  <2> QED BY <1>1, <2>2, QuietStep
<1>4. CASE CheckBudget \/ CheckCap \/ AcceptFootprint \/ EndScan \/ SparseDone
  <2>1. /\ pc \in {"soft", "cap", "capped", "scan", "sparse"}
        /\ pc' \in {"evict", "cap", "scan", "sparse", "base"}
    BY <1>4 DEF CheckBudget, CheckCap, AcceptFootprint, EndScan, SparseDone,
                StartEviction
  <2>2. pc' \in Pcs /\ Phases' /\ (Undrained' => Undrained) /\ Drained'
    BY <1>1, <2>1 DEF PlacesInv, Phases, Undrained, Drained, Pcs
  <2> QED BY <1>1, <2>2, QuietStep
<1> QED BY <1>2, <1>3, <1>4

(* The end of a flush, and the start and the end of the drain. *)
LEMMA FlushDoneStep ==
    ASSUME PlacesInv, FlushDone
    PROVE  PlacesInv'
<1>1. /\ UNCHANGED <<mem, disk, heap, spilled, written, block, clock, out,
                     decodes, flushErr, after>>
      /\ pc = "flush" /\ DOMAIN disk.staging = {} /\ pc' = after
  BY DEF FlushDone, bytesVars, evictVars, readVars, callerVars, drainVars
<1>2. after \in {"scan", "spill", "evict", "drain"} /\ ~flushErr
      /\ (after # "spill" => spilled = << >>) /\ Undrained
      /\ (spilled # << >> => disk.live)
  BY <1>1 DEF PlacesInv, Phases, Undrained
<1>3. pc' \in Pcs /\ Phases'
  BY <1>1, <1>2 DEF Phases, Pcs
<1>4. Drained'
  <2>1. CASE after = "drain"
    BY <1>1, <1>2, <2>1, DrainStarts DEF Drained
  <2>2. CASE after # "drain"
    BY <1>1, <1>2, <2>2 DEF Drained
  <2> QED BY <2>1, <2>2
<1> QED BY <1>1, <1>2, <1>3, <1>4, QuietStep

(* The drain starts with all that was written. *)
LEMMA StartDrainStep ==
    ASSUME PlacesInv, StartDrain
    PROVE  PlacesInv'
<1>1. /\ UNCHANGED <<mem, disk, heap, spilled, written, block, clock, out,
                     decodes, flushErr>>
      /\ pc = "base"
  BY DEF StartDrain, bytesVars, evictVars, readVars, callerVars, drainVars
<1>2. spilled = << >> /\ ~flushErr /\ Undrained
  BY <1>1 DEF PlacesInv, Phases, Undrained
<1>3. CASE MapLen = 0
  <2>1. pc' = "done"
    BY <1>3 DEF StartDrain
  <2>2. DOMAIN mem \subseteq Keys /\ IsFiniteSet(DOMAIN mem)
        /\ IsFiniteSet(DiskKeys(disk)) /\ disk.len = Cardinality(DiskKeys(disk))
    <3>1. DOMAIN mem \subseteq Keys
      BY DEF PlacesInv, PlacesType, IsMap
    <3>2. IsFiniteSet(DOMAIN mem)
      BY <3>1, FS_Subset, ConstantsAssumption
    <3> QED BY <1>2, <3>1, <3>2, DiskKeysFinite DEF PlacesInv, PlacesType, Whole
  <2>3. Cardinality(DOMAIN mem) \in Nat /\ Cardinality(DiskKeys(disk)) \in Nat
    BY <2>2, FS_CardinalityType
  <2>4. Cardinality(DOMAIN mem) = 0 /\ Cardinality(DiskKeys(disk)) = 0
    BY <1>3, <2>2, <2>3 DEF MapLen
  <2>5. DOMAIN mem = {} /\ DiskKeys(disk) = {}
    BY <2>2, <2>4, FS_EmptySet
  <2>6. DOMAIN disk.staging = {}
    BY <2>5 DEF DiskKeys
  <2>7. pc' \in Pcs /\ Phases' /\ (Undrained' => Undrained)
    BY <1>1, <1>2, <2>1, <2>5, <2>6 DEF Phases, Pcs
  <2>8. Drained'
    BY <1>1, <1>2, DrainStarts DEF Drained
  <2> QED BY <1>1, <2>7, <2>8, QuietStep
<1>4. CASE MapLen # 0 /\ disk.live
  <2>1. pc' = "flush" /\ after' = "drain"
    BY <1>4 DEF StartDrain
  <2>2. pc' \in Pcs /\ Phases' /\ (Undrained' => Undrained) /\ Drained'
    BY <1>1, <1>2, <2>1 DEF Phases, Pcs, Drained
  <2> QED BY <1>1, <2>2, QuietStep
<1>5. CASE MapLen # 0 /\ ~disk.live
  <2>1. pc' = "drain"
    BY <1>5 DEF StartDrain
  <2>2. DOMAIN disk.staging = {}
    BY <1>5 DEF PlacesInv, PlacesType, IsDisk, DiskKeys
  <2>3. pc' \in Pcs /\ Phases' /\ (Undrained' => Undrained)
    BY <1>1, <1>2, <2>1, <2>2 DEF Phases, Pcs
  <2>4. Drained'
    BY <1>1, <1>2, DrainStarts DEF Drained
  <2> QED BY <1>1, <2>3, <2>4, QuietStep
<1> QED BY <1>3, <1>4, <1>5

(* It ends when both tiers are empty. *)
LEMMA DrainDoneStep ==
    ASSUME PlacesInv, DrainDone
    PROVE  PlacesInv'
<1>1. /\ UNCHANGED <<mem, disk, heap, spilled, written, block, clock, out,
                     decodes, flushErr>>
      /\ pc = "drain" /\ pc' = "done" /\ DOMAIN mem = {} /\ ~flushErr
      /\ DOMAIN disk.index = {}
  BY DEF DrainDone, bytesVars, evictVars, readVars, callerVars, drainVars
<1>2. spilled = << >> /\ DOMAIN disk.staging = {}
  BY <1>1 DEF PlacesInv, Phases
<1>3. DiskKeys(disk) = {}
  BY <1>1, <1>2 DEF DiskKeys
<1>4. pc' \in Pcs /\ Phases' /\ ~Undrained'
  BY <1>1, <1>2, <1>3 DEF Phases, Pcs, Undrained
<1>5. Drained'
  BY <1>1 DEF PlacesInv, Drained
<1> QED BY <1>1, <1>4, <1>5, QuietStep

(* Enough for the places to be right once unheld batches are freed. *)
LEMMA Settle ==
    ASSUME NEW h \in [Batches -> Seq(Row)], Drop(h),
           IsMap(mem', BufferedRecord), IsDisk(disk'),
           spilled' \in Seq([key : Keys, rec : RefRec]),
           IsMap(written', Sense),
           MapFits(mem', h, written'), MapFits(disk'.staging, h, written'),
           SpillFits(spilled', h, written'),
           ~flushErr' => IndexFits(disk', written'),
           Apart(mem', disk', spilled')
    PROVE  PlacesType' /\ PlacesFit'
<1>1. DOMAIN mem' \subseteq Keys /\ mem' \in [DOMAIN mem' -> BufferedRecord]
  BY DEF IsMap
<1>2. disk'.staging \in [DOMAIN disk'.staging -> BufferedRecord]
  BY DEF IsMap, IsDisk, BufferedRecord
<1>3. ASSUME NEW i \in DOMAIN spilled'
      PROVE  spilled'[i].rec \in BufferedRecord
  <2>1. spilled'[i] \in [key : Keys, rec : RefRec]
    BY ElementIn, Zenon
  <2> QED BY <2>1 DEF BufferedRecord
<1>4. /\ heap' \in [Batches -> Seq(Row)]
      /\ MapFits(mem', heap', written')
      /\ MapFits(disk'.staging, heap', written')
      /\ SpillFits(spilled', heap', written')
  BY <1>1, <1>2, <1>3, DropKeeps
<1> QED BY <1>4 DEF PlacesType, PlacesFit

(* Freeing batches is all that happens to the places. *)
LEMMA SettleUnchanged ==
    ASSUME PlacesInv, Drop(heap), UNCHANGED <<mem, disk, spilled, written,
                                              flushErr>>
    PROVE  PlacesType' /\ PlacesFit'
<1>1. /\ heap \in [Batches -> Seq(Row)]
      /\ IsMap(mem', BufferedRecord) /\ IsDisk(disk')
      /\ spilled' \in Seq([key : Keys, rec : RefRec])
      /\ IsMap(written', Sense)
  BY DEF PlacesInv, PlacesType
<1>2. /\ MapFits(mem', heap, written') /\ MapFits(disk'.staging, heap, written')
      /\ SpillFits(spilled', heap, written')
      /\ ~flushErr' => IndexFits(disk', written')
      /\ Apart(mem', disk', spilled')
  BY DEF PlacesInv, PlacesFit
<1> QED BY <1>1, <1>2, Settle

-----------------------------------------------------------------------------
(* The scan. *)

(* A new block goes to an address nothing refers to. *)
LEMMA DecodeBatchStep ==
    ASSUME PlacesInv, DecodeBatch
    PROVE  PlacesInv'
<1>1. PICK n \in BlockSizes, s \in Schemas, b \in {c \in Batches : ~Held(c)} :
        /\ clock + n <= MaxClock
        /\ clock' = clock + n
        /\ block' = [batch |-> b, next |-> 1]
        /\ heap' = [heap EXCEPT ![b] = [i \in 1 .. n |-> <<clock + i, s>>]]
  BY DEF DecodeBatch
<1>2. /\ UNCHANGED <<mem, disk, spilled, written, out, decodes, flushErr, pc,
                     after>>
      /\ pc = "scan"
  BY DEF DecodeBatch, bytesVars, evictVars, drainVars
<1>3. n \in Nat /\ MaxClock \in Nat /\ clock \in 0 .. MaxClock
  BY ConstantsAssumption DEF PlacesInv, CallerType
<1> DEFINE rows == [i \in 1 .. n |-> <<clock + i, s>>]
<1>4. rows \in Seq(Row)
  <2>1. \A i \in 1 .. n : <<clock + i, s>> \in Row
    BY <1>1, <1>3 DEF Row
  <2> QED BY <1>3, <2>1
<1> HIDE DEF rows
<1>5. heap' = [heap EXCEPT ![b] = rows]
  BY <1>1 DEF rows
<1>6. /\ MapFits(mem, [heap EXCEPT ![b] = rows], written)
      /\ MapFits(disk.staging, [heap EXCEPT ![b] = rows], written)
      /\ SpillFits(spilled, [heap EXCEPT ![b] = rows], written)
  BY FreshBatch DEF PlacesInv
<1>7. PlacesFit'
  BY <1>2, <1>5, <1>6 DEF PlacesInv, PlacesFit
<1>8. heap' \in [Batches -> Seq(Row)]
  BY <1>4, <1>5 DEF PlacesInv, PlacesType
<1>9. PlacesType'
  BY <1>2, <1>8 DEF PlacesInv, PlacesType
<1>10. block' \in [batch : Batches \cup {NoBatch}, next : Nat \ {0}]
       /\ clock' \in 0 .. MaxClock
  BY <1>1, <1>3
<1>11. Undrained /\ Undrained' /\ Phases' /\ pc' \in Pcs
  BY <1>2 DEF Undrained, Phases, PlacesInv, Pcs
<1>12. /\ DOMAIN written' \subseteq
            DOMAIN mem' \cup SpillKeys(spilled') \cup DiskKeys(disk')
       /\ disk'.len = Cardinality(DiskKeys(disk'))
  BY <1>2, <1>11 DEF PlacesInv, Whole
<1> QED BY <1>2, <1>7, <1>9, <1>10, <1>11, <1>12, OpenStep

(* The ends of a block and of an eviction pass only let go of batches. *)
LEMMA LetGoStep ==
    ASSUME PlacesInv, EndBatch \/ EvictionDone
    PROVE  PlacesInv'
<1>1. /\ UNCHANGED <<mem, disk, spilled, written, out, decodes, flushErr,
                     clock, after>>
      /\ Drop(heap)
  BY DEF EndBatch, EvictionDone, bytesVars, evictVars, readVars, callerVars,
         drainVars
<1>2. PlacesType' /\ PlacesFit'
  BY <1>1, SettleUnchanged
<1>3. pc \in {"scan", "evict"} /\ pc' \in {"scan", "cap", "capped"}
  BY DEF EndBatch, EvictionDone
<1>4. block' \in [batch : Batches \cup {NoBatch}, next : Nat \ {0}]
  <2>1. CASE EndBatch
    BY <2>1 DEF EndBatch
  <2>2. CASE EvictionDone
    BY <2>2 DEF EvictionDone, readVars, callerVars, PlacesInv, CallerType
  <2> QED BY <2>1, <2>2
<1>5. Undrained /\ Undrained' /\ Phases' /\ pc' \in Pcs
  BY <1>1, <1>3 DEF Undrained, Phases, PlacesInv, Pcs
<1>6. /\ DOMAIN written' \subseteq
            DOMAIN mem' \cup SpillKeys(spilled') \cup DiskKeys(disk')
      /\ disk'.len = Cardinality(DiskKeys(disk'))
  BY <1>1, <1>5 DEF PlacesInv, Whole
<1>7. clock' \in 0 .. MaxClock
  BY <1>1 DEF PlacesInv, CallerType
<1> QED BY <1>1, <1>2, <1>4, <1>5, <1>6, <1>7, OpenStep

(* A record stored in memory. *)
LEMMA StoreInMemory ==
    ASSUME PlacesInv, pc = "scan", NEW k \in Keys, NEW r \in BufferedRecord,
           r.kind = "ref" => r.row \in DOMAIN heap[r.batch],
           mem' = With(mem, k, r), UNCHANGED <<disk, spilled, flushErr>>,
           k \notin DiskKeys(disk), Drop(heap),
           written' = With(written, k, Meaning(r))
    PROVE  /\ PlacesType' /\ PlacesFit'
           /\ DOMAIN written' \subseteq
                 DOMAIN mem' \cup SpillKeys(spilled') \cup DiskKeys(disk')
           /\ disk'.len = Cardinality(DiskKeys(disk'))
<1> DEFINE v == Meaning(r)
<1>1. v = MeaningIn(heap, r)
  BY MeaningNow
<1>2. heap \in [Batches -> Seq(Row)] /\ IsMap(mem, BufferedRecord)
      /\ IsMap(written, Sense) /\ IsDisk(disk)
      /\ spilled' \in Seq([key : Keys, rec : RefRec])
  BY DEF PlacesInv, PlacesType
<1>3. v \in Sense /\ RecordFits(heap, r, v)
  BY <1>1, <1>2, MeaningType DEF RecordFits
<1> HIDE DEF v
<1>4. written' = With(written, k, v)
  BY DEF v
<1>5. IsMap(mem', BufferedRecord) /\ IsMap(written', Sense)
  BY <1>2, <1>3, <1>4, WithMap
<1>6. /\ DOMAIN written' = DOMAIN written \cup {k} /\ written'[k] = v
      /\ \A j \in DOMAIN written \ {k} :
            j \in DOMAIN written' /\ written'[j] = written[j]
  BY <1>4 DEF With
<1>7. /\ DOMAIN mem' = DOMAIN mem \cup {k} /\ mem'[k] = r
      /\ \A j \in DOMAIN mem \ {k} : mem'[j] = mem[j]
  BY DEF With
<1>8. spilled = << >> /\ SpillKeys(spilled) = {} /\ DOMAIN spilled = {}
  <2>1. spilled = << >>
    BY DEF PlacesInv, Phases
  <2> QED BY <2>1, NothingInTransit
<1>9. MapFits(mem', heap, written')
  BY <1>3, <1>6, <1>7 DEF PlacesInv, PlacesFit, MapFits
<1>10. MapFits(disk'.staging, heap, written')
  BY <1>6 DEF PlacesInv, PlacesFit, MapFits, DiskKeys
<1>11. SpillFits(spilled', heap, written')
  BY <1>8 DEF SpillFits
<1>12. ~flushErr' => IndexFits(disk', written')
  BY <1>6 DEF PlacesInv, PlacesFit, IndexFits, DiskKeys
<1>13. Apart(mem', disk', spilled')
  BY <1>7, <1>8 DEF PlacesInv, PlacesFit, Apart
<1>14. PlacesType' /\ PlacesFit'
  BY <1>2, <1>5, <1>9, <1>10, <1>11, <1>12, <1>13, Settle
<1>15. /\ DOMAIN written \subseteq
            DOMAIN mem \cup SpillKeys(spilled) \cup DiskKeys(disk)
       /\ disk.len = Cardinality(DiskKeys(disk))
  BY DEF PlacesInv, Whole, Undrained
<1>16. DOMAIN written' \subseteq
          DOMAIN mem' \cup SpillKeys(spilled') \cup DiskKeys(disk')
  BY <1>6, <1>7, <1>15
<1> QED BY <1>14, <1>15, <1>16

(* A record put on disk, by the caller or from a spilled batch. *)
LEMMA StoreOnDisk ==
    ASSUME PlacesInv, Undrained, NEW d, IsDisk(d), d.live,
           DiskKeys(d) = DiskKeys(disk),
           d.len = disk.len, MapFits(d.staging, heap, written),
           IndexFits(d, written),
           NEW k \in Keys, NEW r \in BufferedRecord,
           disk' = PutInto(d, k, r), UNCHANGED <<mem, flushErr>>,
           k \notin DOMAIN mem, Drop(heap),
           IsMap(written', Sense), k \in DOMAIN written',
           RecordFits(heap, r, written'[k]),
           \A j \in DOMAIN written \ {k} :
               j \in DOMAIN written' /\ written'[j] = written[j],
           DOMAIN written' = DOMAIN written \cup {k},
           spilled' \in Seq([key : Keys, rec : RefRec]),
           k \notin SpillKeys(spilled'), SpillKeys(spilled') \cup {k} =
                                         SpillKeys(spilled) \cup {k},
           SpillFits(spilled', heap, written),
           \A i, j \in DOMAIN spilled' :
               spilled'[i].key = spilled'[j].key => i = j
    PROVE  /\ PlacesType' /\ PlacesFit'
           /\ DOMAIN written' \subseteq
                 DOMAIN mem' \cup SpillKeys(spilled') \cup DiskKeys(disk')
           /\ disk'.len = Cardinality(DiskKeys(disk'))
<1>1. heap \in [Batches -> Seq(Row)] /\ IsMap(mem', BufferedRecord)
  BY DEF PlacesInv, PlacesType
<1>2. /\ DOMAIN written \subseteq
            DOMAIN mem \cup SpillKeys(spilled) \cup DiskKeys(disk)
      /\ disk.len = Cardinality(DiskKeys(disk))
  BY DEF PlacesInv, Whole
<1>3. /\ IsDisk(disk') /\ DiskKeys(disk') = DiskKeys(disk) \cup {k}
      /\ disk'.len = Cardinality(DiskKeys(disk'))
  BY <1>2, PutIntoType
<1>4. MapFits(disk'.staging, heap, written') /\ IndexFits(disk', written')
  BY PutIntoFits
<1>5. MapFits(mem', heap, written')
  BY DEF PlacesInv, PlacesFit, MapFits
<1>6. SpillFits(spilled', heap, written')
  <2> SUFFICES ASSUME NEW i \in DOMAIN spilled'
               PROVE  /\ spilled'[i].key \in DOMAIN written'
                      /\ RecordFits(heap, spilled'[i].rec,
                                    written'[spilled'[i].key])
    BY DEF SpillFits
  <2>1. spilled'[i].key # k
    BY DEF SpillKeys
  <2> QED BY <2>1 DEF SpillFits
<1>7. Apart(mem', disk', spilled')
  BY <1>3 DEF PlacesInv, PlacesFit, Apart
<1>8. PlacesType' /\ PlacesFit'
  BY <1>1, <1>3, <1>4, <1>5, <1>6, <1>7, Settle
<1>9. DOMAIN written' \subseteq
          DOMAIN mem' \cup SpillKeys(spilled') \cup DiskKeys(disk')
  BY <1>2, <1>3
<1> QED BY <1>3, <1>8, <1>9

(* What a lookup finds is a record whose row is there, and means what was   *)
(* written.                                                                 *)
LEMMA GetFits ==
    ASSUME PlacesInv, ~flushErr, NEW k, ContainsKey(k)
    PROVE  /\ Get(k) \in BufferedRecord /\ k \in DOMAIN written
           /\ RecordFits(heap, Get(k), written[k])
<1>1. CASE k \in DOMAIN mem
  BY <1>1 DEF Get, PlacesInv, PlacesType, PlacesFit, IsMap, MapFits
<1>2. CASE k \notin DOMAIN mem /\ k \in DOMAIN disk.staging
  BY <1>2 DEF Get, DiskGet, PlacesInv, PlacesType, PlacesFit, IsDisk, IsMap,
              MapFits, BufferedRecord
<1>3. CASE k \notin DOMAIN mem /\ k \notin DOMAIN disk.staging
  <2> DEFINE e == disk.index[k]
             bl == disk.blobs
  <2>1. k \in DOMAIN disk.index
    BY <1>3 DEF ContainsKey, OnDisk
  <2>2. k \in DOMAIN written /\ EntryFits(bl, e, written[k])
    BY <1>3, <2>1 DEF PlacesInv, PlacesFit, IndexFits
  <2>3. e \in IndexEntry /\ bl \in Seq(Seq(Row))
    BY <2>1 DEF PlacesInv, PlacesType, IsDisk, IsMap
  <2>4. Get(k) = RecordFromEntry(k)
    BY <1>3 DEF Get, DiskGet
  <2>5. Get(k) = IF e.kind = "delete" THEN NewDelete(e.ord, e.key)
                 ELSE NewData(bl[e.blob][e.row], e.ord, "map")
    BY <2>4 DEF RecordFromEntry
  <2> HIDE DEF e, bl
  <2>6. CASE e.kind = "delete"
    <3>1. Get(k) = NewDelete(e.ord, e.key)
      BY <2>5, <2>6
    <3>2. Get(k) \in BufferedRecord
      BY <2>3, <2>6, <3>1, EntryFields DEF NewDelete, BufferedRecord, DeleteRec
    <3>3. RecordFits(heap, Get(k), written[k])
      BY <2>2, <2>6, <3>1 DEF RecordFits, MeaningIn, NewDelete, EntryFits,
                              EntryMeaning
    <3> QED BY <2>2, <3>2, <3>3
  <2>7. CASE e.kind = "data"
    <3>1. Get(k) = NewData(bl[e.blob][e.row], e.ord, "map")
      BY <2>5, <2>7
    <3>2. e.blob \in DOMAIN bl /\ e.row \in DOMAIN bl[e.blob]
      BY <2>2, <2>7 DEF EntryFits
    <3>3. bl[e.blob] \in Seq(Row)
      BY <2>3, <3>2, ElementIn
    <3>4. bl[e.blob][e.row] \in Row
      BY <3>2, <3>3, ElementIn
    <3>5. Get(k) \in BufferedRecord
      BY <2>3, <3>1, <3>4, EntryFields DEF NewData, BufferedRecord, OwnedRec
    <3>6. RecordFits(heap, Get(k), written[k])
      BY <2>2, <2>7, <3>1 DEF RecordFits, MeaningIn, RowIn, NewData, EntryFits,
                              EntryMeaning
    <3> QED BY <2>2, <3>5, <3>6
  <2> QED BY <2>3, <2>6, <2>7, EntryFields
<1> QED BY <1>1, <1>2, <1>3

(* insert and merge_in_place, whichever way they go. *)
LEMMA StoreStep ==
    ASSUME PlacesInv, pc = "scan", NEW k \in Keys, NEW r \in BufferedRecord,
           r.kind = "ref" => r.row \in DOMAIN heap[r.batch],
           Store(k, r), Drop(heap),
           block' \in [batch : Batches \cup {NoBatch}, next : Nat \ {0}],
           clock' \in 0 .. MaxClock
    PROVE  PlacesInv'
<1>1. /\ written' = With(written, k, Meaning(r))
      /\ UNCHANGED <<spilled, out, decodes, flushErr>>
  BY DEF Store, evictVars, drainVars
<1>2. Undrained /\ spilled = << >> /\ ~flushErr
  BY DEF PlacesInv, Phases, Undrained
<1>3. SpillKeys(spilled) = {} /\ DOMAIN spilled = {}
  BY <1>2, NothingInTransit
<1>4. CASE \/ MergeInPlace(k, r) \/ InsertOver(k, r) \/ InsertInMemory(k, r)
  <2>1. mem' = With(mem, k, r) /\ disk' = disk /\ pc' = "soft"
    BY <1>4 DEF MergeInPlace, InsertOver, InsertInMemory
  <2>2. k \notin DiskKeys(disk)
    BY <1>4 DEF MergeInPlace, InsertOver, InsertInMemory, ContainsKey, OnDisk,
                DiskKeys, PlacesInv, PlacesFit, Apart
  <2>3. /\ PlacesType' /\ PlacesFit'
        /\ DOMAIN written' \subseteq
              DOMAIN mem' \cup SpillKeys(spilled') \cup DiskKeys(disk')
        /\ disk'.len = Cardinality(DiskKeys(disk'))
    BY <1>1, <2>1, <2>2, StoreInMemory
  <2>4. Undrained' /\ Phases' /\ pc' \in Pcs
    BY <1>1, <1>2, <2>1 DEF Undrained, Phases, Pcs
  <2> QED BY <1>1, <1>2, <2>3, <2>4, OpenStep
<1>5. CASE InsertOnDisk(k, r) \/ InsertSpilled(k, r)
  <2>1. mem' = mem /\ k \notin DOMAIN mem
        /\ ((pc' = "flush" /\ after' = "scan") \/ pc' = "scan")
    BY <1>5 DEF InsertOnDisk, InsertSpilled, FlushWhenFull, ContainsKey
  <2>2. IsDisk(disk) /\ heap \in [Batches -> Seq(Row)] /\ IsMap(written, Sense)
        /\ MapFits(disk.staging, heap, written) /\ IndexFits(disk, written)
    BY <1>2 DEF PlacesInv, PlacesType, PlacesFit
  <2>3. \E d : /\ IsDisk(d) /\ d.live /\ DiskKeys(d) = DiskKeys(disk)
               /\ d.len = disk.len /\ MapFits(d.staging, heap, written)
               /\ IndexFits(d, written) /\ disk' = PutInto(d, k, r)
    <3>1. CASE InsertOnDisk(k, r)
      <4>1. disk' = PutInto(Probed(k), k, r) /\ disk.live
        BY <3>1 DEF InsertOnDisk
      <4> WITNESS Probed(k)
      <4> QED BY <2>2, <4>1, ProbedProps
    <3>2. CASE InsertSpilled(k, r)
      <4>1. disk' = PutInto(EnsureDisk(disk), k, r)
        BY <3>2 DEF InsertSpilled
      <4> WITNESS EnsureDisk(disk)
      <4> QED BY <2>2, <4>1, EnsureDiskProps
    <3> QED BY <1>5, <3>1, <3>2
  <2>4. Meaning(r) \in Sense /\ RecordFits(heap, r, Meaning(r))
    BY <2>2, MeaningNow, MeaningType DEF RecordFits
  <2>5. /\ DOMAIN written' = DOMAIN written \cup {k}
        /\ written'[k] = Meaning(r)
        /\ \A j \in DOMAIN written \ {k} :
              j \in DOMAIN written' /\ written'[j] = written[j]
    BY <1>1 DEF With
  <2>6. IsMap(written', Sense)
    BY <1>1, <2>2, <2>4, WithMap
  <2>7. /\ spilled' \in Seq([key : Keys, rec : RefRec])
        /\ SpillKeys(spilled') = {} /\ SpillFits(spilled', heap, written)
        /\ \A i, j \in DOMAIN spilled' :
              spilled'[i].key = spilled'[j].key => i = j
    BY <1>1, <1>3 DEF SpillFits, PlacesInv, PlacesType
  <2>8. /\ PlacesType' /\ PlacesFit'
        /\ DOMAIN written' \subseteq
              DOMAIN mem' \cup SpillKeys(spilled') \cup DiskKeys(disk')
        /\ disk'.len = Cardinality(DiskKeys(disk'))
    <3>1. PICK d : /\ IsDisk(d) /\ d.live /\ DiskKeys(d) = DiskKeys(disk)
                   /\ d.len = disk.len /\ MapFits(d.staging, heap, written)
                   /\ IndexFits(d, written) /\ disk' = PutInto(d, k, r)
      BY <2>3
    <3>2. RecordFits(heap, r, written'[k])
      BY <2>4, <2>5
    <3>3. k \notin SpillKeys(spilled')
          /\ SpillKeys(spilled') \cup {k} = SpillKeys(spilled) \cup {k}
      BY <1>3, <2>7
    <3>4. UNCHANGED <<mem, flushErr>> /\ k \in DOMAIN written'
      BY <1>1, <2>1, <2>5
    <3> QED BY <1>2, <2>1, <2>5, <2>6, <2>7, <3>1, <3>2, <3>3, <3>4,
               StoreOnDisk
  <2>9. Undrained' /\ Phases' /\ pc' \in Pcs
    BY <1>1, <1>2, <2>1 DEF Undrained, Phases, Pcs
  <2> QED BY <1>1, <1>2, <2>8, <2>9, OpenStep
<1> QED BY <1>4, <1>5 DEF Store

(* A merge that keeps the existing record. *)
LEMMA KeepStep ==
    ASSUME PlacesInv, pc = "scan", NEW k, KeepExisting(k), Drop(heap),
           block' \in [batch : Batches \cup {NoBatch}, next : Nat \ {0}],
           clock' \in 0 .. MaxClock
    PROVE  PlacesInv'
<1>1. /\ UNCHANGED <<mem, spilled, written, out, decodes, flushErr, after>>
      /\ disk' = Probed(k) /\ pc' \in {"scan", "soft"}
  BY DEF KeepExisting, bytesVars, evictVars, drainVars
<1>2. Undrained /\ spilled = << >> /\ ~flushErr
  BY DEF PlacesInv, Phases, Undrained
<1>3. /\ heap \in [Batches -> Seq(Row)] /\ IsDisk(disk)
      /\ IsMap(mem', BufferedRecord)
      /\ spilled' \in Seq([key : Keys, rec : RefRec])
      /\ IsMap(written', Sense)
  BY <1>1 DEF PlacesInv, PlacesType
<1>4. /\ IsDisk(disk') /\ disk'.staging = disk.staging
      /\ DiskKeys(disk') = DiskKeys(disk) /\ disk'.len = disk.len
      /\ IndexFits(disk, written) => IndexFits(disk', written)
  BY <1>1, <1>3, ProbedProps
<1>5. /\ MapFits(mem', heap, written') /\ MapFits(disk'.staging, heap, written')
      /\ SpillFits(spilled', heap, written')
      /\ ~flushErr' => IndexFits(disk', written')
  BY <1>1, <1>4 DEF PlacesInv, PlacesFit
<1>6. Apart(mem', disk', spilled')
  BY <1>1, <1>4 DEF PlacesInv, PlacesFit, Apart
<1>7. PlacesType' /\ PlacesFit'
  BY <1>3, <1>4, <1>5, <1>6, Settle
<1>8. Undrained' /\ Phases' /\ pc' \in Pcs
  BY <1>1, <1>2 DEF Undrained, Phases, Pcs
<1>9. /\ DOMAIN written' \subseteq
            DOMAIN mem' \cup SpillKeys(spilled') \cup DiskKeys(disk')
      /\ disk'.len = Cardinality(DiskKeys(disk'))
  BY <1>1, <1>2, <1>4 DEF PlacesInv, Whole
<1> QED BY <1>1, <1>2, <1>7, <1>8, <1>9, OpenStep

(* Everything a merge may store is a record whose row is there. *)
LEMMA OutcomesFit ==
    ASSUME PlacesInv, ~flushErr, RowsLeft, NEW k, NEW r \in Outcomes(k)
    PROVE  /\ r \in BufferedRecord
           /\ r.kind = "ref" => r.row \in DOMAIN heap[r.batch]
<1> DEFINE b == block.batch
           i == block.next
           row == heap[b][i]
<1>1. /\ b \in Batches /\ i \in Nat \ {0} /\ i <= Len(heap[b])
      /\ heap[b] \in Seq(Row)
  BY DEF RowsLeft, PlacesInv, PlacesType, CallerType
<1>2. i \in DOMAIN heap[b] /\ row \in Row
  BY <1>1
<1>3. row[1] \in Ords
  BY <1>2 DEF Row, Ords
<1>4. r \in {NewBatchRef(b, i), NewData(row, row[1], "record"),
             NewDelete(row[1], "record")}
      \/ (ContainsKey(k) /\ r = Get(k))
  BY DEF Outcomes
<1>5. NewBatchRef(b, i) = [kind |-> "ref", batch |-> b, row |-> i,
                           ord |-> row[1], key |-> "record"]
  BY DEF NewBatchRef
<1> HIDE DEF row, b, i
<1>6. CASE r = NewBatchRef(b, i)
  BY <1>1, <1>2, <1>3, <1>5, <1>6 DEF BufferedRecord, RefRec
<1>7. CASE r = NewData(row, row[1], "record")
  BY <1>2, <1>3, <1>7 DEF NewData, BufferedRecord, OwnedRec
<1>8. CASE r = NewDelete(row[1], "record")
  BY <1>3, <1>8 DEF NewDelete, BufferedRecord, DeleteRec
<1>9. CASE ContainsKey(k) /\ r = Get(k)
  BY <1>9, GetFits DEF RecordFits
<1> QED BY <1>4, <1>6, <1>7, <1>8, <1>9

(* A row of the block is merged into the map. *)
LEMMA MergeRowStep ==
    ASSUME PlacesInv, MergeRow
    PROVE  PlacesInv'
<1>1. /\ pc = "scan" /\ RowsLeft /\ Drop(heap) /\ clock' = clock
      /\ block' = [block EXCEPT !.next = @ + 1]
  BY DEF MergeRow
<1>2. ~flushErr
  BY <1>1 DEF PlacesInv, Phases
<1>3. /\ block' \in [batch : Batches \cup {NoBatch}, next : Nat \ {0}]
      /\ clock' \in 0 .. MaxClock
  <2>1. /\ block \in [batch : Batches \cup {NoBatch}, next : Nat \ {0}]
        /\ clock \in 0 .. MaxClock
    BY DEF PlacesInv, CallerType
  <2>2. block.next + 1 \in Nat \ {0}
    BY <2>1
  <2> QED BY <1>1, <2>1, <2>2
<1>4. PICK k \in Keys : \/ \E r \in Outcomes(k) : Store(k, r)
                        \/ KeepExisting(k)
  BY DEF MergeRow
<1>5. CASE KeepExisting(k)
  BY <1>1, <1>3, <1>5, KeepStep
<1>6. ASSUME NEW r \in Outcomes(k), Store(k, r)
      PROVE  PlacesInv'
  <2>1. r \in BufferedRecord
        /\ (r.kind = "ref" => r.row \in DOMAIN heap[r.batch])
    BY <1>1, <1>2, OutcomesFit
  <2> QED BY <1>1, <1>3, <1>6, <2>1, StoreStep
<1> QED BY <1>4, <1>5, <1>6

(* A tombstone is merged into the map. *)
LEMMA MergeDeleteStep ==
    ASSUME PlacesInv, MergeDelete
    PROVE  PlacesInv'
<1>1. /\ pc = "scan" /\ Drop(heap) /\ block' = block
      /\ clock < MaxClock /\ clock' = clock + 1
  BY DEF MergeDelete
<1>2. MaxClock \in Nat /\ clock \in 0 .. MaxClock
  BY ConstantsAssumption DEF PlacesInv, CallerType
<1>3. /\ block' \in [batch : Batches \cup {NoBatch}, next : Nat \ {0}]
      /\ clock' \in 0 .. MaxClock /\ clock + 1 \in Ords
  BY <1>1, <1>2 DEF PlacesInv, CallerType, Ords
<1>4. PICK k \in Keys : \/ Store(k, NewDelete(clock + 1, "record"))
                        \/ KeepExisting(k)
  BY DEF MergeDelete
<1>5. CASE KeepExisting(k)
  BY <1>1, <1>3, <1>5, KeepStep
<1>6. CASE Store(k, NewDelete(clock + 1, "record"))
  <2> DEFINE r == NewDelete(clock + 1, "record")
  <2>1. r \in BufferedRecord /\ r.kind = "delete"
    BY <1>3 DEF NewDelete, BufferedRecord, DeleteRec
  <2> HIDE DEF r
  <2>2. Store(k, r)
    BY <1>6 DEF r
  <2> QED BY <1>1, <1>3, <2>1, <2>2, StoreStep
<1> QED BY <1>4, <1>5, <1>6

-----------------------------------------------------------------------------
(* Eviction. *)

(* The keys that refer to a batch. *)
LEMMA KeysOfProps ==
    ASSUME PlacesInv, NEW b
    PROVE  /\ KeysOf(b) \subseteq DOMAIN mem /\ KeysOf(b) \subseteq Keys
           /\ IsFiniteSet(KeysOf(b))
           /\ \A k \in KeysOf(b) :
                 /\ mem[k] \in RefRec /\ mem[k].kind = "ref"
                 /\ mem[k].row \in DOMAIN heap[mem[k].batch]
                 /\ GetRecord(mem[k]) \in Row
                 /\ GetRecord(mem[k]) = heap[mem[k].batch][mem[k].row]
                 /\ k \in DOMAIN written
                 /\ written[k] = [row |-> GetRecord(mem[k]),
                                  ord |-> mem[k].ord, key |-> "record"]
<1>1. /\ KeysOf(b) \subseteq DOMAIN mem
      /\ \A k \in KeysOf(b) : mem[k].kind = "ref"
  BY DEF KeysOf, RefersTo
<1>2. DOMAIN mem \subseteq Keys /\ heap \in [Batches -> Seq(Row)]
      /\ \A k \in DOMAIN mem : mem[k] \in BufferedRecord
  BY DEF PlacesInv, PlacesType, IsMap
<1>3. IsFiniteSet(KeysOf(b))
  BY <1>1, <1>2, FS_Subset, ConstantsAssumption
<1>4. ASSUME NEW k \in KeysOf(b)
      PROVE  /\ mem[k] \in RefRec /\ mem[k].kind = "ref"
             /\ mem[k].row \in DOMAIN heap[mem[k].batch]
             /\ GetRecord(mem[k]) \in Row
             /\ GetRecord(mem[k]) = heap[mem[k].batch][mem[k].row]
             /\ k \in DOMAIN written
             /\ written[k] = [row |-> GetRecord(mem[k]),
                              ord |-> mem[k].ord, key |-> "record"]
  <2>1. mem[k] \in BufferedRecord /\ mem[k].kind = "ref"
    BY <1>1, <1>2
  <2>2. mem[k] \in RefRec
    BY <2>1, RecordFields
  <2>3. k \in DOMAIN written /\ RecordFits(heap, mem[k], written[k])
    BY <1>1 DEF PlacesInv, PlacesFit, MapFits
  <2>4. mem[k].row \in DOMAIN heap[mem[k].batch]
    BY <2>1, <2>3 DEF RecordFits
  <2>5. RowIn(heap, mem[k]) = GetRecord(mem[k])
    BY DEF RowIn, GetRecord
  <2>6. GetRecord(mem[k]) \in Row
    BY <1>2, <2>1, <2>4, <2>5, MeaningType
  <2>7. GetRecord(mem[k]) = heap[mem[k].batch][mem[k].row]
    BY <2>1 DEF GetRecord
  <2>8. written[k] = [row |-> GetRecord(mem[k]), ord |-> mem[k].ord,
                      key |-> "record"]
    BY <2>1, <2>3, <2>5 DEF RecordFits, MeaningIn
  <2> QED BY <2>1, <2>2, <2>3, <2>4, <2>6, <2>7, <2>8
<1> QED BY <1>1, <1>2, <1>3, <1>4

(* A compacted record is where PlaceIn says. *)
LEMMA CompactedFits ==
    ASSUME NEW r \in RefRec, NEW h, NEW c \in Batches, NEW p \in Nat, NEW v,
           NEW s, s = [r EXCEPT !.batch = c, !.row = p],
           p \in DOMAIN h[c],
           v = [row |-> h[c][p], ord |-> r.ord, key |-> "record"]
    PROVE  s \in RefRec /\ RecordFits(h, s, v)
<1>1. s \in RefRec /\ s.kind = "ref" /\ s.batch = c /\ s.row = p
      /\ s.ord = r.ord
  BY DEF RefRec
<1> QED BY <1>1 DEF RecordFits, MeaningIn, RowIn

(* The survivors of a batch keep their meaning in the compacted one. *)
LEMMA CompactStep ==
    ASSUME PlacesInv, pc \in {"evict", "sparse"}, NEW b, CompactBatch(b),
           UNCHANGED <<disk, spilled, pc, after, block, clock, out, decodes,
                       flushErr, written>>
    PROVE  PlacesInv'
<1>1. PICK c \in {x \in Batches : ~Held(x)}, ks \in SetToSeqs(KeysOf(b)) :
        CompactTo(b, c, ks)
  BY DEF CompactBatch
<1> DEFINE rows == CompactRows(ks)
           g == [heap EXCEPT ![c] = rows]
           K == KeysOf(b)
<1>2. /\ mem' = [k \in DOMAIN mem |->
                   IF k \in K
                   THEN [mem[k] EXCEPT !.batch = c, !.row = PlaceIn(ks, k)]
                   ELSE mem[k]]
      /\ Drop(g)
  BY <1>1 DEF CompactTo
<1>3. /\ K \subseteq DOMAIN mem /\ IsFiniteSet(K)
      /\ \A k \in K : /\ mem[k] \in RefRec
                      /\ GetRecord(mem[k]) \in Row
                      /\ k \in DOMAIN written
                      /\ written[k] = [row |-> GetRecord(mem[k]),
                                       ord |-> mem[k].ord, key |-> "record"]
  BY KeysOfProps
<1> HIDE DEF K
<1>4. /\ ks \in Seq(K)
      /\ \A k \in K : PlaceIn(ks, k) \in DOMAIN ks /\ ks[PlaceIn(ks, k)] = k
  BY <1>1, <1>3, PlaceInFinds DEF K
<1>5. /\ DOMAIN rows = DOMAIN ks
      /\ \A i \in DOMAIN ks : rows[i] = GetRecord(mem[ks[i]])
      /\ rows \in Seq(Row)
  <2>1. \A i \in DOMAIN ks : ks[i] \in K
    BY <1>4
  <2>2. \A i \in DOMAIN ks : GetRecord(mem[ks[i]]) \in Row
    BY <1>3, <2>1
  <2>3. DOMAIN ks = 1 .. Len(ks) /\ Len(ks) \in Nat
    BY <1>4
  <2>4. rows = [i \in 1 .. Len(ks) |-> GetRecord(mem[ks[i]])]
    BY <2>3 DEF CompactRows
  <2> HIDE DEF rows
  <2>5. rows \in [1 .. Len(ks) -> Row]
    BY <2>2, <2>3, <2>4
  <2> QED BY <2>3, <2>4, <2>5
<1> HIDE DEF rows
<1>6. /\ heap \in [Batches -> Seq(Row)] /\ IsMap(mem, BufferedRecord)
      /\ IsDisk(disk) /\ IsMap(written, Sense)
      /\ spilled \in Seq([key : Keys, rec : RefRec])
  BY DEF PlacesInv, PlacesType
<1>7. /\ MapFits(mem, g, written) /\ MapFits(disk.staging, g, written)
      /\ SpillFits(spilled, g, written)
  BY <1>1, FreshBatch DEF PlacesInv
<1>8. g \in [Batches -> Seq(Row)] /\ g[c] = rows
  BY <1>5, <1>6
<1> HIDE DEF g
<1>9. ASSUME NEW k \in K
      PROVE  mem'[k] \in RefRec /\ RecordFits(g, mem'[k], written[k])
  <2> DEFINE p == PlaceIn(ks, k)
  <2>1. p \in DOMAIN ks /\ ks[p] = k
    BY <1>4
  <2>2. p \in Nat
    BY <1>4, <2>1
  <2>3. mem'[k] = [mem[k] EXCEPT !.batch = c, !.row = p]
    BY <1>2, <1>3
  <2> HIDE DEF p
  <2>4. p \in DOMAIN g[c] /\ g[c][p] = GetRecord(mem[k])
    BY <1>5, <1>8, <2>1
  <2>5. written[k] = [row |-> g[c][p], ord |-> mem[k].ord, key |-> "record"]
    BY <1>3, <2>4
  <2> QED BY <1>3, <2>2, <2>3, <2>4, <2>5, CompactedFits
<1>10. DOMAIN mem' = DOMAIN mem /\ \A k \in DOMAIN mem \ K : mem'[k] = mem[k]
  BY <1>2
<1>11. IsMap(mem', BufferedRecord)
  <2>1. \A k \in DOMAIN mem' : mem'[k] \in BufferedRecord
    BY <1>6, <1>9, <1>10 DEF IsMap, BufferedRecord
  <2>2. mem' = [k \in DOMAIN mem' |-> mem'[k]]
    BY <1>2
  <2> QED BY <1>6, <1>10, <2>1, <2>2 DEF IsMap
<1>12. MapFits(mem', g, written')
  BY <1>3, <1>7, <1>9, <1>10 DEF MapFits
<1>13. Apart(mem', disk', spilled') /\ (~flushErr' => IndexFits(disk', written'))
  BY <1>10 DEF PlacesInv, PlacesFit, Apart
<1>14. PlacesType' /\ PlacesFit'
  BY <1>2, <1>6, <1>7, <1>8, <1>11, <1>12, <1>13, Settle
<1>15. Undrained /\ Undrained' /\ Phases' /\ pc' \in Pcs
  BY DEF Undrained, Phases, PlacesInv, Pcs
<1>16. /\ DOMAIN written' \subseteq
            DOMAIN mem' \cup SpillKeys(spilled') \cup DiskKeys(disk')
       /\ disk'.len = Cardinality(DiskKeys(disk'))
  BY <1>10, <1>15 DEF PlacesInv, Whole
<1>17. /\ block' \in [batch : Batches \cup {NoBatch}, next : Nat \ {0}]
       /\ clock' \in 0 .. MaxClock
  BY DEF PlacesInv, CallerType
<1> QED BY <1>14, <1>15, <1>16, <1>17, OpenStep

(* Both callers of the compaction. *)
LEMMA CompactVictimStep ==
    ASSUME PlacesInv, CompactVictim \/ CompactSparse
    PROVE  PlacesInv'
<1>1. /\ pc \in {"evict", "sparse"} /\ CompactBatch(Head(victims))
      /\ UNCHANGED <<disk, spilled, pc, after, block, clock, out, decodes,
                     flushErr, written>>
  BY DEF CompactVictim, CompactSparse, Evicting, readVars, callerVars, drainVars
<1> QED BY <1>1, CompactStep

(* The records of a spilled batch leave memory all at once. *)
LEMMA SpillVictimStep ==
    ASSUME PlacesInv, SpillVictim
    PROVE  PlacesInv'
<1> DEFINE K == KeysOf(Head(victims))
<1>1. PICK ks \in SetToSeqs(K) :
        spilled' = [i \in DOMAIN ks |-> [key |-> ks[i], rec |-> mem[ks[i]]]]
  BY DEF SpillVictim
<1>2. /\ pc = "evict" /\ pc' = "spill" /\ mem' = Without(mem, K)
      /\ disk' = EnsureDisk(disk) /\ Drop(heap)
      /\ UNCHANGED <<written, block, clock, out, decodes, flushErr>>
  BY DEF SpillVictim, Evicting, readVars, callerVars, drainVars
<1>3. /\ K \subseteq DOMAIN mem /\ K \subseteq Keys /\ IsFiniteSet(K)
      /\ \A k \in K : mem[k] \in RefRec
  BY KeysOfProps
<1> HIDE DEF K
<1>4. /\ ks \in Seq(K) /\ \A i, j \in DOMAIN ks : ks[i] = ks[j] => i = j
      /\ \A k \in K : PlaceIn(ks, k) \in DOMAIN ks /\ ks[PlaceIn(ks, k)] = k
  BY <1>1, <1>3, PlaceInFinds
<1>5. DOMAIN ks = 1 .. Len(ks) /\ Len(ks) \in Nat
      /\ \A i \in DOMAIN ks : ks[i] \in K
  BY <1>4
<1>6. /\ DOMAIN spilled' = DOMAIN ks
      /\ \A i \in DOMAIN ks : /\ spilled'[i] = [key |-> ks[i], rec |-> mem[ks[i]]]
                              /\ spilled'[i].key = ks[i]
                              /\ spilled'[i].rec = mem[ks[i]]
  BY <1>1
<1>7. spilled' \in Seq([key : Keys, rec : RefRec])
  <2> DEFINE T == [key : Keys, rec : RefRec]
  <2>1. \A i \in DOMAIN ks : [key |-> ks[i], rec |-> mem[ks[i]]] \in T
    BY <1>3, <1>5
  <2>2. \A i \in DOMAIN ks : spilled'[i] \in T
    BY <1>6, <2>1
  <2>3. spilled' = [i \in 1 .. Len(ks) |-> spilled'[i]]
    BY <1>1, <1>5, <1>6
  <2> HIDE DEF T
  <2>4. spilled' \in Seq(T)
    BY <1>5, <2>2, <2>3
  <2> QED BY <2>4 DEF T
<1>8. SpillKeys(spilled') = K
  <2>1. \A k \in K : \E i \in DOMAIN spilled' : spilled'[i].key = k
    BY <1>4, <1>6
  <2>2. \A i \in DOMAIN spilled' : spilled'[i].key \in K
    BY <1>5, <1>6
  <2> QED BY <2>1, <2>2 DEF SpillKeys
<1>9. DOMAIN mem' = DOMAIN mem \ K /\ \A k \in DOMAIN mem' : mem'[k] = mem[k]
  BY <1>2 DEF Without
<1>10. /\ heap \in [Batches -> Seq(Row)] /\ IsMap(mem', BufferedRecord)
       /\ IsDisk(disk) /\ IsMap(written', Sense)
  <2>1. /\ heap \in [Batches -> Seq(Row)] /\ IsMap(mem, BufferedRecord)
        /\ IsDisk(disk) /\ IsMap(written, Sense)
    BY DEF PlacesInv, PlacesType
  <2> QED BY <1>2, <2>1, WithoutMap
<1>11. Undrained /\ spilled = << >> /\ ~flushErr
  BY <1>2 DEF PlacesInv, Phases, Undrained
<1>12. /\ MapFits(mem, heap, written) /\ MapFits(disk.staging, heap, written)
       /\ IndexFits(disk, written)
       /\ DOMAIN mem \cap DiskKeys(disk) = {}
  BY <1>11 DEF PlacesInv, PlacesFit, Apart
<1>13. /\ IsDisk(disk') /\ disk'.live /\ DiskKeys(disk') = DiskKeys(disk)
       /\ disk'.len = disk.len /\ MapFits(disk'.staging, heap, written)
       /\ IndexFits(disk', written)
  BY <1>2, <1>10, <1>12, EnsureDiskProps
<1>14. MapFits(mem', heap, written')
  BY <1>2, <1>9, <1>12 DEF MapFits
<1>15. SpillFits(spilled', heap, written')
  BY <1>2, <1>3, <1>5, <1>6, <1>12 DEF SpillFits, MapFits
<1>16. Apart(mem', disk', spilled')
  <2>1. \A i, j \in DOMAIN spilled' : spilled'[i].key = spilled'[j].key => i = j
    BY <1>4, <1>6
  <2> QED BY <1>3, <1>8, <1>9, <1>12, <1>13, <2>1 DEF Apart
<1>17. PlacesType' /\ PlacesFit'
  BY <1>2, <1>7, <1>10, <1>13, <1>14, <1>15, <1>16, Settle
<1>18. Undrained' /\ Phases' /\ pc' \in Pcs
  BY <1>2, <1>11, <1>13 DEF Undrained, Phases, Pcs
<1>19. /\ DOMAIN written \subseteq
             DOMAIN mem \cup SpillKeys(spilled) \cup DiskKeys(disk)
       /\ disk.len = Cardinality(DiskKeys(disk)) /\ SpillKeys(spilled) = {}
  BY <1>11, NothingInTransit DEF PlacesInv, Whole
<1>20. /\ DOMAIN written' \subseteq
             DOMAIN mem' \cup SpillKeys(spilled') \cup DiskKeys(disk')
       /\ disk'.len = Cardinality(DiskKeys(disk'))
  BY <1>2, <1>8, <1>9, <1>13, <1>19
<1>21. /\ block' \in [batch : Batches \cup {NoBatch}, next : Nat \ {0}]
       /\ clock' \in 0 .. MaxClock
  BY <1>2 DEF PlacesInv, CallerType
<1> QED BY <1>2, <1>11, <1>17, <1>18, <1>20, <1>21, OpenStep

(* The elements of a sequence's tail. *)
LEMMA TailProps ==
    ASSUME NEW S, NEW s \in Seq(S), s # << >>
    PROVE  /\ Head(s) \in S /\ Head(s) = s[1] /\ 1 \in DOMAIN s
           /\ Tail(s) \in Seq(S)
           /\ \A i \in DOMAIN Tail(s) : i + 1 \in DOMAIN s /\ i \in Nat \ {0}
                                        /\ Tail(s)[i] = s[i + 1]
           /\ \A i \in DOMAIN s : i # 1 => i - 1 \in DOMAIN Tail(s)
                                           /\ Tail(s)[i - 1] = s[i]
OBVIOUS

(* One of them is put on disk. *)
LEMMA SpillPutStep ==
    ASSUME PlacesInv, SpillPut
    PROVE  PlacesInv'
<1> DEFINE T == [key : Keys, rec : RefRec]
           k == Head(spilled).key
           r == Head(spilled).rec
<1>1. /\ pc = "spill" /\ spilled # << >> /\ Drop(heap)
      /\ disk' = PutInto(disk, k, r) /\ spilled' = Tail(spilled)
      /\ ((pc' = "flush" /\ after' = "spill") \/ pc' = "spill")
      /\ UNCHANGED <<mem, written, block, clock, out, decodes, flushErr>>
  BY DEF SpillPut, FlushWhenFull, readVars, callerVars, drainVars
<1>2. spilled \in Seq(T)
  BY DEF PlacesInv, PlacesType
<1> HIDE DEF T
<1>3. /\ Head(spilled) \in T /\ Head(spilled) = spilled[1] /\ 1 \in DOMAIN spilled
      /\ spilled' \in Seq(T)
      /\ \A i \in DOMAIN spilled' : /\ i + 1 \in DOMAIN spilled
                                    /\ i \in Nat \ {0}
                                    /\ spilled'[i] = spilled[i + 1]
      /\ \A i \in DOMAIN spilled : i # 1 => /\ i - 1 \in DOMAIN spilled'
                                            /\ spilled'[i - 1] = spilled[i]
  BY <1>1, <1>2, TailProps
<1>4. k \in Keys /\ r \in BufferedRecord /\ k = spilled[1].key
      /\ r = spilled[1].rec
  BY <1>3 DEF T, BufferedRecord
<1> HIDE DEF k, r
<1>5. Undrained /\ ~flushErr /\ disk.live
  BY <1>1 DEF PlacesInv, Phases, Undrained
<1>6. /\ IsDisk(disk) /\ IsMap(written', Sense)
      /\ MapFits(disk.staging, heap, written) /\ IndexFits(disk, written)
      /\ SpillFits(spilled, heap, written) /\ Apart(mem, disk, spilled)
  BY <1>1, <1>5 DEF PlacesInv, PlacesType, PlacesFit
<1>7. /\ k \in DOMAIN written' /\ RecordFits(heap, r, written'[k])
      /\ DOMAIN written' = DOMAIN written \cup {k}
      /\ \A j \in DOMAIN written \ {k} :
            j \in DOMAIN written' /\ written'[j] = written[j]
  BY <1>1, <1>3, <1>4, <1>6 DEF SpillFits
<1>8. k \in SpillKeys(spilled) /\ k \notin DOMAIN mem
  BY <1>3, <1>4, <1>6 DEF Apart, SpillKeys
<1>9. k \notin SpillKeys(spilled')
  <2>1. ASSUME NEW i \in DOMAIN spilled', spilled'[i].key = k PROVE FALSE
    <3>1. i + 1 \in DOMAIN spilled /\ spilled[i + 1].key = spilled[1].key
          /\ i \in Nat \ {0}
      BY <1>3, <1>4, <2>1
    <3>2. i + 1 = 1
      BY <1>3, <1>6, <3>1 DEF Apart
    <3> QED BY <3>1, <3>2
  <2> QED BY <2>1 DEF SpillKeys
<1>10. SpillKeys(spilled') \cup {k} = SpillKeys(spilled) \cup {k}
  <2>1. \A i \in DOMAIN spilled' : spilled'[i].key \in SpillKeys(spilled)
    BY <1>3 DEF SpillKeys
  <2>2. \A i \in DOMAIN spilled :
           spilled[i].key \in SpillKeys(spilled') \cup {k}
    BY <1>3, <1>4 DEF SpillKeys
  <2> QED BY <1>8, <2>1, <2>2 DEF SpillKeys
<1>11. SpillFits(spilled', heap, written)
  BY <1>3, <1>6 DEF SpillFits
<1>12. ASSUME NEW i \in DOMAIN spilled', NEW j \in DOMAIN spilled',
              spilled'[i].key = spilled'[j].key
       PROVE  i = j
  <2>1. i + 1 = j + 1
    BY <1>3, <1>6, <1>12 DEF Apart
  <2> QED BY <1>3, <2>1
<1>13. /\ PlacesType' /\ PlacesFit'
       /\ DOMAIN written' \subseteq
             DOMAIN mem' \cup SpillKeys(spilled') \cup DiskKeys(disk')
       /\ disk'.len = Cardinality(DiskKeys(disk'))
  <2>1. spilled' \in Seq([key : Keys, rec : RefRec])
    BY <1>3 DEF T
  <2>2. disk' = PutInto(disk, k, r) /\ UNCHANGED <<mem, flushErr>> /\ Drop(heap)
    BY <1>1 DEF k, r
  <2> QED BY <1>4, <1>5, <1>6, <1>7, <1>8, <1>9, <1>10, <1>11, <1>12, <2>1,
             <2>2, StoreOnDisk
<1>14. disk'.live
  BY <1>1, <1>4, <1>5, <1>6, PutIntoType DEF k, r
<1>15. Undrained' /\ Phases' /\ pc' \in Pcs
  BY <1>1, <1>5, <1>14 DEF Undrained, Phases, Pcs
<1>16. /\ block' \in [batch : Batches \cup {NoBatch}, next : Nat \ {0}]
       /\ clock' \in 0 .. MaxClock
  BY <1>1 DEF PlacesInv, CallerType
<1> QED BY <1>1, <1>5, <1>13, <1>15, <1>16, OpenStep

-----------------------------------------------------------------------------
(* The flush. *)

(* What Append leaves. *)
LEMMA AppendedProps ==
    ASSUME NEW S, NEW s \in Seq(S), NEW x \in S
    PROVE  /\ Append(s, x) \in Seq(S) /\ Len(s) \in Nat
           /\ Len(s) + 1 \in DOMAIN Append(s, x)
           /\ Append(s, x)[Len(s) + 1] = x
           /\ \A i \in DOMAIN s : i \in DOMAIN Append(s, x)
                                  /\ Append(s, x)[i] = s[i]
OBVIOUS

(* A staged record's row is there, and is what was written. *)
LEMMA StagedProps ==
    ASSUME PlacesInv, NEW k \in DOMAIN disk.staging
    PROVE  /\ k \in Keys /\ disk.staging[k].ord \in Ords
           /\ GetRecord(disk.staging[k]) \in Row
           /\ k \in DOMAIN written
           /\ written[k] = [row |-> GetRecord(disk.staging[k]),
                            ord |-> disk.staging[k].ord, key |-> "record"]
<1> DEFINE r == disk.staging[k]
<1>1. /\ k \in Keys /\ r \in RefRec \cup OwnedRec
      /\ heap \in [Batches -> Seq(Row)]
  BY DEF PlacesInv, PlacesType, IsDisk, IsMap
<1>2. k \in DOMAIN written /\ RecordFits(heap, r, written[k])
  BY DEF PlacesInv, PlacesFit, MapFits
<1>3. GetRecord(r) = RowIn(heap, r)
  BY DEF GetRecord, RowIn
<1> HIDE DEF r
<1>4. r \in BufferedRecord /\ r.kind # "delete"
  BY <1>1 DEF BufferedRecord, RefRec, OwnedRec
<1>5. RowIn(heap, r) \in Row
  BY <1>1, <1>2, <1>4, MeaningType DEF RecordFits
<1>6. written[k] = [row |-> RowIn(heap, r), ord |-> r.ord, key |-> "record"]
  BY <1>2, <1>4 DEF RecordFits, MeaningIn
<1>7. r.ord \in Ords
  BY <1>4, RecordFields
<1> QED BY <1>1, <1>2, <1>3, <1>5, <1>6, <1>7 DEF r

(* A flush moves the staged rows of one schema into a blob and the index. *)
LEMMA FlushGroupStep ==
    ASSUME PlacesInv, FlushGroup
    PROVE  PlacesInv'
<1>0. PICK s \in Schemas : \E ks \in SetToSeqs(StagedWith(s)) :
        disk' = [disk EXCEPT
                  !.blobs = Append(@, [i \in DOMAIN ks |->
                                         GetRecord(disk.staging[ks[i]])]),
                  !.index = [k \in DOMAIN @ \cup StagedWith(s) |->
                               IF k \in StagedWith(s)
                               THEN DataEntry(Len(disk.blobs) + 1,
                                              PlaceIn(ks, k),
                                              disk.staging[k].ord)
                               ELSE @[k]],
                  !.staging = Without(@, StagedWith(s))]
  BY DEF FlushGroup
<1>1. PICK ks \in SetToSeqs(StagedWith(s)) :
        disk' = [disk EXCEPT
                  !.blobs = Append(@, [i \in DOMAIN ks |->
                                         GetRecord(disk.staging[ks[i]])]),
                  !.index = [k \in DOMAIN @ \cup StagedWith(s) |->
                               IF k \in StagedWith(s)
                               THEN DataEntry(Len(disk.blobs) + 1,
                                              PlaceIn(ks, k),
                                              disk.staging[k].ord)
                               ELSE @[k]],
                  !.staging = Without(@, StagedWith(s))]
  BY <1>0
<1>2. /\ pc = "flush" /\ Drop(heap)
      /\ UNCHANGED <<mem, spilled, written, block, clock, out, decodes,
                     flushErr, pc, after>>
  BY DEF FlushGroup, evictVars, readVars, callerVars, drainVars
<1> DEFINE S == StagedWith(s)
           st == disk.staging
           bl == disk.blobs
           id == Len(bl) + 1
           rows == [i \in DOMAIN ks |-> GetRecord(st[ks[i]])]
<1>3. IsDisk(disk) /\ st \in [DOMAIN st -> RefRec \cup OwnedRec]
      /\ DOMAIN st \subseteq Keys /\ bl \in Seq(Seq(Row))
  BY DEF PlacesInv, PlacesType, IsDisk, IsMap
<1>4. S \subseteq DOMAIN st /\ S \subseteq Keys /\ IsFiniteSet(S)
  <2>1. S \subseteq DOMAIN st
    BY DEF StagedWith
  <2> HIDE DEF S, st
  <2> QED BY <1>3, <2>1, FS_Subset, ConstantsAssumption
<1>5. \A k \in DOMAIN st :
        /\ st[k].ord \in Ords /\ GetRecord(st[k]) \in Row
        /\ k \in DOMAIN written
        /\ written[k] = [row |-> GetRecord(st[k]), ord |-> st[k].ord,
                         key |-> "record"]
  BY StagedProps
<1>6. /\ disk'.staging = Without(st, S)
      /\ disk'.blobs = Append(bl, rows)
      /\ disk'.index = [k \in DOMAIN disk.index \cup S |->
                          IF k \in S
                          THEN DataEntry(id, PlaceIn(ks, k), st[k].ord)
                          ELSE disk.index[k]]
      /\ disk'.live = disk.live /\ disk'.len = disk.len
      /\ disk'.cache = disk.cache /\ IsDiskRecord(disk')
  BY <1>1, <1>3 DEF IsDisk, IsDiskRecord
<1> HIDE DEF S, st
<1>7. /\ ks \in Seq(S)
      /\ \A k \in S : PlaceIn(ks, k) \in DOMAIN ks /\ ks[PlaceIn(ks, k)] = k
  BY <1>4, PlaceInFinds DEF S
<1>8. rows \in Seq(Row) /\ DOMAIN rows = DOMAIN ks
      /\ \A k \in S : rows[PlaceIn(ks, k)] = GetRecord(st[k])
  <2>1. /\ \A i \in DOMAIN ks : ks[i] \in S
        /\ DOMAIN ks = 1 .. Len(ks) /\ Len(ks) \in Nat
    BY <1>7
  <2>2. \A i \in DOMAIN ks : GetRecord(st[ks[i]]) \in Row
    BY <1>4, <1>5, <2>1
  <2>3. rows \in [1 .. Len(ks) -> Row]
    BY <2>1, <2>2
  <2>4. \A i \in DOMAIN ks : rows[i] = GetRecord(st[ks[i]])
    OBVIOUS
  <2> HIDE DEF rows
  <2> QED BY <1>7, <2>1, <2>3, <2>4
<1> HIDE DEF rows, bl, id
<1>9. /\ disk'.blobs \in Seq(Seq(Row)) /\ id \in Nat
      /\ id \in DOMAIN disk'.blobs /\ disk'.blobs[id] = rows
      /\ \A i \in DOMAIN bl : i \in DOMAIN disk'.blobs
                              /\ disk'.blobs[i] = bl[i]
  BY <1>3, <1>6, <1>8, AppendedProps DEF id
<1>10. /\ DOMAIN disk'.staging = DOMAIN st \ S
       /\ \A k \in DOMAIN st \ S : disk'.staging[k] = st[k]
       /\ IsMap(disk'.staging, RefRec \cup OwnedRec)
  BY <1>3, <1>6 DEF Without, IsMap
<1>11. /\ DOMAIN disk'.index = DOMAIN disk.index \cup S
       /\ \A k \in S : disk'.index[k] = DataEntry(id, PlaceIn(ks, k), st[k].ord)
       /\ \A k \in DOMAIN disk.index \ S : disk'.index[k] = disk.index[k]
  BY <1>6
<1>12. IsMap(disk'.index, IndexEntry)
  <2>1. ASSUME NEW k \in S PROVE disk'.index[k] \in IndexEntry
    <3>1. PlaceIn(ks, k) \in Nat
      BY <1>7
    <3>2. st[k].ord \in Ords /\ id \in Nat
      BY <1>4, <1>5, <1>9
    <3>3. DataEntry(id, PlaceIn(ks, k), st[k].ord) \in IndexEntry
      BY <3>1, <3>2 DEF DataEntry, IndexEntry
    <3> QED BY <1>11, <3>3
  <2>2. DOMAIN disk.index \subseteq Keys
        /\ \A k \in DOMAIN disk.index : disk.index[k] \in IndexEntry
    BY <1>3 DEF IsDisk, IsMap
  <2>3. \A k \in DOMAIN disk'.index : disk'.index[k] \in IndexEntry
    BY <1>11, <2>1, <2>2
  <2>4. disk'.index = [k \in DOMAIN disk'.index |-> disk'.index[k]]
    BY <1>6, <1>11
  <2> QED BY <1>4, <1>11, <2>2, <2>3, <2>4 DEF IsMap
<1>13. DiskKeys(disk') = DiskKeys(disk)
  BY <1>4, <1>10, <1>11 DEF DiskKeys, st
<1>14. IsDisk(disk')
  BY <1>3, <1>6, <1>9, <1>10, <1>12, <1>13 DEF IsDisk
<1>15. Undrained /\ ~flushErr
  BY <1>2 DEF PlacesInv, Phases, Undrained
<1>16. IndexFits(disk', written)
  <2>1. ASSUME NEW k \in S
        PROVE  k \in DOMAIN written
               /\ EntryFits(disk'.blobs, disk'.index[k], written[k])
    <3> DEFINE p == PlaceIn(ks, k)
               e == disk'.index[k]
    <3>1. e = DataEntry(id, p, st[k].ord) /\ p \in DOMAIN rows
          /\ rows[p] = GetRecord(st[k])
      BY <1>7, <1>8, <1>11
    <3> HIDE DEF p, e
    <3>2. e.kind = "data" /\ e.blob = id /\ e.row = p /\ e.ord = st[k].ord
      BY <3>1 DEF DataEntry
    <3>3. k \in DOMAIN written
          /\ written[k] = [row |-> GetRecord(st[k]), ord |-> st[k].ord,
                           key |-> "record"]
      BY <1>4, <1>5
    <3>4. EntryFits(disk'.blobs, e, written[k])
      BY <1>9, <3>1, <3>2, <3>3 DEF EntryFits, EntryMeaning
    <3> QED BY <3>3, <3>4 DEF e
  <2>2. ASSUME NEW k \in DOMAIN disk.index \ DOMAIN st
        PROVE  k \in DOMAIN written
               /\ EntryFits(disk'.blobs, disk'.index[k], written[k])
    <3> DEFINE e == disk.index[k]
    <3>1. k \in DOMAIN written /\ EntryFits(bl, e, written[k])
      BY <1>15 DEF PlacesInv, PlacesFit, IndexFits, bl, st
    <3>2. disk'.index[k] = e /\ e \in IndexEntry
      BY <1>3, <1>4, <1>11 DEF IsDisk, IsMap
    <3> HIDE DEF e
    <3>3. EntryFits(disk'.blobs, e, written[k])
      <4>1. CASE e.kind = "delete"
        BY <3>1, <4>1 DEF EntryFits, EntryMeaning
      <4>2. CASE e.kind = "data"
        <5>1. e.blob \in DOMAIN bl
          BY <3>1, <4>2 DEF EntryFits
        <5>2. disk'.blobs[e.blob] = bl[e.blob] /\ e.blob \in DOMAIN disk'.blobs
          BY <1>9, <5>1
        <5> QED BY <3>1, <4>2, <5>2 DEF EntryFits, EntryMeaning
      <4> QED BY <3>2, <4>1, <4>2, EntryFields
    <3> QED BY <3>1, <3>2, <3>3
  <2> QED BY <1>10, <1>11, <2>1, <2>2 DEF IndexFits
<1>17. MapFits(disk'.staging, heap, written)
  BY <1>10 DEF PlacesInv, PlacesFit, MapFits, st
<1>18. PlacesType' /\ PlacesFit'
  <2>1. /\ heap \in [Batches -> Seq(Row)] /\ IsMap(mem', BufferedRecord)
        /\ spilled' \in Seq([key : Keys, rec : RefRec])
        /\ IsMap(written', Sense)
    BY <1>2 DEF PlacesInv, PlacesType
  <2>2. MapFits(mem', heap, written') /\ SpillFits(spilled', heap, written')
    BY <1>2 DEF PlacesInv, PlacesFit
  <2>3. Apart(mem', disk', spilled')
    BY <1>2, <1>13 DEF PlacesInv, PlacesFit, Apart
  <2> QED BY <1>2, <1>14, <1>16, <1>17, <2>1, <2>2, <2>3, Settle
<1>19. Undrained' /\ Phases' /\ pc' \in Pcs
  BY <1>2, <1>6 DEF Undrained, Phases, Pcs, PlacesInv
<1>20. /\ DOMAIN written' \subseteq
             DOMAIN mem' \cup SpillKeys(spilled') \cup DiskKeys(disk')
       /\ disk'.len = Cardinality(DiskKeys(disk'))
  BY <1>2, <1>6, <1>13, <1>15 DEF PlacesInv, Whole
<1>21. /\ block' \in [batch : Batches \cup {NoBatch}, next : Nat \ {0}]
       /\ clock' \in 0 .. MaxClock
  BY <1>2 DEF PlacesInv, CallerType
<1> QED BY <1>2, <1>15, <1>18, <1>19, <1>20, <1>21, OpenStep

(* The last flush fails: what is on disk is given up. *)
LEMMA LastFlushFailsStep ==
    ASSUME PlacesInv, LastFlushFails
    PROVE  PlacesInv'
<1>1. /\ pc = "flush" /\ after = "drain" /\ pc' = "drain" /\ flushErr' = TRUE
      /\ disk' = [disk EXCEPT !.staging = NoEntries] /\ Drop(heap)
      /\ UNCHANGED <<mem, spilled, written, block, clock, out, decodes>>
  BY DEF LastFlushFails, evictVars, callerVars
<1>2. IsDisk(disk) /\ DOMAIN NoEntries = {}
      /\ NoEntries \in [{} -> RefRec \cup OwnedRec]
  BY DEF PlacesInv, PlacesType, NoEntries
<1>3. /\ disk'.staging = NoEntries /\ disk'.index = disk.index
      /\ disk'.blobs = disk.blobs /\ disk'.live = disk.live
      /\ disk'.len = disk.len /\ disk'.cache = disk.cache /\ IsDiskRecord(disk')
  BY <1>1, <1>2 DEF IsDisk, IsDiskRecord
<1>4. DiskKeys(disk') \subseteq DiskKeys(disk) /\ DOMAIN disk'.staging = {}
  BY <1>2, <1>3 DEF DiskKeys
<1>5. IsMap(disk'.staging, RefRec \cup OwnedRec)
  BY <1>2, <1>3 DEF IsMap
<1>6. IsDisk(disk')
  BY <1>2, <1>3, <1>4, <1>5 DEF IsDisk
<1>7. spilled = << >> /\ Undrained
  BY <1>1 DEF PlacesInv, Phases, Undrained
<1>8. PlacesType' /\ PlacesFit'
  <2>1. /\ heap \in [Batches -> Seq(Row)] /\ IsMap(mem', BufferedRecord)
        /\ spilled' \in Seq([key : Keys, rec : RefRec])
        /\ IsMap(written', Sense)
    BY <1>1 DEF PlacesInv, PlacesType
  <2>2. MapFits(mem', heap, written') /\ SpillFits(spilled', heap, written')
    BY <1>1 DEF PlacesInv, PlacesFit
  <2>3. Apart(mem', disk', spilled')
    BY <1>1, <1>4 DEF PlacesInv, PlacesFit, Apart
  <2>4. MapFits(disk'.staging, heap, written')
    BY <1>4 DEF MapFits
  <2> QED BY <1>1, <1>6, <2>1, <2>2, <2>3, <2>4, Settle
<1>9. CallerType'
  BY <1>1 DEF PlacesInv, CallerType, Pcs
<1>10. Phases' /\ Whole' /\ Drained'
  BY <1>1, <1>4, <1>7 DEF Phases, Whole, Drained, Undrained
<1>11. DecodedOnce'
  <2>1. decodes' = << >>
    BY <1>1, <1>7 DEF PlacesInv, Whole
  <2>2. DOMAIN decodes' = {}
    BY <2>1
  <2> QED BY <2>2 DEF DecodedOnce, IsInjective, ToSet
<1> QED BY <1>8, <1>9, <1>10, <1>11 DEF PlacesInv

-----------------------------------------------------------------------------
(* The base rows and the drain. *)

(* A base row takes its record out of either tier. *)
LEMMA RemoveStep ==
    ASSUME PlacesInv, RemoveMatched
    PROVE  PlacesInv'
<1>1. PICK k \in Keys : /\ RemoveInMemory(k) \/ RemoveOnDisk(k)
                        /\ written' = Without(written, {k})
  BY DEF RemoveMatched
<1>2. /\ pc = "base" /\ Drop(heap)
      /\ UNCHANGED <<spilled, block, clock, out, decodes, flushErr, pc, after>>
  BY DEF RemoveMatched, evictVars, callerVars, drainVars
<1>3. spilled = << >> /\ Undrained /\ ~flushErr
  BY <1>2 DEF PlacesInv, Phases, Undrained
<1>4. SpillKeys(spilled) = {} /\ DOMAIN spilled = {}
  BY <1>3, NothingInTransit
<1>5. /\ DOMAIN written' = DOMAIN written \ {k}
      /\ \A j \in DOMAIN written \ {k} : written'[j] = written[j]
  BY <1>1 DEF Without
<1>6. /\ heap \in [Batches -> Seq(Row)] /\ IsMap(mem, BufferedRecord)
      /\ IsDisk(disk) /\ spilled' \in Seq([key : Keys, rec : RefRec])
      /\ IsMap(written, Sense)
  BY <1>2 DEF PlacesInv, PlacesType
<1>7. IsMap(written', Sense)
  BY <1>1, <1>6, WithoutMap
<1>8. /\ MapFits(mem, heap, written) /\ MapFits(disk.staging, heap, written)
      /\ IndexFits(disk, written) /\ DOMAIN mem \cap DiskKeys(disk) = {}
      /\ DOMAIN written \subseteq DOMAIN mem \cup DiskKeys(disk)
      /\ disk.len = Cardinality(DiskKeys(disk))
  BY <1>3, <1>4 DEF PlacesInv, PlacesFit, Apart, Whole
<1>9. SpillFits(spilled', heap, written')
  BY <1>2, <1>4 DEF SpillFits
<1>10. /\ PlacesType' /\ PlacesFit'
       /\ DOMAIN written' \subseteq DOMAIN mem' \cup DiskKeys(disk')
       /\ disk'.len = Cardinality(DiskKeys(disk'))
       /\ disk'.live = disk.live
  <2>1. CASE RemoveInMemory(k)
    <3>1. k \in DOMAIN mem /\ mem' = Without(mem, {k}) /\ disk' = disk
      BY <2>1 DEF RemoveInMemory
    <3>2. /\ DOMAIN mem' = DOMAIN mem \ {k}
          /\ \A j \in DOMAIN mem' : mem'[j] = mem[j]
      BY <3>1 DEF Without
    <3>3. IsMap(mem', BufferedRecord)
      BY <1>6, <3>1, WithoutMap
    <3>4. k \notin DiskKeys(disk)
      BY <1>8, <3>1
    <3>5. MapFits(mem', heap, written')
      BY <1>5, <1>8, <3>2 DEF MapFits
    <3>6. MapFits(disk'.staging, heap, written') /\ IndexFits(disk', written')
      BY <1>5, <1>8, <3>1, <3>4 DEF MapFits, IndexFits, DiskKeys
    <3>7. Apart(mem', disk', spilled')
      BY <1>2, <1>4, <1>8, <3>1, <3>2 DEF Apart
    <3>8. PlacesType' /\ PlacesFit'
      BY <1>2, <1>6, <1>7, <1>9, <3>1, <3>3, <3>5, <3>6, <3>7, Settle
    <3> QED BY <1>5, <1>8, <3>1, <3>2, <3>8
  <2>2. CASE RemoveOnDisk(k)
    <3> DEFINE d == Probed(k)
    <3>1. /\ k \notin DOMAIN mem /\ k \in DiskKeys(disk) /\ mem' = mem
          /\ disk' = [d EXCEPT !.staging = Without(@, {k}),
                               !.index = Without(@, {k}), !.len = @ - 1]
      BY <2>2 DEF RemoveOnDisk, OnDisk, DiskKeys
    <3>2. /\ IsDisk(d) /\ d.live = disk.live
          /\ d.staging = disk.staging /\ d.index = disk.index
          /\ d.blobs = disk.blobs /\ d.len = disk.len
      BY <1>6, ProbedProps
    <3> HIDE DEF d
    <3>3. /\ disk'.staging = Without(d.staging, {k})
          /\ disk'.index = Without(d.index, {k})
          /\ disk'.len = d.len - 1 /\ disk'.live = d.live
          /\ disk'.blobs = d.blobs /\ disk'.cache = d.cache
          /\ IsDiskRecord(disk')
      BY <3>1, <3>2 DEF IsDisk, IsDiskRecord
    <3>4. /\ DOMAIN disk'.staging = DOMAIN disk.staging \ {k}
          /\ \A j \in DOMAIN disk'.staging : disk'.staging[j] = disk.staging[j]
      BY <3>2, <3>3 DEF Without
    <3>5. /\ DOMAIN disk'.index = DOMAIN disk.index \ {k}
          /\ \A j \in DOMAIN disk'.index : disk'.index[j] = disk.index[j]
      BY <3>2, <3>3 DEF Without
    <3>6. DiskKeys(disk') = DiskKeys(disk) \ {k}
      BY <3>4, <3>5 DEF DiskKeys
    <3>7. /\ IsMap(disk'.staging, RefRec \cup OwnedRec)
          /\ IsMap(disk'.index, IndexEntry)
      BY <3>2, <3>3, WithoutMap DEF IsDisk
    <3>8. disk'.len = Cardinality(DiskKeys(disk')) /\ disk'.len \in Nat
      <4>1. IsFiniteSet(DiskKeys(disk))
        BY <1>6, DiskKeysFinite
      <4>2. Cardinality(DiskKeys(disk) \ {k}) = Cardinality(DiskKeys(disk)) - 1
            /\ IsFiniteSet(DiskKeys(disk) \ {k})
        BY <3>1, <4>1, FS_RemoveElement
      <4>3. Cardinality(DiskKeys(disk) \ {k}) \in Nat
        BY <4>2, FS_CardinalityType
      <4> QED BY <1>8, <3>2, <3>3, <3>6, <4>2, <4>3
    <3>9. disk.live
      BY <1>6, <3>1 DEF IsDisk
    <3>10. IsDisk(disk')
      BY <3>2, <3>3, <3>7, <3>8, <3>9 DEF IsDisk
    <3>11. MapFits(mem', heap, written')
      BY <1>5, <1>8, <3>1 DEF MapFits
    <3>12. MapFits(disk'.staging, heap, written')
      BY <1>5, <1>8, <3>4 DEF MapFits
    <3>13. IndexFits(disk', written')
      BY <1>5, <1>8, <3>2, <3>3, <3>4, <3>5 DEF IndexFits
    <3>14. Apart(mem', disk', spilled')
      BY <1>2, <1>4, <1>8, <3>1, <3>6 DEF Apart
    <3>15. IsMap(mem', BufferedRecord)
      BY <1>6, <3>1
    <3>16. PlacesType' /\ PlacesFit'
      BY <1>2, <1>6, <1>7, <1>9, <3>10, <3>11, <3>12, <3>13, <3>14, <3>15, Settle
    <3> QED BY <1>5, <1>8, <3>1, <3>2, <3>3, <3>6, <3>8, <3>16
  <2> QED BY <1>1, <2>1, <2>2
<1>11. Undrained' /\ Phases' /\ pc' \in Pcs
  BY <1>2, <1>3, <1>10 DEF Undrained, Phases, Pcs
<1>12. /\ block' \in [batch : Batches \cup {NoBatch}, next : Nat \ {0}]
       /\ clock' \in 0 .. MaxClock
  BY <1>2 DEF PlacesInv, CallerType
<1> QED BY <1>2, <1>3, <1>10, <1>11, <1>12, OpenStep

(* p is o with v given out for k. *)
GivenOut(o, k, v, p) == p = [o EXCEPT ![k] = Append(@, v)]

(* What comes out is what was written, and it was not out before. *)
LEMMA YieldedOut ==
    ASSUME NEW o \in [Keys -> Seq(Sense)], NEW k \in Keys, NEW v \in Sense,
           NEW p, GivenOut(o, k, v, p)
    PROVE  /\ p \in [Keys -> Seq(Sense)]
           /\ \A j \in Keys \ {k} : p[j] = o[j]
           /\ o[k] = << >> => p[k] = <<v>>
<1>1. Append(o[k], v) \in Seq(Sense)
  OBVIOUS
<1>2. p[k] = Append(o[k], v)
  BY DEF GivenOut
<1>3. o[k] = << >> => Append(o[k], v) = <<v>>
  <2>1. Append(<< >>, v) = <<v>>
    OBVIOUS
  <2> QED BY <2>1
<1>4. p \in [Keys -> Seq(Sense)] /\ \A j \in Keys \ {k} : p[j] = o[j]
  BY <1>1 DEF GivenOut
<1> QED BY <1>2, <1>3, <1>4

(* The drain gives out a record kept in memory. *)
LEMMA YieldInMemoryStep ==
    ASSUME PlacesInv, YieldInMemory
    PROVE  PlacesInv'
<1>1. PICK k \in DOMAIN mem :
        /\ out' = [out EXCEPT ![k] = Append(@, Meaning(mem[k]))]
        /\ mem' = Without(mem, {k})
  BY DEF YieldInMemory
<1>2. /\ pc = "drain" /\ Drop(heap)
      /\ UNCHANGED <<disk, spilled, written, block, clock, decodes, flushErr,
                     pc, after>>
  BY DEF YieldInMemory, evictVars, callerVars
<1>3. /\ heap \in [Batches -> Seq(Row)] /\ IsMap(mem, BufferedRecord)
      /\ IsDisk(disk') /\ spilled' \in Seq([key : Keys, rec : RefRec])
      /\ IsMap(written, Sense) /\ IsMap(written', Sense)
  BY <1>2 DEF PlacesInv, PlacesType
<1>4. /\ k \in Keys /\ k \in DOMAIN written /\ Meaning(mem[k]) = written[k]
      /\ written[k] \in Sense
  BY <1>3, MeaningNow DEF PlacesInv, PlacesFit, MapFits, RecordFits, IsMap
<1>5. DOMAIN mem' = DOMAIN mem \ {k} /\ \A j \in DOMAIN mem' : mem'[j] = mem[j]
  BY <1>1 DEF Without
<1>6. IsMap(mem', BufferedRecord)
  BY <1>1, <1>3, WithoutMap
<1>7. /\ MapFits(mem', heap, written') /\ MapFits(disk'.staging, heap, written')
      /\ SpillFits(spilled', heap, written')
      /\ ~flushErr' => IndexFits(disk', written')
  BY <1>2, <1>5 DEF PlacesInv, PlacesFit, MapFits
<1>8. Apart(mem', disk', spilled') /\ k \notin DiskKeys(disk)
  BY <1>2, <1>5 DEF PlacesInv, PlacesFit, Apart
<1>9. PlacesType' /\ PlacesFit'
  BY <1>2, <1>3, <1>6, <1>7, <1>8, Settle
<1>10. out \in [Keys -> Seq(Sense)] /\ GivenOut(out, k, written[k], out')
  BY <1>1, <1>4 DEF PlacesInv, CallerType, GivenOut
<1>11. /\ out' \in [Keys -> Seq(Sense)]
       /\ \A j \in Keys \ {k} : out'[j] = out[j]
       /\ out[k] = << >> => out'[k] = <<written[k]>>
  BY <1>4, <1>10, YieldedOut
<1>12. CallerType'
  BY <1>2, <1>11 DEF PlacesInv, CallerType
<1>13. Phases' /\ Whole'
  BY <1>2 DEF PlacesInv, Phases, Whole, Undrained
<1>14. Drained'
  <2> SUFFICES ASSUME ~flushErr, NEW j \in Keys
               PROVE  out'[j] = IF j \in DOMAIN written \
                                        (DOMAIN mem' \cup DiskKeys(disk))
                                THEN <<written[j]>> ELSE << >>
    BY <1>2 DEF Drained
  <2>1. out[j] = IF j \in DOMAIN written \ (DOMAIN mem \cup DiskKeys(disk))
                 THEN <<written[j]>> ELSE << >>
    BY <1>2 DEF PlacesInv, Drained
  <2>2. CASE j = k
    BY <1>4, <1>5, <1>8, <1>11, <2>1, <2>2
  <2>3. CASE j # k
    BY <1>5, <1>11, <2>1, <2>3
  <2> QED BY <2>2, <2>3
<1>15. DecodedOnce'
  BY <1>2 DEF PlacesInv, DecodedOnce
<1> QED BY <1>9, <1>12, <1>13, <1>14, <1>15 DEF PlacesInv

(***************************************************************************)
(* The drain reads the index in the order of the blobs, so that a blob it  *)
(* has to decode is above all it decoded before, and in the cache for as   *)
(* long as an entry of it is left.                                         *)
(***************************************************************************)
LEMMA DecodedStep ==
    ASSUME PlacesInv, pc = "drain", DOMAIN mem = {}, NEW k \in NextOnDisk,
           disk'.cache = Loaded(disk.cache, k),
           DOMAIN disk'.index = DOMAIN disk.index \ {k},
           \A j \in DOMAIN disk'.index : disk'.index[j] = disk.index[j],
           decodes' = decodes \o SetToSeq(DecodedBy(k) \ ToSet(disk.cache))
    PROVE  DecodedOnce' /\ decodes' \in Seq(Nat)
<1> DEFINE D == DecodedBy(k)
           missed == D \ ToSet(disk.cache)
           s == SetToSeq(missed)
<1>1. IsDisk(disk) /\ DOMAIN disk.staging = {} /\ decodes \in Seq(Nat)
      /\ k \in DOMAIN disk.index
      /\ \A j \in DOMAIN disk.index \ {k} :
            ~DrainsBefore(disk.index[j], disk.index[k])
  BY DEF PlacesInv, PlacesType, CallerType, Phases, NextOnDisk
<1>2. D = IF disk.index[k].kind = "data" THEN {disk.index[k].blob} ELSE {}
  BY <1>1 DEF DecodedBy
<1>3. /\ D \subseteq Nat /\ IsFiniteSet(D)
      /\ D \subseteq ToSet(disk.cache) => disk'.cache = disk.cache
      /\ D \subseteq ToSet(disk'.cache)
  BY <1>1, LoadedProps
<1>4. \A j \in DOMAIN disk.index : disk.index[j] \in IndexEntry
  BY <1>1 DEF IsDisk, IsMap
<1>5. decodes' = decodes \o s
  OBVIOUS
<1> HIDE DEF D
<1>6. missed \subseteq Nat /\ IsFiniteSet(missed)
  BY <1>3, FS_Subset
<1> HIDE DEF missed
<1>7. s \in Seq(missed) /\ ToSet(s) = missed /\ IsInjective(s)
  BY <1>6, SetToSeqProps
<1> HIDE DEF s
<1>8. s \in Seq(Nat)
  <2>1. s \in [1 .. Len(s) -> missed] /\ Len(s) \in Nat
    BY <1>7
  <2>2. s \in [1 .. Len(s) -> Nat]
    BY <1>6, <2>1
  <2> QED BY <2>1, <2>2
<1>9. \A b \in missed : \A d \in ToSet(decodes) : d < b
  BY <1>1, <1>2 DEF missed, PlacesInv, DecodedOnce
<1>10. ToSet(decodes) \cap ToSet(s) = {}
  <2>1. ToSet(decodes) \subseteq Nat
    BY <1>1 DEF ToSet
  <2> QED BY <1>6, <1>7, <1>9, <2>1
<1>11. /\ IsInjective(decodes') /\ ToSet(decodes') = ToSet(decodes) \cup missed
       /\ decodes' \in Seq(Nat)
  <2>1. IsInjective(decodes)
    BY DEF PlacesInv, DecodedOnce
  <2>2. IsInjective(decodes \o s)
    BY <1>1, <1>7, <1>8, <1>10, <2>1, ConcatSet
  <2>3. ToSet(decodes \o s) = ToSet(decodes) \cup ToSet(s)
    BY <1>1, <1>8, ConcatSet
  <2>4. decodes \o s \in Seq(Nat)
    BY <1>1, <1>8
  <2> QED BY <1>5, <1>7, <2>2, <2>3, <2>4
<1>12. ASSUME NEW j \in DOMAIN disk'.index, disk'.index[j].kind = "data",
              NEW b \in ToSet(decodes')
       PROVE  \/ b < disk'.index[j].blob
              \/ b = disk'.index[j].blob /\ b \in ToSet(disk'.cache)
  <2> DEFINE e == disk.index[j]
             f == disk.index[k]
  <2>1. e = disk'.index[j] /\ e \in IndexEntry /\ f \in IndexEntry
        /\ ~DrainsBefore(e, f) /\ j \in DOMAIN disk.index
    BY <1>1, <1>4
  <2>2. e.kind = "data" /\ f.kind = "data" /\ f.blob \in Nat /\ e.blob \in Nat
        /\ f.blob <= e.blob
    <3>1. e.kind = "data"
      BY <1>12, <2>1
    <3>2. f.kind = "data"
      BY <2>1, <3>1, EntryFields DEF DrainsBefore
    <3>3. f.blob \in Nat /\ e.blob \in Nat
      BY <2>1, <3>1, <3>2, EntryFields
    <3> QED BY <2>1, <3>1, <3>2, <3>3 DEF DrainsBefore
  <2>3. D = {f.blob}
    BY <1>2, <2>2
  <2>4. CASE b \in missed
    <3>1. b = f.blob
      BY <2>3, <2>4 DEF missed
    <3>2. b \in ToSet(disk'.cache)
      BY <1>3, <2>3, <3>1
    <3> QED BY <2>1, <2>2, <3>1, <3>2
  <2>5. CASE b \in ToSet(decodes) /\ missed = {}
    <3>1. disk'.cache = disk.cache
      BY <1>3, <2>5 DEF missed
    <3>2. \/ b < e.blob
          \/ b = e.blob /\ b \in ToSet(disk.cache)
      BY <2>1, <2>2, <2>5 DEF PlacesInv, DecodedOnce
    <3> QED BY <2>1, <3>1, <3>2
  <2>6. CASE b \in ToSet(decodes) /\ missed # {}
    <3>1. f.blob \in missed
      BY <2>3, <2>6 DEF missed
    <3>2. b < f.blob /\ b \in Nat
      BY <1>1, <1>9, <2>6, <3>1 DEF ToSet
    <3> QED BY <2>1, <2>2, <3>2
  <2> QED BY <1>11, <2>4, <2>5, <2>6
<1> QED BY <1>11, <1>12 DEF DecodedOnce

(* The drain gives out a record kept on disk. *)
LEMMA YieldOnDiskStep ==
    ASSUME PlacesInv, YieldOnDisk
    PROVE  PlacesInv'
<1>1. PICK k \in NextOnDisk :
        /\ out' = [out EXCEPT ![k] = Append(@, Meaning(RecordFromEntry(k)))]
        /\ disk' = [Probed(k) EXCEPT !.index = Without(@, {k})]
        /\ decodes' = decodes \o SetToSeq(DecodedBy(k) \ ToSet(disk.cache))
  BY DEF YieldOnDisk
<1>2. /\ pc = "drain" /\ DOMAIN mem = {} /\ ~flushErr
      /\ UNCHANGED <<mem, heap, spilled, written, block, clock, flushErr,
                     pc, after>>
  BY DEF YieldOnDisk, evictVars, callerVars
<1>3. IsDisk(disk) /\ k \in DOMAIN disk.index /\ DOMAIN disk.staging = {}
      /\ DOMAIN disk.index \subseteq Keys /\ IsMap(written, Sense)
  BY <1>2 DEF PlacesInv, PlacesType, Phases, NextOnDisk, IsDisk, IsMap
<1>4. k \in Keys /\ k \in DOMAIN written /\ written[k] \in Sense
      /\ Meaning(RecordFromEntry(k)) = written[k]
  <2>1. ContainsKey(k) /\ Get(k) = RecordFromEntry(k)
    BY <1>2, <1>3 DEF ContainsKey, OnDisk, Get, DiskGet
  <2>2. k \in DOMAIN written /\ RecordFits(heap, Get(k), written[k])
    BY <1>2, <2>1, GetFits
  <2>3. MeaningIn(heap, RecordFromEntry(k)) = written[k]
    BY <2>1, <2>2 DEF RecordFits
  <2>4. Meaning(RecordFromEntry(k)) = written[k]
    BY <2>3, MeaningNow
  <2> QED BY <1>3, <2>2, <2>4 DEF IsMap
<1> DEFINE d == Probed(k)
<1>5. /\ IsDisk(d) /\ d.live = disk.live
      /\ d.staging = disk.staging /\ d.index = disk.index
      /\ d.blobs = disk.blobs /\ d.len = disk.len
      /\ d.cache = Loaded(disk.cache, k)
  BY <1>3, ProbedProps
<1>6. disk' = [d EXCEPT !.index = Without(@, {k})]
  BY <1>1
<1> HIDE DEF d
<1>7. /\ disk'.staging = d.staging /\ disk'.index = Without(d.index, {k})
      /\ disk'.len = d.len /\ disk'.live = d.live
      /\ disk'.blobs = d.blobs /\ disk'.cache = d.cache
      /\ IsDiskRecord(disk')
  BY <1>5, <1>6 DEF IsDisk, IsDiskRecord
<1>8. /\ DOMAIN disk'.index = DOMAIN disk.index \ {k}
      /\ \A j \in DOMAIN disk'.index : disk'.index[j] = disk.index[j]
  BY <1>5, <1>7 DEF Without
<1>9. DiskKeys(disk') = DiskKeys(disk) \ {k}
  BY <1>3, <1>5, <1>7, <1>8 DEF DiskKeys
<1>10. IsDisk(disk')
  <2>1. IsMap(disk'.index, IndexEntry)
    BY <1>5, <1>7, WithoutMap DEF IsDisk
  <2>2. k \in DiskKeys(disk)
    BY <1>3 DEF DiskKeys
  <2>3. disk.live
    BY <1>3, <2>2 DEF IsDisk
  <2> QED BY <1>5, <1>7, <2>1, <2>3 DEF IsDisk
<1>11. PlacesType'
  BY <1>2, <1>10 DEF PlacesInv, PlacesType
<1>12. PlacesFit'
  <2>1. IndexFits(disk', written)
    BY <1>2, <1>5, <1>7, <1>8 DEF PlacesInv, PlacesFit, IndexFits
  <2>2. Apart(mem', disk', spilled')
    BY <1>2, <1>9 DEF PlacesInv, PlacesFit, Apart
  <2> QED BY <1>2, <1>5, <1>7, <2>1, <2>2 DEF PlacesInv, PlacesFit
<1>13. DecodedOnce' /\ decodes' \in Seq(Nat)
  BY <1>1, <1>2, <1>5, <1>7, <1>8, DecodedStep
<1>14. out \in [Keys -> Seq(Sense)] /\ GivenOut(out, k, written[k], out')
  BY <1>1, <1>4 DEF PlacesInv, CallerType, GivenOut
<1>15. /\ out' \in [Keys -> Seq(Sense)]
       /\ \A j \in Keys \ {k} : out'[j] = out[j]
       /\ out[k] = << >> => out'[k] = <<written[k]>>
  BY <1>4, <1>14, YieldedOut
<1>16. CallerType'
  BY <1>2, <1>13, <1>15 DEF PlacesInv, CallerType
<1>17. Phases' /\ Whole'
  BY <1>2, <1>3, <1>5, <1>7 DEF PlacesInv, Phases, Whole, Undrained
<1>18. Drained'
  <2> SUFFICES ASSUME NEW j \in Keys
               PROVE  out'[j] = IF j \in DOMAIN written \
                                        (DOMAIN mem \cup DiskKeys(disk'))
                                THEN <<written[j]>> ELSE << >>
    BY <1>2 DEF Drained
  <2>1. out[j] = IF j \in DOMAIN written \ (DOMAIN mem \cup DiskKeys(disk))
                 THEN <<written[j]>> ELSE << >>
    BY <1>2 DEF PlacesInv, Drained
  <2>2. k \in DiskKeys(disk)
    BY <1>3 DEF DiskKeys
  <2>3. CASE j = k
    BY <1>2, <1>4, <1>9, <1>15, <2>1, <2>2, <2>3
  <2>4. CASE j # k
    BY <1>2, <1>9, <1>15, <2>1, <2>4
  <2> QED BY <2>3, <2>4
<1> QED BY <1>11, <1>12, <1>13, <1>16, <1>17, <1>18 DEF PlacesInv

-----------------------------------------------------------------------------
(* The invariant, and what it gives. *)

(* An empty map, an empty disk tier. *)
LEMMA PlacesInvInit == Init => PlacesInv
<1> SUFFICES ASSUME Init PROVE PlacesInv
  OBVIOUS
<1>1. /\ mem = << >> /\ disk = NoDisk /\ heap = [b \in Batches |-> << >>]
      /\ pc = "scan" /\ spilled = << >>
      /\ block = [batch |-> NoBatch, next |-> 1] /\ clock = 0
      /\ out = [k \in Keys |-> << >>] /\ decodes = << >> /\ flushErr = FALSE
      /\ written = << >>
  BY DEF Init, NoEntries
<1>2. DOMAIN << >> = {}
  OBVIOUS
<1>3. \A T : IsMap(<< >>, T)
  <2>1. \A T : << >> \in [{} -> T]
    OBVIOUS
  <2> QED BY <1>2, <2>1 DEF IsMap
<1>4. \A T : << >> \in Seq(T)
  OBVIOUS
<1>5. /\ disk.staging = << >> /\ disk.index = << >> /\ disk.live = FALSE
      /\ disk.blobs = << >> /\ disk.len = 0 /\ disk.cache = << >>
      /\ IsDiskRecord(disk)
  BY <1>1 DEF NoDisk, NoEntries, IsDiskRecord
<1>6. DiskKeys(disk) = {}
  BY <1>2, <1>5 DEF DiskKeys
<1>7. IsDisk(disk)
  <2>1. Len(disk.cache) <= SpillBatchCache /\ disk.cache \in Seq(Nat)
    BY <1>5, ConstantsAssumption
  <2>2. /\ disk.blobs \in Seq(Seq(Row)) /\ disk.len \in Nat
        /\ disk.live \in BOOLEAN
    <3>1. disk.blobs \in Seq(Seq(Row)) /\ disk.live \in BOOLEAN
      BY <1>4, <1>5, Zenon
    <3>2. disk.len \in Nat
      BY <1>5
    <3> QED BY <3>1, <3>2, Zenon
  <2>3. /\ IsMap(disk.staging, RefRec \cup OwnedRec)
        /\ IsMap(disk.index, IndexEntry)
    BY <1>3, <1>5
  <2> QED BY <1>5, <1>6, <2>1, <2>2, <2>3 DEF IsDisk
<1>8. PlacesType
  <2>1. heap \in [Batches -> Seq(Row)]
    BY <1>1, <1>4
  <2>2. IsMap(mem, BufferedRecord) /\ IsMap(written, Sense)
    BY <1>1, <1>3
  <2>3. spilled \in Seq([key : Keys, rec : RefRec])
    BY <1>1
  <2> QED BY <1>7, <2>1, <2>2, <2>3 DEF PlacesType
<1>9. CallerType
  <2>1. out \in [Keys -> Seq(Sense)] /\ decodes \in Seq(Nat)
    BY <1>1, <1>4
  <2>2. /\ block \in [batch : Batches \cup {NoBatch}, next : Nat \ {0}]
        /\ clock \in 0 .. MaxClock
    BY <1>1, ConstantsAssumption
  <2> QED BY <1>1, <2>1, <2>2 DEF CallerType, Pcs
<1>10. SpillKeys(spilled) = {} /\ DOMAIN spilled = {} /\ DOMAIN mem = {}
       /\ DOMAIN written = {}
  BY <1>1, <1>2 DEF SpillKeys
<1>11. PlacesFit
  BY <1>2, <1>5, <1>6, <1>10 DEF PlacesFit, MapFits, SpillFits, IndexFits, Apart
<1>12. Phases
  BY <1>1 DEF Phases
<1>13. Whole
  <2>1. Cardinality({}) = 0
    BY FS_EmptySet
  <2> QED BY <1>1, <1>5, <1>6, <1>10, <2>1 DEF Whole
<1>14. Drained
  BY <1>1 DEF Drained
<1>15. DecodedOnce
  BY <1>1, <1>2, <1>5 DEF DecodedOnce, IsInjective, ToSet
<1> QED BY <1>8, <1>9, <1>11, <1>12, <1>13, <1>14, <1>15 DEF PlacesInv

(* Nothing changes. *)
LEMMA PlacesStutter ==
    ASSUME PlacesInv, UNCHANGED vars
    PROVE  PlacesInv'
<1>1. /\ UNCHANGED <<mem, disk, heap, spilled, written, block, clock, out,
                     decodes, flushErr>>
      /\ pc' = pc /\ after' = after
  BY DEF vars, evictVars, readVars, callerVars, drainVars
<1>2. pc' \in Pcs /\ Phases' /\ (Undrained' => Undrained) /\ Drained'
  BY <1>1 DEF PlacesInv, CallerType, Phases, Undrained, Drained
<1> QED BY <1>1, <1>2, QuietStep

(* Every step keeps the invariant: one case per action. *)
LEMMA PlacesInvStep == PlacesInv /\ [Next]_vars => PlacesInv'
<1> SUFFICES ASSUME PlacesInv, [Next]_vars PROVE PlacesInv'
  OBVIOUS
<1>1. CASE Scan
  BY <1>1, DecodeBatchStep, MergeRowStep, MergeDeleteStep, LetGoStep DEF Scan
<1>2. CASE LookupFails \/ InsertFails
  <2>1. FailRead("disk")
    BY <1>2 DEF LookupFails, InsertFails
  <2> QED BY <2>1, FailStep
<1>3. CASE EnforceLimits
  <2>1. CASE RejectFootprint \/ SpillFails
    <3>1. FailRead("limit") \/ FailRead("disk")
      BY <2>1 DEF RejectFootprint, SpillFails
    <3> QED BY <3>1, FailStep
  <2> QED BY <1>3, <2>1, ChooseStep, CompactVictimStep, SpillVictimStep,
             SpillPutStep, LetGoStep DEF EnforceLimits
<1>4. CASE Flush
  <2>1. CASE FlushFails
    BY <2>1, FailStep DEF FlushFails
  <2> QED BY <1>4, <2>1, FlushGroupStep, FlushDoneStep, LastFlushFailsStep
          DEF Flush
<1>5. CASE CompactSparseBatches
  BY <1>5, ChooseStep, CompactVictimStep DEF CompactSparseBatches
<1>6. CASE RemoveMatched
  BY <1>6, RemoveStep
<1>7. CASE Drain
  <2>1. CASE DrainFails
    BY <2>1, FailStep DEF DrainFails
  <2> QED BY <1>7, <2>1, StartDrainStep, YieldInMemoryStep, YieldOnDiskStep,
             DrainDoneStep DEF Drain
<1>8. CASE Over
  BY <1>8, ChooseStep
<1>9. CASE UNCHANGED vars
  BY <1>9, PlacesStutter
<1> QED BY <1>1, <1>2, <1>3, <1>4, <1>5, <1>6, <1>7, <1>8, <1>9 DEF Next

(* Every place holds what was written, no key is in two, none is lost. *)
THEOREM PlacesTheorem == Spec => []PlacesInv
BY PlacesInvInit, PlacesInvStep, PTL DEF Spec

(***************************************************************************)
(* A key lives in exactly one tier and get finds there what the caller     *)
(* last stored, whatever was evicted, compacted, spilled, flushed and      *)
(* overwritten before: insert, merge_in_place, spill_victim_batch,         *)
(* compact_victim_batch, RocksDbDiskMap::put and flush, remove.            *)
(***************************************************************************)
THEOREM LookupTheorem == Spec => []LookupExact
<1>1. PlacesInv => LookupExact
  <2> SUFFICES ASSUME PlacesInv, Settled
               PROVE  /\ DOMAIN mem \cup DOMAIN disk.staging
                            \cup DOMAIN disk.index = DOMAIN written
                      /\ \A k \in DOMAIN mem : ~OnDisk(k)
                      /\ \A k \in DOMAIN written : Meaning(Get(k)) = written[k]
    BY DEF LookupExact
  <2>1. spilled = << >> /\ ~flushErr /\ Undrained
    BY DEF PlacesInv, CallerType, Phases, Settled, Undrained
  <2>2. SpillKeys(spilled) = {}
    BY <2>1, NothingInTransit
  <2>3. DOMAIN written \subseteq DOMAIN mem \cup DiskKeys(disk)
    BY <2>1, <2>2 DEF PlacesInv, Whole
  <2>4. ASSUME NEW k, ContainsKey(k)
        PROVE  k \in DOMAIN written /\ Meaning(Get(k)) = written[k]
    <3>1. k \in DOMAIN written /\ RecordFits(heap, Get(k), written[k])
      BY <2>1, <2>4, GetFits
    <3>2. MeaningIn(heap, Get(k)) = written[k]
      BY <3>1 DEF RecordFits
    <3> QED BY <3>1, <3>2, MeaningNow
  <2>5. \A k \in DOMAIN written : ContainsKey(k)
    BY <2>3 DEF ContainsKey, OnDisk, DiskKeys
  <2>6. \A k \in DOMAIN mem \cup DiskKeys(disk) : ContainsKey(k)
    BY DEF ContainsKey, OnDisk, DiskKeys
  <2>7. \A k \in DOMAIN mem : ~OnDisk(k)
    BY DEF PlacesInv, PlacesFit, Apart, OnDisk, DiskKeys
  <2> QED BY <2>3, <2>4, <2>5, <2>6, <2>7 DEF DiskKeys
<1> QED BY <1>1, PlacesTheorem, PTL

(***************************************************************************)
(* A drain that ends without an error gave out every record left in the    *)
(* map, spilled or not, exactly once, and never decoded a spilled batch    *)
(* twice: drain_iter over into_drain_iter's order and load_batch's cache.  *)
(***************************************************************************)
THEOREM DrainTheorem == Spec => []DrainExact
<1>1. PlacesInv => DrainExact
  <2> SUFFICES ASSUME PlacesInv PROVE DrainExact
    OBVIOUS
  <2>1. IsInjective(decodes)
    BY DEF PlacesInv, DecodedOnce
  <2>2. ASSUME pc = "done", NEW k \in Keys
        PROVE  out[k] = IF k \in DOMAIN written THEN <<written[k]>> ELSE << >>
    <3>1. DOMAIN mem = {} /\ DiskKeys(disk) = {} /\ ~flushErr
      BY <2>2 DEF PlacesInv, CallerType, Phases
    <3>2. out[k] = IF k \in DOMAIN written \ (DOMAIN mem \cup DiskKeys(disk))
                   THEN <<written[k]>> ELSE << >>
      BY <2>2, <3>1 DEF PlacesInv, Drained
    <3> QED BY <3>1, <3>2
  <2> QED BY <2>1, <2>2 DEF DrainExact
<1> QED BY <1>1, PlacesTheorem, PTL

-----------------------------------------------------------------------------
(***************************************************************************)
(* The refinement.  What the tiers hold together is, while the map is      *)
(* open, what was written, and in the drain what of it has not come out.   *)
(***************************************************************************)

View ==
    IF pc = "failed" THEN << >>
    ELSE IF Undrained THEN written
    ELSE IF flushErr THEN [k \in DOMAIN mem |-> written[k]]
    ELSE [k \in DOMAIN mem \cup DiskKeys(disk) |-> written[k]]

(* The refinement mapping's state. *)
AbstractState ==
    CASE pc = "done" -> "drained"
      [] pc = "failed" -> "failed"
      [] pc = "drain" /\ flushErr -> "broken"
      [] pc = "drain" /\ ~flushErr -> "draining"
      [] pc = "flush" /\ after = "drain" -> "draining"
      [] OTHER -> "open"

(* The map is open: neither drained nor on its way to the drain. *)
Open == Undrained /\ ~(pc = "flush" /\ after = "drain")

ViewExact == Contents = View

(* Whatever the tier, what the map holds is the view. *)
LEMMA ContentsAreView == PlacesInv => ViewExact
<1> SUFFICES ASSUME PlacesInv PROVE Contents = View
  BY DEF ViewExact
<1>1. CASE pc = "failed"
  BY <1>1 DEF Contents, View
<1>2. \A k \in DOMAIN mem : Meaning(mem[k]) = written[k]
  BY MeaningNow DEF PlacesInv, PlacesFit, MapFits, RecordFits
<1>3. CASE pc # "failed" /\ flushErr
  <2>1. pc = "drain" /\ ~Undrained
    BY <1>3 DEF PlacesInv, Phases, Undrained
  <2>2. View = [k \in DOMAIN mem |-> written[k]]
    BY <1>3, <2>1 DEF View
  <2>3. Contents = [k \in DOMAIN mem |-> Meaning(mem[k])]
    BY <1>3 DEF Contents
  <2> QED BY <1>2, <2>2, <2>3
<1>4. CASE pc # "failed" /\ ~flushErr
  <2> DEFINE D == DOMAIN mem \cup SpillKeys(spilled) \cup DiskKeys(disk)
  <2>1. ASSUME NEW k \in SpillKeys(spilled)
        PROVE  k \in DOMAIN written /\ Meaning(RecordAt(k)) = written[k]
    <3> DEFINE j == CHOOSE i \in DOMAIN spilled : spilled[i].key = k
    <3>1. j \in DOMAIN spilled /\ spilled[j].key = k
      BY DEF SpillKeys
    <3>2. RecordAt(k) = spilled[j].rec
      BY DEF RecordAt, InTransit, SpillKeys
    <3> HIDE DEF j
    <3>3. k \in DOMAIN written /\ RecordFits(heap, spilled[j].rec, written[k])
      BY <3>1 DEF PlacesInv, PlacesFit, SpillFits
    <3>4. MeaningIn(heap, spilled[j].rec) = written[k]
      BY <3>3 DEF RecordFits
    <3> QED BY <3>2, <3>3, <3>4, MeaningNow
  <2>2. ASSUME NEW k \in DOMAIN mem \cup DiskKeys(disk),
               k \notin SpillKeys(spilled)
        PROVE  k \in DOMAIN written /\ Meaning(RecordAt(k)) = written[k]
    <3>1. RecordAt(k) = Get(k)
      BY <2>2 DEF RecordAt, InTransit, SpillKeys
    <3>2. ContainsKey(k)
      BY DEF ContainsKey, OnDisk, DiskKeys
    <3>3. k \in DOMAIN written /\ RecordFits(heap, Get(k), written[k])
      BY <1>4, <3>2, GetFits
    <3>4. MeaningIn(heap, Get(k)) = written[k]
      BY <3>3 DEF RecordFits
    <3> QED BY <3>1, <3>3, <3>4, MeaningNow
  <2>3. \A k \in D : k \in DOMAIN written /\ Meaning(RecordAt(k)) = written[k]
    BY <2>1, <2>2
  <2>4. Contents = [k \in D |-> Meaning(RecordAt(k))]
    BY <1>4 DEF Contents, InTransit, SpillKeys, DiskKeys
  <2> HIDE DEF D
  <2>5. Contents = [k \in D |-> written[k]]
    BY <2>3, <2>4
  <2>6. CASE Undrained
    <3>1. D = DOMAIN written
      BY <2>3, <2>6 DEF D, PlacesInv, Whole
    <3>2. written = [k \in DOMAIN written |-> written[k]]
      BY DEF PlacesInv, PlacesType, IsMap
    <3>3. View = written
      BY <1>4, <2>6 DEF View
    <3> QED BY <2>5, <3>1, <3>2, <3>3
  <2>7. CASE ~Undrained
    <3>1. spilled = << >>
      BY <1>4, <2>7 DEF PlacesInv, Phases, Undrained
    <3>2. D = DOMAIN mem \cup DiskKeys(disk)
      BY <3>1, NothingInTransit DEF D
    <3>3. View = [k \in DOMAIN mem \cup DiskKeys(disk) |-> written[k]]
      BY <1>4, <2>7 DEF View
    <3> QED BY <2>5, <3>2, <3>3
  <2> QED BY <2>6, <2>7
<1> QED BY <1>1, <1>3, <1>4

(* The actions of RecordMap, over what the mapping gives. *)
LEMMA AbstractStutter ==
    ASSUME UNCHANGED <<Contents, out, AbstractState>>
    PROVE  UNCHANGED Abstract!vars
BY DEF Abstract!vars, AbstractState

LEMMA AbstractPut ==
    ASSUME NEW k \in Keys, NEW r \in Sense,
           AbstractState = "open", AbstractState' = "open", out' = out,
           Contents' = With(Contents, k, r)
    PROVE  Abstract!Next
BY DEF Abstract!Next, Abstract!Put, AbstractState, With

LEMMA AbstractRemove ==
    ASSUME NEW k \in Keys,
           AbstractState = "open", AbstractState' = "open", out' = out,
           Contents' = Without(Contents, {k})
    PROVE  Abstract!Next
BY DEF Abstract!Next, Abstract!Remove, AbstractState, Without

LEMMA AbstractDrain ==
    ASSUME AbstractState = "open", AbstractState' = "draining", out' = out,
           Contents' = Contents
    PROVE  Abstract!Next
BY DEF Abstract!Next, Abstract!Drain, AbstractState

LEMMA AbstractBreak ==
    ASSUME AbstractState = "draining", AbstractState' = "broken", out' = out,
           NEW S \in SUBSET DOMAIN Contents,
           Contents' = [k \in S |-> Contents[k]]
    PROVE  Abstract!Next
BY DEF Abstract!Next, Abstract!Break, AbstractState

LEMMA AbstractYield ==
    ASSUME NEW k \in Keys, AbstractState \in {"draining", "broken"},
           AbstractState' = AbstractState, k \in DOMAIN Contents,
           GivenOut(out, k, Contents[k], out'),
           Contents' = Without(Contents, {k})
    PROVE  Abstract!Next
BY DEF Abstract!Next, Abstract!Yield, AbstractState, Without, GivenOut

LEMMA AbstractDrained ==
    ASSUME AbstractState \in {"open", "draining"}, AbstractState' = "drained",
           DOMAIN Contents = {}, out' = out, Contents' = Contents
    PROVE  Abstract!Next
BY DEF Abstract!Next, Abstract!Drained, AbstractState

LEMMA AbstractFail ==
    ASSUME AbstractState \in {"open", "draining", "broken"},
           AbstractState' = "failed", out' = out, Contents' = << >>
    PROVE  Abstract!Next
BY DEF Abstract!Next, Abstract!Fail, AbstractState

(* The view after a step. *)
LEMMA NextContents == PlacesInv' => ViewExact'
BY ContentsAreView, PTL

(* A step inside the map: what was written stays, wherever it now is. *)
LEMMA InnerStep ==
    ASSUME PlacesInv, PlacesInv', UNCHANGED <<written, out>>,
           Undrained, Undrained', Open' <=> Open
    PROVE  UNCHANGED Abstract!vars
<1>1. Contents = written /\ Contents' = written'
  BY ContentsAreView, NextContents DEF ViewExact, View, Undrained
<1>2. AbstractState' = AbstractState
  BY DEF AbstractState, Open, Undrained
<1> QED BY <1>1, <1>2, AbstractStutter

(* The steps that do not concern the caller while the map is open. *)
LEMMA InnerSteps ==
    ASSUME PlacesInv, PlacesInv',
           \/ DecodeBatch \/ EndBatch
           \/ CheckBudget \/ CheckCap \/ AcceptFootprint
           \/ CompactVictim \/ SpillVictim \/ SpillPut \/ SpillDone
           \/ EvictionDone \/ EndScan \/ CompactSparse \/ SparseDone
    PROVE  UNCHANGED Abstract!vars
<1>1. UNCHANGED <<written, out>>
  BY DEF DecodeBatch, EndBatch, CheckBudget, CheckCap, AcceptFootprint,
         CompactVictim, SpillVictim, SpillPut, SpillDone, EvictionDone,
         EndScan, CompactSparse, SparseDone, readVars, drainVars
<1>2. /\ pc \in {"scan", "soft", "cap", "capped", "evict", "spill", "sparse"}
      /\ \/ pc' \in {"scan", "soft", "cap", "capped", "evict", "spill",
                     "sparse", "base"}
         \/ pc' = "flush" /\ after' \in {"spill", "evict"}
  <2>1. CASE DecodeBatch \/ EndBatch
    BY <2>1 DEF DecodeBatch, EndBatch
  <2>2. CASE CheckBudget \/ CheckCap \/ AcceptFootprint \/ EvictionDone
    BY <2>2 DEF CheckBudget, CheckCap, AcceptFootprint, EvictionDone,
                StartEviction
  <2>3. CASE CompactVictim \/ SpillVictim
    BY <2>3 DEF CompactVictim, SpillVictim, Evicting
  <2>4. CASE SpillPut \/ SpillDone
    BY <2>4 DEF SpillPut, SpillDone, FlushWhenFull
  <2>5. CASE EndScan \/ CompactSparse \/ SparseDone
    BY <2>5 DEF EndScan, CompactSparse, SparseDone
  <2> QED BY <2>1, <2>2, <2>3, <2>4, <2>5
<1>3. Undrained /\ Undrained' /\ Open /\ Open'
  BY <1>2 DEF Undrained, Open
<1> QED BY <1>1, <1>3, InnerStep

(* Storing a record is Put, keeping the one there is a step inside. *)
LEMMA StoreMaps ==
    ASSUME PlacesInv, PlacesInv', MergeRow \/ MergeDelete
    PROVE  Abstract!Next \/ UNCHANGED Abstract!vars
<1>1. pc = "scan" /\ Undrained /\ Open
  BY DEF MergeRow, MergeDelete, Undrained, Open
<1>2. PICK k \in Keys : (\E r : Store(k, r)) \/ KeepExisting(k)
  BY DEF MergeRow, MergeDelete
<1>3. CASE KeepExisting(k)
  <2>1. UNCHANGED <<written, out>> /\ Undrained' /\ Open'
    BY <1>3 DEF KeepExisting, drainVars, Undrained, Open
  <2> QED BY <1>1, <2>1, InnerStep
<1>4. ASSUME NEW r, Store(k, r)
      PROVE  Abstract!Next
  <2>1. written' = With(written, k, Meaning(r)) /\ out' = out
    BY <1>4 DEF Store, drainVars
  <2>2. pc' = "soft" \/ pc' = "scan" \/ (pc' = "flush" /\ after' = "scan")
    BY <1>4 DEF Store, MergeInPlace, InsertOver, InsertOnDisk, InsertSpilled,
                InsertInMemory, FlushWhenFull
  <2>3. Undrained' /\ Open'
    BY <2>2 DEF Undrained, Open
  <2>4. Contents = written /\ Contents' = written'
    BY <1>1, <2>3, ContentsAreView, NextContents DEF ViewExact, View, Undrained
  <2>5. AbstractState = "open" /\ AbstractState' = "open"
    BY <1>1, <2>3 DEF AbstractState, Open, Undrained
  <2>6. written'[k] = Meaning(r) /\ k \in DOMAIN written'
    BY <2>1 DEF With
  <2>7. Meaning(r) \in Sense
    BY <2>6 DEF PlacesInv, PlacesType, IsMap
  <2> QED BY <2>1, <2>4, <2>5, <2>7, AbstractPut
<1> QED BY <1>2, <1>3, <1>4

(* A base row that takes its record removes it. *)
LEMMA RemoveMaps ==
    ASSUME PlacesInv, PlacesInv', RemoveMatched
    PROVE  Abstract!Next
<1>1. /\ pc = "base" /\ pc' = "base" /\ Undrained /\ Undrained'
      /\ Open /\ Open' /\ out' = out
  BY DEF RemoveMatched, Undrained, Open, drainVars
<1>2. PICK k \in Keys : written' = Without(written, {k})
  BY DEF RemoveMatched
<1>3. Contents = written /\ Contents' = written'
  BY <1>1, ContentsAreView, NextContents DEF ViewExact, View, Undrained
<1>4. AbstractState = "open" /\ AbstractState' = "open"
  BY <1>1 DEF AbstractState, Open, Undrained
<1> QED BY <1>1, <1>2, <1>3, <1>4, AbstractRemove

(* With nothing in transit, the tiers hold exactly what was written. *)
LEMMA AllHere ==
    ASSUME PlacesInv, Undrained, spilled = << >>
    PROVE  /\ DOMAIN written = DOMAIN mem \cup DiskKeys(disk)
           /\ written = [k \in DOMAIN mem \cup DiskKeys(disk) |-> written[k]]
<1>1. SpillKeys(spilled) = {}
  BY NothingInTransit
<1>2. DOMAIN written \subseteq DOMAIN mem \cup DiskKeys(disk)
  BY <1>1 DEF PlacesInv, Whole
<1>3. ~flushErr
  BY DEF PlacesInv, CallerType, Phases, Undrained
<1>4. DOMAIN mem \cup DiskKeys(disk) \subseteq DOMAIN written
  BY <1>3 DEF PlacesInv, PlacesFit, MapFits, IndexFits, DiskKeys
<1>5. written = [k \in DOMAIN written |-> written[k]]
  BY DEF PlacesInv, PlacesType, IsMap
<1> QED BY <1>2, <1>4, <1>5

(* A flush moves rows inside the disk tier; the last one starts the drain. *)
LEMMA FlushMaps ==
    ASSUME PlacesInv, PlacesInv', FlushGroup \/ FlushDone
    PROVE  UNCHANGED Abstract!vars
<1>1. pc = "flush" /\ Undrained /\ UNCHANGED <<written, out, mem, spilled>>
  BY DEF FlushGroup, FlushDone, Undrained, readVars, drainVars, evictVars
<1>2. CASE FlushGroup
  <2>1. pc' = pc /\ after' = after
    BY <1>2 DEF FlushGroup
  <2>2. Undrained' /\ (Open' <=> Open)
    BY <1>1, <2>1 DEF Undrained, Open
  <2> QED BY <1>1, <2>2, InnerStep
<1>3. CASE FlushDone /\ after # "drain"
  <2>1. pc' = after /\ after \in {"scan", "spill", "evict"}
    BY <1>1, <1>3 DEF FlushDone, PlacesInv, Phases
  <2>2. Undrained' /\ Open' /\ Open
    BY <1>1, <1>3, <2>1 DEF Undrained, Open
  <2> QED BY <1>1, <2>2, InnerStep
<1>4. CASE FlushDone /\ after = "drain"
  <2>1. pc' = "drain" /\ disk' = disk /\ flushErr' = flushErr
    BY <1>4 DEF FlushDone, readVars, drainVars
  <2>2. spilled = << >> /\ ~flushErr
    BY <1>1, <1>4 DEF PlacesInv, CallerType, Phases
  <2>3. written = [k \in DOMAIN mem \cup DiskKeys(disk) |-> written[k]]
    BY <1>1, <2>2, AllHere
  <2>4. Contents = written
    BY <1>1, ContentsAreView DEF ViewExact, View, Undrained
  <2>5. View' = [k \in DOMAIN mem \cup DiskKeys(disk) |-> written[k]]
    BY <1>1, <2>1, <2>2 DEF View, Undrained
  <2>6. Contents' = Contents
    BY <2>3, <2>4, <2>5, NextContents DEF ViewExact
  <2>7. AbstractState = "draining" /\ AbstractState' = "draining"
    BY <1>1, <1>4, <2>1, <2>2 DEF AbstractState
  <2> QED BY <1>1, <2>6, <2>7, AbstractStutter
<1> QED BY <1>2, <1>3, <1>4

(* An empty map is drained at once; another starts its drain. *)
LEMMA StartDrainMaps ==
    ASSUME PlacesInv, PlacesInv', StartDrain
    PROVE  Abstract!Next
<1>1. /\ pc = "base" /\ UNCHANGED <<mem, disk, spilled, written, out, flushErr>>
      /\ \/ pc' = "done" \/ (pc' = "flush" /\ after' = "drain")
         \/ pc' = "drain"
  BY DEF StartDrain, readVars, drainVars, evictVars
<1>2. Undrained /\ Open /\ spilled = << >> /\ ~flushErr
  BY <1>1 DEF Undrained, Open, PlacesInv, CallerType, Phases
<1>3. /\ DOMAIN written = DOMAIN mem \cup DiskKeys(disk)
      /\ written = [k \in DOMAIN mem \cup DiskKeys(disk) |-> written[k]]
  BY <1>2, AllHere
<1>4. Contents = written /\ AbstractState = "open"
  BY <1>1, <1>2, ContentsAreView DEF ViewExact, View, AbstractState, Undrained
<1>5. Contents' = Contents
  <2>1. CASE pc' = "flush"
    BY <1>1, <1>4, <2>1, NextContents DEF ViewExact, View, Undrained
  <2>2. CASE pc' \in {"drain", "done"}
    <3>1. View' = [k \in DOMAIN mem \cup DiskKeys(disk) |-> written[k]]
      BY <1>1, <1>2, <2>2 DEF View, Undrained
    <3> QED BY <1>3, <1>4, <3>1, NextContents DEF ViewExact
  <2> QED BY <1>1, <2>1, <2>2
<1>6. CASE pc' = "done"
  <2>1. DOMAIN mem = {} /\ DiskKeys(disk) = {}
    BY <1>1, <1>6 DEF PlacesInv, Phases
  <2>2. AbstractState' = "drained"
    BY <1>6 DEF AbstractState
  <2> QED BY <1>1, <1>3, <1>4, <1>5, <2>1, <2>2, AbstractDrained
<1>7. CASE pc' = "drain" \/ (pc' = "flush" /\ after' = "drain")
  <2>1. AbstractState' = "draining"
    BY <1>1, <1>2, <1>7 DEF AbstractState
  <2> QED BY <1>1, <1>4, <1>5, <2>1, AbstractDrain
<1> QED BY <1>1, <1>6, <1>7

(* A last flush that fails loses what is on disk, and says so. *)
LEMMA LastFlushMaps ==
    ASSUME PlacesInv, PlacesInv', LastFlushFails
    PROVE  Abstract!Next
<1>1. /\ pc = "flush" /\ after = "drain" /\ pc' = "drain" /\ flushErr'
      /\ UNCHANGED <<mem, written, out>>
  BY DEF LastFlushFails
<1>2. Undrained /\ ~Undrained'
  BY <1>1 DEF Undrained
<1>3. Contents = written
  BY <1>1, <1>2, ContentsAreView DEF ViewExact, View, Undrained
<1>4. Contents' = [k \in DOMAIN mem |-> written[k]]
  BY <1>1, <1>2, NextContents DEF ViewExact, View
<1>5. DOMAIN mem \subseteq DOMAIN written
  BY DEF PlacesInv, PlacesFit, MapFits
<1>6. AbstractState = "draining" /\ AbstractState' = "broken"
  BY <1>1 DEF AbstractState
<1>7. DOMAIN mem \in SUBSET DOMAIN Contents
  BY <1>3, <1>5
<1> QED BY <1>1, <1>3, <1>4, <1>6, <1>7, AbstractBreak

(* A record out of memory. *)
LEMMA YieldInMemoryMaps ==
    ASSUME PlacesInv, PlacesInv', YieldInMemory
    PROVE  Abstract!Next
<1>1. PICK k \in DOMAIN mem :
        /\ out' = [out EXCEPT ![k] = Append(@, Meaning(mem[k]))]
        /\ mem' = Without(mem, {k})
  BY DEF YieldInMemory
<1>2. /\ pc = "drain" /\ pc' = "drain" /\ UNCHANGED <<disk, flushErr, written>>
      /\ ~Undrained /\ ~Undrained'
  BY DEF YieldInMemory, Undrained
<1>3. k \in Keys /\ Meaning(mem[k]) = written[k]
  BY MeaningNow DEF PlacesInv, PlacesType, PlacesFit, MapFits, RecordFits, IsMap
<1>4. DOMAIN mem' = DOMAIN mem \ {k} /\ k \notin DiskKeys(disk)
  BY <1>1 DEF Without, PlacesInv, PlacesFit, Apart
<1> DEFINE D == DOMAIN mem \cup (IF flushErr THEN {} ELSE DiskKeys(disk))
<1>5. Contents = [j \in D |-> written[j]]
  <2>1. Contents = View
    BY ContentsAreView DEF ViewExact
  <2>2. CASE flushErr
    BY <1>2, <2>1, <2>2 DEF View
  <2>3. CASE ~flushErr
    BY <1>2, <2>1, <2>3 DEF View
  <2> QED BY <2>2, <2>3
<1>6. Contents' = [j \in D \ {k} |-> written[j]]
  <2>1. Contents' = View'
    BY NextContents DEF ViewExact
  <2>2. CASE flushErr
    <3>1. View' = [j \in DOMAIN mem' |-> written[j]]
      BY <1>2, <2>2 DEF View
    <3>2. DOMAIN mem' = D \ {k}
      BY <1>4, <2>2
    <3> QED BY <2>1, <3>1, <3>2
  <2>3. CASE ~flushErr
    <3>1. View' = [j \in DOMAIN mem' \cup DiskKeys(disk) |-> written[j]]
      BY <1>2, <2>3 DEF View
    <3>2. DOMAIN mem' \cup DiskKeys(disk) = D \ {k}
      BY <1>4, <2>3
    <3> QED BY <2>1, <3>1, <3>2
  <2> QED BY <2>2, <2>3
<1>7. k \in D
  OBVIOUS
<1> HIDE DEF D
<1>8. Contents' = Without(Contents, {k})
  BY <1>5, <1>6, <1>7 DEF Without
<1>9. k \in DOMAIN Contents /\ Contents[k] = written[k]
  BY <1>5, <1>7
<1>10. GivenOut(out, k, Contents[k], out')
  BY <1>1, <1>3, <1>9 DEF GivenOut
<1>11. AbstractState' = AbstractState /\ AbstractState \in {"draining", "broken"}
  BY <1>2 DEF AbstractState
<1> QED BY <1>3, <1>8, <1>9, <1>10, <1>11, AbstractYield

(* A record out of the disk tier. *)
LEMMA YieldOnDiskMaps ==
    ASSUME PlacesInv, PlacesInv', YieldOnDisk
    PROVE  Abstract!Next
<1>1. PICK k \in NextOnDisk :
        /\ out' = [out EXCEPT ![k] = Append(@, Meaning(RecordFromEntry(k)))]
        /\ disk' = [Probed(k) EXCEPT !.index = Without(@, {k})]
  BY DEF YieldOnDisk
<1>2. /\ pc = "drain" /\ pc' = "drain" /\ DOMAIN mem = {} /\ ~flushErr
      /\ UNCHANGED <<mem, flushErr, written>>
      /\ ~Undrained /\ ~Undrained'
  BY DEF YieldOnDisk, Undrained
<1>3. IsDisk(disk) /\ k \in DOMAIN disk.index /\ DOMAIN disk.staging = {}
      /\ k \in Keys
  BY <1>2 DEF PlacesInv, PlacesType, Phases, NextOnDisk, IsDisk, IsMap
<1>4. k \in DiskKeys(disk) /\ ContainsKey(k) /\ Get(k) = RecordFromEntry(k)
  BY <1>2, <1>3 DEF DiskKeys, ContainsKey, OnDisk, Get, DiskGet
<1>5. Meaning(RecordFromEntry(k)) = written[k]
  <2>1. RecordFits(heap, Get(k), written[k])
    BY <1>2, <1>4, GetFits
  <2>2. MeaningIn(heap, RecordFromEntry(k)) = written[k]
    BY <1>4, <2>1 DEF RecordFits
  <2> QED BY <2>2, MeaningNow
<1>6. DiskKeys(disk') = DiskKeys(disk) \ {k}
  <2> DEFINE d == Probed(k)
  <2>1. IsDisk(d) /\ d.staging = disk.staging /\ d.index = disk.index
    BY <1>3, ProbedProps
  <2>2. disk' = [d EXCEPT !.index = Without(@, {k})]
    BY <1>1
  <2> HIDE DEF d
  <2>3. disk'.staging = d.staging /\ disk'.index = Without(d.index, {k})
    BY <2>1, <2>2 DEF IsDisk, IsDiskRecord
  <2> QED BY <1>3, <2>1, <2>3 DEF DiskKeys, Without
<1> DEFINE D == DOMAIN mem \cup DiskKeys(disk)
<1>7. Contents = [j \in D |-> written[j]]
  BY <1>2, ContentsAreView DEF ViewExact, View
<1>8. Contents' = [j \in D \ {k} |-> written[j]]
  <2>1. View' = [j \in DOMAIN mem \cup DiskKeys(disk') |-> written[j]]
    BY <1>2 DEF View
  <2>2. DOMAIN mem \cup DiskKeys(disk') = D \ {k}
    BY <1>2, <1>6
  <2> QED BY <2>1, <2>2, NextContents DEF ViewExact
<1>9. k \in D
  BY <1>4
<1> HIDE DEF D
<1>10. Contents' = Without(Contents, {k})
  BY <1>7, <1>8, <1>9 DEF Without
<1>11. k \in DOMAIN Contents /\ Contents[k] = written[k]
  BY <1>7, <1>9
<1>12. GivenOut(out, k, Contents[k], out')
  BY <1>1, <1>5, <1>11 DEF GivenOut
<1>13. AbstractState' = AbstractState /\ AbstractState \in {"draining", "broken"}
  BY <1>2 DEF AbstractState
<1> QED BY <1>3, <1>10, <1>11, <1>12, <1>13, AbstractYield

(* The drain ends with nothing left. *)
LEMMA DrainDoneMaps ==
    ASSUME PlacesInv, PlacesInv', DrainDone
    PROVE  Abstract!Next
<1>1. /\ pc = "drain" /\ pc' = "done" /\ DOMAIN mem = {} /\ ~flushErr
      /\ DOMAIN disk.index = {}
      /\ UNCHANGED <<mem, disk, out, flushErr, written>>
      /\ ~Undrained /\ ~Undrained'
  BY DEF DrainDone, readVars, drainVars, Undrained
<1>2. DOMAIN mem \cup DiskKeys(disk) = {}
  BY <1>1 DEF DiskKeys, PlacesInv, Phases
<1>3. Contents = [k \in DOMAIN mem \cup DiskKeys(disk) |-> written[k]]
  BY <1>1, ContentsAreView DEF ViewExact, View
<1>4. Contents' = [k \in DOMAIN mem \cup DiskKeys(disk) |-> written[k]]
  BY <1>1, NextContents DEF ViewExact, View
<1>5. DOMAIN Contents = {} /\ Contents' = Contents
  BY <1>2, <1>3, <1>4
<1>6. AbstractState = "draining" /\ AbstractState' = "drained"
  BY <1>1 DEF AbstractState
<1> QED BY <1>1, <1>5, <1>6, AbstractDrained

(* An error drops the map. *)
LEMMA FailMaps ==
    ASSUME PlacesInv, PlacesInv', NEW why, FailRead(why),
           pc \notin {"done", "failed"}
    PROVE  Abstract!Next
<1>1. pc' = "failed" /\ out' = out
  BY DEF FailRead, drainVars
<1>2. Contents' = << >>
  BY <1>1, NextContents DEF ViewExact, View
<1>3. AbstractState' = "failed"
  BY <1>1 DEF AbstractState
<1>4. AbstractState \in {"open", "draining", "broken"}
  BY DEF AbstractState
<1> QED BY <1>1, <1>2, <1>3, <1>4, AbstractFail

(* The mapping in a state that stays as it is. *)
LEMMA StutterMaps ==
    ASSUME PlacesInv, PlacesInv', UNCHANGED vars
    PROVE  UNCHANGED Abstract!vars
<1>1. UNCHANGED <<mem, disk, pc, after, out, flushErr, written>>
  BY DEF vars, readVars, drainVars
<1>2. View' = View /\ AbstractState' = AbstractState
  BY <1>1 DEF View, AbstractState, Undrained
<1> QED BY <1>1, <1>2, ContentsAreView, NextContents, AbstractStutter
        DEF ViewExact

(* The initial states map to the initial state of RecordMap. *)
LEMMA AbstractInit == Init => Abstract!Init
<1> SUFFICES ASSUME Init PROVE Abstract!Init
  OBVIOUS
<1>1. /\ pc = "scan" /\ written = << >> /\ out = [k \in Keys |-> << >>]
      /\ Undrained
  BY DEF Init, NoEntries, Undrained
<1>2. Contents = << >>
  BY <1>1, PlacesInvInit, ContentsAreView DEF ViewExact, View
<1>3. AbstractState = "open"
  BY <1>1 DEF AbstractState
<1> QED BY <1>1, <1>2, <1>3 DEF Abstract!Init, AbstractState

(* Every step of the two-tier map is one of the plain map, or none. *)
LEMMA StepMaps ==
    PlacesInv /\ PlacesInv' /\ [Next]_vars => [Abstract!Next]_(Abstract!vars)
<1> SUFFICES ASSUME PlacesInv, PlacesInv', [Next]_vars
             PROVE  Abstract!Next \/ UNCHANGED Abstract!vars
  OBVIOUS
<1>1. CASE Scan
  BY <1>1, InnerSteps, StoreMaps DEF Scan
<1>2. CASE LookupFails \/ InsertFails
  <2>1. FailRead("disk") /\ pc \notin {"done", "failed"}
    BY <1>2 DEF LookupFails, InsertFails
  <2> QED BY <2>1, FailMaps
<1>3. CASE EnforceLimits
  <2>1. CASE RejectFootprint \/ SpillFails
    <3>1. /\ FailRead("limit") \/ FailRead("disk")
          /\ pc \notin {"done", "failed"}
      BY <2>1 DEF RejectFootprint, SpillFails, Evicting
    <3> QED BY <3>1, FailMaps
  <2> QED BY <1>3, <2>1, InnerSteps DEF EnforceLimits
<1>4. CASE Flush
  <2>1. CASE FlushFails
    <3>1. FailRead("disk") /\ pc \notin {"done", "failed"}
      BY <2>1 DEF FlushFails
    <3> QED BY <3>1, FailMaps
  <2> QED BY <1>4, <2>1, FlushMaps, LastFlushMaps DEF Flush
<1>5. CASE CompactSparseBatches
  BY <1>5, InnerSteps DEF CompactSparseBatches
<1>6. CASE RemoveMatched
  BY <1>6, RemoveMaps
<1>7. CASE Drain
  <2>1. CASE DrainFails
    <3>1. FailRead("disk") /\ pc \notin {"done", "failed"}
      BY <2>1 DEF DrainFails
    <3> QED BY <3>1, FailMaps
  <2> QED BY <1>7, <2>1, StartDrainMaps, YieldInMemoryMaps, YieldOnDiskMaps,
             DrainDoneMaps DEF Drain
<1>8. CASE Over
  BY <1>8, StutterMaps DEF Over
<1>9. CASE UNCHANGED vars
  BY <1>9, StutterMaps
<1> QED BY <1>1, <1>2, <1>3, <1>4, <1>5, <1>6, <1>7, <1>8, <1>9 DEF Next

(***************************************************************************)
(* The two-tier SpillableRecordMap implements the plain RecordMap: only    *)
(* storing, removing and yielding a record changes what it holds, each one *)
(* key at a time; evicting, compacting, spilling and flushing change       *)
(* nothing; and a drain ends without an error only with nothing left.      *)
(***************************************************************************)
THEOREM RefinementTheorem == Spec => IsRecordMap
BY AbstractInit, PlacesTheorem, StepMaps, PTL
DEF Spec, IsRecordMap, Abstract!Spec

-----------------------------------------------------------------------------
(* The running byte counters of the merge map never drift from what the    *)
(* in-memory tier keeps alive, and the limits that are enforced by them    *)
(* hold, for every number of keys, batches and rows, every budget and      *)
(* every cap.  pinned and owned are compared with sums over the tier; the  *)
(* invariant is stated over a map m and a heap h, so that an operation     *)
(* that removes one entry and adds another can be taken apart.             *)


(* The keys of m that refer to b, and the batches m pins. *)
RefKeys(m, b) == {k \in DOMAIN m : RefersTo(m[k], b)}
Pins(m) == {b \in Batches : RefKeys(m, b) # {}}

Sizes(h) == [b \in Batches |-> BatchBytes(h[b])]
Charges(m) == [k \in DOMAIN m |-> EntryCharge(m[k])]

PinCounters == [refs : [Batches -> Nat], bytes : [Batches -> Nat], total : Nat]

(* PinnedBatches against the batches m pins. *)
PinsExact(p, m, h) ==
    /\ p \in PinCounters
    /\ \A b \in Batches : p.refs[b] = Cardinality(RefKeys(m, b))
    /\ \A b \in Batches : p.refs[b] > 0 => p.bytes[b] = BatchBytes(h[b])
    /\ p.total = SumOver(Sizes(h), Pins(m))

(* current_owned_and_overhead_bytes against the entries of m. *)
OwnedExact(o, m) == o = SumOver(Charges(m), DOMAIN m)

(* An eviction or a compaction is under way; the peak is taken at its end. *)
Reclaiming ==
    \/ pc \in {"evict", "spill", "sparse"}
    \/ pc = "flush" /\ after \in {"spill", "evict"}

Counted ==
    Undrained => /\ PinsExact(pinned, mem, heap)
                 /\ OwnedExact(owned, mem)
                 /\ peak \in Nat
                 /\ Reclaiming \/ peak >= Retained

-----------------------------------------------------------------------------
(* What is counted. *)

(* Sizes and charges are naturals. *)
LEMMA SizesType ==
    ASSUME NEW h \in [Batches -> Seq(Row)]
    PROVE  /\ Sizes(h) \in [Batches -> Nat] /\ IsFiniteSet(Batches)
           /\ \A b \in Batches : Sizes(h)[b] = BatchBytes(h[b])
           /\ \A b \in Batches : BatchBytes(h[b]) \in Nat
<1>1. ASSUME NEW b \in Batches PROVE BatchBytes(h[b]) \in Nat
  <2>1. Len(h[b]) \in Nat /\ RowBytes \in Nat
    BY ConstantsAssumption
  <2>2. \A x, y \in Nat : x * y \in Nat
    OBVIOUS
  <2> QED BY <2>1, <2>2 DEF BatchBytes
<1> QED BY <1>1, ConstantsAssumption DEF Sizes

(* What an entry is charged. *)
LEMMA ChargeType ==
    ASSUME NEW r \in BufferedRecord
    PROVE  /\ EntryCharge(r) \in Nat /\ EntryBytes \in Nat
           /\ OwnedPayloadBytes(r) \in Nat
           /\ EntryCharge(r) = EntryBytes + OwnedPayloadBytes(r)
           /\ r.kind = "ref" => EntryCharge(r) = EntryBytes
BY ConstantsAssumption, RecordFields DEF EntryCharge, OwnedPayloadBytes

(* What all entries are charged. *)
LEMMA ChargesType ==
    ASSUME NEW m, IsMap(m, BufferedRecord)
    PROVE  /\ Charges(m) \in [DOMAIN m -> Nat] /\ IsFiniteSet(DOMAIN m)
           /\ \A k \in DOMAIN m : Charges(m)[k] = EntryCharge(m[k])
<1>1. IsFiniteSet(DOMAIN m)
  BY FS_Subset, ConstantsAssumption DEF IsMap
<1>2. \A k \in DOMAIN m : m[k] \in BufferedRecord
  BY DEF IsMap
<1> QED BY <1>1, <1>2, ChargeType DEF Charges

(* The references to a batch can be counted. *)
LEMMA RefKeysFinite ==
    ASSUME NEW m, IsMap(m, BufferedRecord), NEW b
    PROVE  /\ IsFiniteSet(RefKeys(m, b)) /\ Cardinality(RefKeys(m, b)) \in Nat
           /\ Cardinality(RefKeys(m, b)) = 0 <=> RefKeys(m, b) = {}
<1>1. IsFiniteSet(RefKeys(m, b))
  BY ChargesType, FS_Subset DEF RefKeys
<1> QED BY <1>1, FS_CardinalityType, FS_EmptySet

(* Sums over batches. *)
LEMMA BatchSums ==
    \A f \in [Batches -> Nat] : \A S \in SUBSET Batches :
        /\ SumOver(f, S) \in Nat
        /\ \A b \in S : SumOver(f, S) = f[b] + SumOver(f, S \ {b})
        /\ \A b \in Batches \ S : SumOver(f, S \cup {b}) = f[b] + SumOver(f, S)
        /\ \A g \in [Batches -> Nat] :
             (\A b \in S : f[b] = g[b]) => SumOver(f, S) = SumOver(g, S)
<1> SUFFICES ASSUME NEW f \in [Batches -> Nat], NEW S \in SUBSET Batches
             PROVE  /\ SumOver(f, S) \in Nat
                    /\ \A b \in S : SumOver(f, S) = f[b] + SumOver(f, S \ {b})
                    /\ \A b \in Batches \ S :
                         SumOver(f, S \cup {b}) = f[b] + SumOver(f, S)
                    /\ \A g \in [Batches -> Nat] :
                         (\A b \in S : f[b] = g[b])
                            => SumOver(f, S) = SumOver(g, S)
  OBVIOUS
<1>1. IsFiniteSet(Batches)
  BY ConstantsAssumption
<1>2. SumOver(f, S) \in Nat
      /\ \A b \in S : SumOver(f, S) = f[b] + SumOver(f, S \ {b})
  BY <1>1, SumProps
<1>3. \A b \in Batches \ S : SumOver(f, S \cup {b}) = f[b] + SumOver(f, S)
  BY <1>1, SumInsert
<1>4. ASSUME NEW g \in [Batches -> Nat], \A b \in S : f[b] = g[b]
      PROVE  SumOver(f, S) = SumOver(g, S)
  BY <1>1, <1>4, SumCong
<1> QED BY <1>2, <1>3, <1>4

(* A heap that has the same rows in every pinned batch. *)
LEMMA PinsSameRows ==
    ASSUME NEW p, NEW m, IsMap(m, BufferedRecord),
           NEW h \in [Batches -> Seq(Row)], NEW g \in [Batches -> Seq(Row)],
           PinsExact(p, m, h), \A b \in Pins(m) : g[b] = h[b]
    PROVE  PinsExact(p, m, g)
<1>1. \A b \in Batches : p.refs[b] > 0 => b \in Pins(m)
  <2>1. ASSUME NEW b \in Batches, p.refs[b] > 0 PROVE b \in Pins(m)
    <3>1. p.refs[b] = Cardinality(RefKeys(m, b))
      BY DEF PinsExact
    <3> QED BY <2>1, <3>1, RefKeysFinite DEF Pins
  <2> QED BY <2>1
<1>2. \A b \in Batches : p.refs[b] > 0 => p.bytes[b] = BatchBytes(g[b])
  BY <1>1 DEF PinsExact
<1>3. \A b \in Pins(m) : Sizes(h)[b] = Sizes(g)[b]
  BY DEF Sizes, Pins
<1>4. Pins(m) \in SUBSET Batches
  BY DEF Pins
<1>5. SumOver(Sizes(h), Pins(m)) = SumOver(Sizes(g), Pins(m))
  <2> DEFINE e == Sizes(h)
             f == Sizes(g)
             S == Pins(m)
  <2>1. e \in [Batches -> Nat] /\ f \in [Batches -> Nat] /\ IsFiniteSet(Batches)
    BY SizesType
  <2>2. S \in SUBSET Batches /\ \A x \in S : e[x] = f[x]
    BY <1>3, <1>4
  <2> HIDE DEF e, f, S
  <2>3. SumOver(e, S) = SumOver(f, S)
    BY <2>1, <2>2, BatchSums, Zenon
  <2> QED BY <2>3 DEF e, f, S
<1> QED BY <1>2, <1>5 DEF PinsExact

(* The fields of the counters after add_refs. *)
LEMMA AddRefsFields ==
    ASSUME NEW p \in PinCounters, NEW b \in Batches, NEW n \in Nat, NEW rows,
           BatchBytes(rows) \in Nat
    PROVE  /\ AddRefs(p, b, n, rows) \in PinCounters
           /\ AddRefs(p, b, n, rows).refs[b] = p.refs[b] + n
           /\ \A c \in Batches \ {b} :
                /\ AddRefs(p, b, n, rows).refs[c] = p.refs[c]
                /\ AddRefs(p, b, n, rows).bytes[c] = p.bytes[c]
           /\ p.refs[b] > 0 => /\ AddRefs(p, b, n, rows).bytes[b] = p.bytes[b]
                               /\ AddRefs(p, b, n, rows).total = p.total
           /\ p.refs[b] = 0 =>
                /\ AddRefs(p, b, n, rows).bytes[b] = BatchBytes(rows)
                /\ AddRefs(p, b, n, rows).total = p.total + BatchBytes(rows)
<1>1. /\ p.refs \in [Batches -> Nat] /\ p.bytes \in [Batches -> Nat]
      /\ p.total \in Nat
      /\ p = [refs |-> p.refs, bytes |-> p.bytes, total |-> p.total]
  BY DEF PinCounters
<1>2. CASE p.refs[b] > 0
  <2>1. AddRefs(p, b, n, rows) =
          [refs |-> [p.refs EXCEPT ![b] = @ + n], bytes |-> p.bytes,
           total |-> p.total]
    BY <1>1, <1>2 DEF AddRefs
  <2>2. [p.refs EXCEPT ![b] = @ + n] \in [Batches -> Nat]
    BY <1>1
  <2> QED BY <1>1, <1>2, <2>1, <2>2 DEF PinCounters
<1>3. CASE p.refs[b] = 0
  <2>1. AddRefs(p, b, n, rows) =
          [refs |-> [p.refs EXCEPT ![b] = n],
           bytes |-> [p.bytes EXCEPT ![b] = BatchBytes(rows)],
           total |-> p.total + BatchBytes(rows)]
    BY <1>3 DEF AddRefs
  <2>2. /\ [p.refs EXCEPT ![b] = n] \in [Batches -> Nat]
        /\ [p.bytes EXCEPT ![b] = BatchBytes(rows)] \in [Batches -> Nat]
        /\ p.total + BatchBytes(rows) \in Nat
    BY <1>1
  <2> QED BY <1>1, <1>3, <2>1, <2>2 DEF PinCounters
<1> QED BY <1>1, <1>2, <1>3

(* The fields of the counters after remove_refs. *)
LEMMA RemoveRefsFields ==
    ASSUME NEW p \in PinCounters, NEW b \in Batches, NEW n \in Nat
    PROVE  /\ RemoveRefs(p, b, n) \in PinCounters
           /\ RemoveRefs(p, b, n).refs[b] = Monus(p.refs[b], n)
           /\ \A c \in Batches \ {b} :
                /\ RemoveRefs(p, b, n).refs[c] = p.refs[c]
                /\ RemoveRefs(p, b, n).bytes[c] = p.bytes[c]
           /\ p.refs[b] > n => /\ RemoveRefs(p, b, n).bytes[b] = p.bytes[b]
                               /\ RemoveRefs(p, b, n).total = p.total
           /\ 0 < p.refs[b] /\ p.refs[b] <= n =>
                RemoveRefs(p, b, n).total = Monus(p.total, p.bytes[b])
           /\ p.refs[b] = 0 => RemoveRefs(p, b, n).total = p.total
<1>1. /\ p.refs \in [Batches -> Nat] /\ p.bytes \in [Batches -> Nat]
      /\ p.total \in Nat
      /\ p = [refs |-> p.refs, bytes |-> p.bytes, total |-> p.total]
  BY DEF PinCounters
<1>2. CASE p.refs[b] = 0
  BY <1>1, <1>2 DEF RemoveRefs, Monus
<1>3. CASE p.refs[b] > n /\ p.refs[b] # 0
  <2>1. RemoveRefs(p, b, n) =
          [refs |-> [p.refs EXCEPT ![b] = @ - n], bytes |-> p.bytes,
           total |-> p.total]
    BY <1>1, <1>3 DEF RemoveRefs
  <2>2. [p.refs EXCEPT ![b] = @ - n] \in [Batches -> Nat]
    BY <1>1, <1>3
  <2> QED BY <1>1, <1>3, <2>1, <2>2 DEF PinCounters, Monus
<1>4. CASE p.refs[b] <= n /\ p.refs[b] # 0
  <2>1. RemoveRefs(p, b, n) =
          [refs |-> [p.refs EXCEPT ![b] = 0],
           bytes |-> [p.bytes EXCEPT ![b] = 0],
           total |-> Monus(p.total, p.bytes[b])]
    BY <1>1, <1>4 DEF RemoveRefs
  <2>2. /\ [p.refs EXCEPT ![b] = 0] \in [Batches -> Nat]
        /\ [p.bytes EXCEPT ![b] = 0] \in [Batches -> Nat]
        /\ Monus(p.total, p.bytes[b]) \in Nat
    BY <1>1 DEF Monus
  <2>3. Monus(p.refs[b], n) = 0
    BY <1>1, <1>4 DEF Monus
  <2> QED BY <1>1, <1>4, <2>1, <2>2, <2>3 DEF PinCounters
<1> QED BY <1>1, <1>2, <1>3, <1>4

(* n more references to b, and none elsewhere. *)
LEMMA PinMore ==
    ASSUME NEW p, NEW m, IsMap(m, BufferedRecord),
           NEW h \in [Batches -> Seq(Row)], PinsExact(p, m, h),
           NEW b \in Batches, NEW n \in Nat \ {0},
           NEW w, IsMap(w, BufferedRecord),
           Cardinality(RefKeys(w, b)) = Cardinality(RefKeys(m, b)) + n,
           \A c \in Batches \ {b} : RefKeys(w, c) = RefKeys(m, c)
    PROVE  PinsExact(AddRefs(p, b, n, h[b]), w, h)
<1> DEFINE q == AddRefs(p, b, n, h[b])
<1>1. p \in PinCounters /\ BatchBytes(h[b]) \in Nat
  BY SizesType DEF PinsExact
<1>2. /\ q \in PinCounters /\ q.refs[b] = p.refs[b] + n
      /\ \A c \in Batches \ {b} : q.refs[c] = p.refs[c] /\ q.bytes[c] = p.bytes[c]
      /\ p.refs[b] > 0 => q.bytes[b] = p.bytes[b] /\ q.total = p.total
      /\ p.refs[b] = 0 => /\ q.bytes[b] = BatchBytes(h[b])
                          /\ q.total = p.total + BatchBytes(h[b])
  BY <1>1, AddRefsFields
<1> HIDE DEF q
<1>3. /\ \A c \in Batches : p.refs[c] = Cardinality(RefKeys(m, c))
      /\ \A c \in Batches : p.refs[c] > 0 => p.bytes[c] = BatchBytes(h[c])
      /\ p.total = SumOver(Sizes(h), Pins(m)) /\ p.refs[b] \in Nat
  BY <1>1 DEF PinsExact, PinCounters
<1>4. \A c \in Batches : q.refs[c] = Cardinality(RefKeys(w, c))
  BY <1>2, <1>3
<1>5. \A c \in Batches : q.refs[c] > 0 => q.bytes[c] = BatchBytes(h[c])
  BY <1>2, <1>3
<1>6. RefKeys(w, b) # {} /\ (RefKeys(m, b) = {} <=> p.refs[b] = 0)
  BY <1>3, RefKeysFinite
<1>7. q.total = SumOver(Sizes(h), Pins(w))
  <2>1. CASE p.refs[b] > 0
    <3>1. Pins(w) = Pins(m)
      BY <1>6, <2>1 DEF Pins
    <3> QED BY <1>2, <1>3, <2>1, <3>1
  <2>2. CASE p.refs[b] = 0
    <3>1. Pins(w) = Pins(m) \cup {b} /\ b \notin Pins(m)
          /\ Pins(m) \in SUBSET Batches
      BY <1>6, <2>2 DEF Pins
    <3>2. /\ Sizes(h) \in [Batches -> Nat] /\ IsFiniteSet(Batches)
          /\ Sizes(h)[b] = BatchBytes(h[b])
      BY SizesType
    <3> DEFINE f == Sizes(h)
               S == Pins(m)
    <3>3. f \in [Batches -> Nat] /\ S \in SUBSET Batches /\ b \in Batches \ S
      BY <3>1, <3>2
    <3> HIDE DEF f, S
    <3>4. /\ SumOver(f, S \cup {b}) = f[b] + SumOver(f, S)
          /\ SumOver(f, S) \in Nat
      BY <3>3, BatchSums, Zenon
    <3>5. SumOver(f, Pins(w)) = f[b] + p.total
      BY <1>3, <3>1, <3>4 DEF f, S
    <3> QED BY <1>1, <1>2, <1>3, <2>2, <3>2, <3>4, <3>5 DEF f, S
  <2> QED BY <1>3, <2>1, <2>2
<1> QED BY <1>2, <1>4, <1>5, <1>7 DEF PinsExact, q

(* n references to b less, and none elsewhere. *)
LEMMA PinLess ==
    ASSUME NEW p, NEW m, IsMap(m, BufferedRecord),
           NEW h \in [Batches -> Seq(Row)], PinsExact(p, m, h),
           NEW b \in Batches, NEW n \in Nat,
           NEW w, IsMap(w, BufferedRecord),
           Cardinality(RefKeys(w, b)) + n = Cardinality(RefKeys(m, b)),
           \A c \in Batches \ {b} : RefKeys(w, c) = RefKeys(m, c)
    PROVE  /\ PinsExact(RemoveRefs(p, b, n), w, h)
           /\ RemoveRefs(p, b, n).total <= p.total
<1> DEFINE q == RemoveRefs(p, b, n)
<1>1. p \in PinCounters
  BY DEF PinsExact
<1>2. /\ q \in PinCounters /\ q.refs[b] = Monus(p.refs[b], n)
      /\ \A c \in Batches \ {b} : q.refs[c] = p.refs[c] /\ q.bytes[c] = p.bytes[c]
      /\ p.refs[b] > n => q.bytes[b] = p.bytes[b] /\ q.total = p.total
      /\ 0 < p.refs[b] /\ p.refs[b] <= n => q.total = Monus(p.total, p.bytes[b])
      /\ p.refs[b] = 0 => q.total = p.total
  BY <1>1, RemoveRefsFields
<1> HIDE DEF q
<1>3. /\ \A c \in Batches : p.refs[c] = Cardinality(RefKeys(m, c))
      /\ \A c \in Batches : p.refs[c] > 0 => p.bytes[c] = BatchBytes(h[c])
      /\ p.total = SumOver(Sizes(h), Pins(m)) /\ p.refs[b] \in Nat
      /\ p.total \in Nat
  BY <1>1 DEF PinsExact, PinCounters
<1>4. Cardinality(RefKeys(w, b)) \in Nat
      /\ Cardinality(RefKeys(w, b)) + n = p.refs[b]
      /\ (RefKeys(w, b) = {} <=> Cardinality(RefKeys(w, b)) = 0)
      /\ (RefKeys(m, b) = {} <=> p.refs[b] = 0)
  BY <1>3, RefKeysFinite
<1>5. q.refs[b] = Cardinality(RefKeys(w, b))
  BY <1>2, <1>4 DEF Monus
<1>6. \A c \in Batches : q.refs[c] = Cardinality(RefKeys(w, c))
  BY <1>2, <1>3, <1>5
<1>7. \A c \in Batches : q.refs[c] > 0 => q.bytes[c] = BatchBytes(h[c])
  <2>1. q.refs[b] > 0 => p.refs[b] > n /\ p.refs[b] > 0
    BY <1>4, <1>5
  <2> QED BY <1>2, <1>3, <2>1
<1>8. q.total = SumOver(Sizes(h), Pins(w)) /\ q.total <= p.total
  <2>1. CASE p.refs[b] > n \/ p.refs[b] = 0
    <3>1. RefKeys(w, b) = {} <=> RefKeys(m, b) = {}
      BY <1>4, <2>1
    <3>2. Pins(w) = Pins(m)
      BY <3>1 DEF Pins
    <3> QED BY <1>2, <1>3, <2>1, <3>2
  <2>2. CASE 0 < p.refs[b] /\ p.refs[b] <= n
    <3>1. Pins(w) = Pins(m) \ {b} /\ b \in Pins(m)
          /\ Pins(m) \in SUBSET Batches /\ Pins(m) \ {b} \in SUBSET Batches
      BY <1>4, <2>2 DEF Pins
    <3>2. /\ Sizes(h) \in [Batches -> Nat] /\ IsFiniteSet(Batches)
          /\ Sizes(h)[b] = BatchBytes(h[b]) /\ BatchBytes(h[b]) \in Nat
      BY SizesType
    <3> DEFINE f == Sizes(h)
               S == Pins(m)
    <3>3. f \in [Batches -> Nat] /\ S \in SUBSET Batches /\ b \in S
          /\ S \ {b} \in SUBSET Batches
      BY <3>1, <3>2
    <3> HIDE DEF f, S
    <3>4. /\ SumOver(f, S) = f[b] + SumOver(f, S \ {b})
          /\ SumOver(f, S \ {b}) \in Nat
      BY <3>3, BatchSums, Zenon
    <3>5. q.total = Monus(p.total, p.bytes[b]) /\ p.bytes[b] = BatchBytes(h[b])
      BY <1>2, <1>3, <2>2
    <3>6. /\ p.total = BatchBytes(h[b]) + SumOver(f, S \ {b})
          /\ SumOver(f, S \ {b}) = SumOver(Sizes(h), Pins(w))
      BY <1>3, <3>1, <3>2, <3>4 DEF f, S
    <3> QED BY <1>3, <3>2, <3>4, <3>5, <3>6 DEF Monus
  <2> QED BY <1>3, <2>1, <2>2
<1> QED BY <1>2, <1>6, <1>7, <1>8 DEF PinsExact, q

-----------------------------------------------------------------------------
(* One entry more, one less. *)

PinningIn(h, p, r) ==
    IF r.kind = "ref" THEN AddRefs(p, r.batch, 1, h[r.batch]) ELSE p

(* Both counters are exact for the in-memory tier m. *)
Counts(p, o, m, h) == PinsExact(p, m, h) /\ OwnedExact(o, m)

(* The references of a map with one entry more. *)
LEMMA RefKeysWith ==
    ASSUME NEW m, NEW k, k \notin DOMAIN m, NEW r, NEW b
    PROVE  RefKeys(With(m, k, r), b) =
             IF RefersTo(r, b) THEN RefKeys(m, b) \cup {k} ELSE RefKeys(m, b)
BY DEF RefKeys, With

(* Entries taken out refer to nothing any more. *)
LEMMA RefKeysWithout ==
    ASSUME NEW m, NEW S, NEW b
    PROVE  RefKeys(Without(m, S), b) = RefKeys(m, b) \ S
BY DEF RefKeys, Without

(* A new entry. *)
LEMMA PinOne ==
    ASSUME NEW m, IsMap(m, BufferedRecord), NEW k \in Keys, k \notin DOMAIN m,
           NEW r \in BufferedRecord, NEW h \in [Batches -> Seq(Row)], NEW p,
           PinsExact(p, m, h)
    PROVE  PinsExact(PinningIn(h, p, r), With(m, k, r), h)
<1> DEFINE w == With(m, k, r)
<1>1. IsMap(w, BufferedRecord)
  BY WithMap
<1>2. \A b \in Batches :
        RefKeys(w, b) = IF RefersTo(r, b) THEN RefKeys(m, b) \cup {k}
                        ELSE RefKeys(m, b)
  BY RefKeysWith
<1> HIDE DEF w
<1>3. CASE r.kind = "ref"
  <2> DEFINE b == r.batch
  <2>1. b \in Batches /\ RefersTo(r, b)
    BY <1>3, RecordFields DEF RefersTo
  <2>2. \A c \in Batches \ {b} : ~RefersTo(r, c)
    BY DEF RefersTo
  <2> HIDE DEF b
  <2>3. \A c \in Batches \ {b} : RefKeys(w, c) = RefKeys(m, c)
    BY <1>2, <2>2
  <2>4. RefKeys(w, b) = RefKeys(m, b) \cup {k} /\ k \notin RefKeys(m, b)
    BY <1>2, <2>1 DEF RefKeys
  <2>5. Cardinality(RefKeys(w, b)) = Cardinality(RefKeys(m, b)) + 1
    BY <2>4, RefKeysFinite, FS_AddElement
  <2>6. PinsExact(AddRefs(p, b, 1, h[b]), w, h)
    BY <1>1, <2>1, <2>3, <2>5, PinMore
  <2> QED BY <1>3, <2>6 DEF PinningIn, b, w
<1>4. CASE r.kind # "ref"
  <2>1. \A b \in Batches : RefKeys(w, b) = RefKeys(m, b)
    BY <1>2, <1>4 DEF RefersTo
  <2>2. Pins(w) = Pins(m)
    BY <2>1 DEF Pins
  <2> QED BY <1>4, <2>1, <2>2 DEF PinningIn, PinsExact, w
<1> QED BY <1>3, <1>4

(* An entry taken out. *)
LEMMA UnpinOne ==
    ASSUME NEW m, IsMap(m, BufferedRecord), NEW k \in DOMAIN m,
           NEW h \in [Batches -> Seq(Row)], NEW p, PinsExact(p, m, h)
    PROVE  /\ PinsExact(Unpinning(p, m[k]), Without(m, {k}), h)
           /\ Unpinning(p, m[k]).total <= p.total
<1> DEFINE w == Without(m, {k})
           r == m[k]
<1>1. IsMap(w, BufferedRecord) /\ r \in BufferedRecord
  BY WithoutMap DEF IsMap
<1>2. \A b \in Batches : RefKeys(w, b) = RefKeys(m, b) \ {k}
  BY RefKeysWithout
<1>3. \A b \in Batches : k \in RefKeys(m, b) <=> RefersTo(r, b)
  BY DEF RefKeys
<1> HIDE DEF w
<1>4. CASE r.kind = "ref"
  <2> DEFINE b == r.batch
  <2>1. b \in Batches /\ RefersTo(r, b) /\ \A c \in Batches \ {b} : ~RefersTo(r, c)
    BY <1>1, <1>4, RecordFields DEF RefersTo
  <2>2. Unpinning(p, r) = RemoveRefs(p, b, 1)
    BY <1>4 DEF Unpinning
  <2> HIDE DEF b, r
  <2>3. \A c \in Batches \ {b} : RefKeys(w, c) = RefKeys(m, c)
    BY <1>2, <1>3, <2>1
  <2>4. RefKeys(w, b) = RefKeys(m, b) \ {k} /\ k \in RefKeys(m, b)
    BY <1>2, <1>3, <2>1
  <2>5. /\ Cardinality(RefKeys(m, b) \ {k}) = Cardinality(RefKeys(m, b)) - 1
        /\ Cardinality(RefKeys(m, b)) \in Nat
    BY <2>4, RefKeysFinite, FS_RemoveElement
  <2>6. Cardinality(RefKeys(w, b)) + 1 = Cardinality(RefKeys(m, b))
    BY <2>4, <2>5
  <2>7. PinsExact(RemoveRefs(p, b, 1), w, h) /\ RemoveRefs(p, b, 1).total <= p.total
    BY <1>1, <2>1, <2>3, <2>6, PinLess
  <2> QED BY <2>2, <2>7 DEF r, w
<1>5. CASE r.kind # "ref"
  <2>1. \A b \in Batches : RefKeys(w, b) = RefKeys(m, b)
    BY <1>2, <1>3, <1>5 DEF RefersTo
  <2>2. Pins(w) = Pins(m)
    BY <2>1 DEF Pins
  <2>3. p.total <= p.total
    BY DEF PinsExact, PinCounters
  <2>4. Unpinning(p, r) = p
    BY <1>5 DEF Unpinning
  <2> HIDE DEF r
  <2>5. PinsExact(p, w, h)
    BY <2>1, <2>2 DEF PinsExact
  <2> QED BY <2>3, <2>4, <2>5 DEF r, w
<1> QED BY <1>4, <1>5

(* The charge of a new entry. *)
LEMMA OwnOne ==
    ASSUME NEW m, IsMap(m, BufferedRecord), NEW k \in Keys, k \notin DOMAIN m,
           NEW r \in BufferedRecord, NEW o, OwnedExact(o, m)
    PROVE  OwnedExact(o + EntryCharge(r), With(m, k, r)) /\ o \in Nat
<1> DEFINE w == With(m, k, r)
           f == Charges(w)
           e == Charges(m)
           D == DOMAIN m
           E == D \cup {k}
<1>1. IsMap(w, BufferedRecord) /\ DOMAIN w = E /\ w[k] = r
      /\ \A j \in D : w[j] = m[j]
  BY WithMap DEF With
<1> HIDE DEF w
<1>2. f \in [E -> Nat] /\ IsFiniteSet(E) /\ \A j \in E : f[j] = EntryCharge(w[j])
  BY <1>1, ChargesType
<1>3. e \in [D -> Nat] /\ IsFiniteSet(D) /\ \A j \in D : e[j] = EntryCharge(m[j])
  BY ChargesType
<1>4. D \in SUBSET E /\ D \in SUBSET D /\ k \in E \ D
      /\ \A j \in D : f[j] = e[j]
  BY <1>1, <1>2, <1>3
<1>5. f[k] = EntryCharge(r)
  BY <1>1, <1>2
<1> HIDE DEF f, e, E, D
<1>6. SumOver(f, D \cup {k}) = f[k] + SumOver(f, D)
  BY <1>2, <1>4, SumInsert
<1>7. SumOver(f, D) = SumOver(e, D)
  BY <1>2, <1>3, <1>4, SumCong
<1>8. SumOver(e, D) \in Nat /\ EntryCharge(r) \in Nat
  BY <1>3, <1>4, SumProps, ChargeType
<1>9. o = SumOver(e, D)
  BY DEF OwnedExact, e, D
<1>10. SumOver(f, DOMAIN w) = o + EntryCharge(r)
  BY <1>1, <1>5, <1>6, <1>7, <1>8, <1>9 DEF E
<1> QED BY <1>8, <1>9, <1>10 DEF OwnedExact, f, w

(* The charge of an entry taken out. *)
LEMMA DisownOne ==
    ASSUME NEW m, IsMap(m, BufferedRecord), NEW k \in DOMAIN m, NEW o,
           OwnedExact(o, m)
    PROVE  /\ OwnedExact(Monus(o, EntryCharge(m[k])), Without(m, {k}))
           /\ EntryCharge(m[k]) \in Nat /\ EntryCharge(m[k]) <= o /\ o \in Nat
           /\ Monus(o, EntryCharge(m[k])) \in Nat
           /\ Monus(o, EntryCharge(m[k])) <= o
<1> DEFINE w == Without(m, {k})
           f == Charges(w)
           e == Charges(m)
           D == DOMAIN m
           E == D \ {k}
           c == EntryCharge(m[k])
<1>1. IsMap(w, BufferedRecord) /\ DOMAIN w = E /\ \A j \in E : w[j] = m[j]
  BY WithoutMap DEF Without
<1> HIDE DEF w
<1>2. f \in [E -> Nat] /\ IsFiniteSet(E) /\ \A j \in E : f[j] = EntryCharge(w[j])
  BY <1>1, ChargesType
<1>3. e \in [D -> Nat] /\ IsFiniteSet(D) /\ \A j \in D : e[j] = EntryCharge(m[j])
  BY ChargesType
<1>4. E \in SUBSET D /\ E \in SUBSET E /\ D \in SUBSET D /\ k \in D
      /\ (\A j \in E : f[j] = e[j]) /\ e[k] = c /\ E = D \ {k}
  BY <1>1, <1>2, <1>3
<1>5. c \in Nat
  BY ChargeType DEF IsMap
<1> HIDE DEF f, e, E, D, c
<1>6. SumOver(e, D) = e[k] + SumOver(e, D \ {k})
  BY <1>3, <1>4, SumProps
<1>7. SumOver(f, E) = SumOver(e, E)
  BY <1>2, <1>3, <1>4, SumCong
<1>8. SumOver(e, E) \in Nat
  BY <1>3, <1>4, SumProps
<1>9. o = SumOver(e, D)
  BY DEF OwnedExact, e, D
<1>10. o = c + SumOver(f, E) /\ SumOver(f, E) \in Nat
  BY <1>4, <1>6, <1>7, <1>8, <1>9
<1>11. Monus(o, c) = SumOver(f, E) /\ c <= o /\ o \in Nat /\ Monus(o, c) <= o
  BY <1>5, <1>10 DEF Monus
<1> QED BY <1>1, <1>5, <1>10, <1>11 DEF OwnedExact, f, w, c

(* A new entry, counted. *)
LEMMA CountAdd ==
    ASSUME NEW m, IsMap(m, BufferedRecord), NEW k \in Keys, k \notin DOMAIN m,
           NEW r \in BufferedRecord, NEW h \in [Batches -> Seq(Row)],
           NEW p, NEW o, Counts(p, o, m, h)
    PROVE  Counts(PinningIn(h, p, r), o + EntryCharge(r), With(m, k, r), h)
BY PinOne, OwnOne DEF Counts

(* An entry taken out leaves the counters exact, and no larger. *)
LEMMA CountRemove ==
    ASSUME NEW m, IsMap(m, BufferedRecord), NEW k \in DOMAIN m,
           NEW h \in [Batches -> Seq(Row)], NEW p, NEW o, Counts(p, o, m, h)
    PROVE  /\ Counts(Unpinning(p, m[k]), Monus(o, EntryCharge(m[k])),
                     Without(m, {k}), h)
           /\ Unpinning(p, m[k]).total <= p.total
           /\ Monus(o, EntryCharge(m[k])) <= o
BY UnpinOne, DisownOne DEF Counts

(* An entry replaced: insert takes its charge off in two parts. *)
LEMMA CountReplace ==
    ASSUME NEW m, IsMap(m, BufferedRecord), NEW k \in DOMAIN m,
           NEW r \in BufferedRecord, NEW h \in [Batches -> Seq(Row)],
           NEW p, NEW o, Counts(p, o, m, h)
    PROVE  /\ Counts(PinningIn(h, Unpinning(p, m[k]), r),
                     Monus(o, EntryCharge(m[k])) + EntryCharge(r),
                     With(m, k, r), h)
           /\ Monus(Monus(o, EntryBytes), OwnedPayloadBytes(m[k])) =
                Monus(o, EntryCharge(m[k]))
<1> DEFINE q == Unpinning(p, m[k])
           u == Monus(o, EntryCharge(m[k]))
           w == Without(m, {k})
<1>1. Counts(q, u, w, h)
  BY CountRemove
<1>2. IsMap(w, BufferedRecord) /\ k \notin DOMAIN w /\ k \in Keys
  BY WithoutMap DEF Without, IsMap
<1>3. With(w, k, r) = With(m, k, r)
  BY DEF With, Without
<1>4. Monus(Monus(o, EntryBytes), OwnedPayloadBytes(m[k])) = u
  <2>1. o \in Nat /\ EntryCharge(m[k]) <= o
    BY DisownOne DEF Counts
  <2>2. m[k] \in BufferedRecord
    BY DEF IsMap
  <2>3. /\ EntryBytes \in Nat /\ OwnedPayloadBytes(m[k]) \in Nat
        /\ EntryCharge(m[k]) = EntryBytes + OwnedPayloadBytes(m[k])
    BY <2>2, ChargeType
  <2> QED BY <2>1, <2>3 DEF Monus
<1> HIDE DEF q, u, w
<1>5. Counts(PinningIn(h, q, r), u + EntryCharge(r), With(w, k, r), h)
  BY <1>1, <1>2, CountAdd
<1> QED BY <1>3, <1>4, <1>5 DEF q, u

(* Entries of the same charge taken out at once. *)
LEMMA DisownMany ==
    ASSUME NEW m, IsMap(m, BufferedRecord), NEW S \in SUBSET DOMAIN m,
           \A k \in S : m[k].kind = "ref", NEW o, OwnedExact(o, m)
    PROVE  OwnedExact(Monus(o, Cardinality(S) * EntryBytes), Without(m, S))
<1> DEFINE n == Cardinality(S)
           w == Without(m, S)
           D == DOMAIN m
           E == D \ S
           e == Charges(m)
           f == Charges(w)
<1>1. IsMap(w, BufferedRecord) /\ DOMAIN w = E /\ \A j \in E : w[j] = m[j]
  BY WithoutMap DEF Without
<1>2. n \in Nat /\ S \in SUBSET D
  BY ChargesType, FS_Subset, FS_CardinalityType
<1>3. \A k \in S : EntryCharge(m[k]) = EntryBytes
  BY ChargeType DEF IsMap
<1> HIDE DEF w
<1>4. f \in [E -> Nat] /\ IsFiniteSet(E) /\ \A j \in E : f[j] = EntryCharge(w[j])
  BY <1>1, ChargesType
<1>5. e \in [D -> Nat] /\ IsFiniteSet(D) /\ \A j \in D : e[j] = EntryCharge(m[j])
  BY ChargesType
<1>6. E \in SUBSET D /\ E \in SUBSET E /\ (\A j \in E : f[j] = e[j])
      /\ (\A j \in S : e[j] = EntryBytes) /\ EntryBytes \in Nat
      /\ E = D \ S
  BY <1>1, <1>2, <1>3, <1>4, <1>5, ConstantsAssumption
<1>7. o = SumOver(e, D)
  BY DEF OwnedExact
<1> HIDE DEF f, e, E, D
<1>8. SumOver(e, D) = n * EntryBytes + SumOver(e, D \ S)
  <2>1. S \in SUBSET D /\ e \in [D -> Nat] /\ IsFiniteSet(D)
        /\ EntryBytes \in Nat /\ \A j \in S : e[j] = EntryBytes
    BY <1>2, <1>5, <1>6
  <2>2. SumOver(e, D) = Multiple(Cardinality(S), EntryBytes) + SumOver(e, D \ S)
    BY <2>1, SumTakeOut
  <2> QED BY <2>2 DEF Multiple
<1>9. SumOver(f, E) = SumOver(e, E)
  BY <1>4, <1>5, <1>6, SumCong
<1>10. SumOver(e, E) \in Nat
  BY <1>5, <1>6, SumProps
<1>11. n * EntryBytes \in Nat
  <2>1. \A x, y \in Nat : x * y \in Nat
    OBVIOUS
  <2> QED BY <1>2, <1>6, <2>1
<1> DEFINE t == n * EntryBytes
           v == SumOver(f, E)
<1>12. o = t + v /\ t \in Nat /\ v \in Nat
  BY <1>6, <1>7, <1>8, <1>9, <1>10, <1>11
<1> HIDE DEF t, v
<1>13. Monus(o, t) = v
  BY <1>12 DEF Monus
<1> QED BY <1>1, <1>13 DEF OwnedExact, f, t, v, n, w

(* Every reference to a batch taken out at once, as spill_victim_batch does. *)
LEMMA CountSpill ==
    ASSUME NEW m, IsMap(m, BufferedRecord), NEW b \in Batches,
           NEW h \in [Batches -> Seq(Row)], NEW p, NEW o, Counts(p, o, m, h)
    PROVE  Counts(RemoveRefs(p, b, Cardinality(RefKeys(m, b))),
                  Monus(o, Cardinality(RefKeys(m, b)) * EntryBytes),
                  Without(m, RefKeys(m, b)), h)
<1> DEFINE S == RefKeys(m, b)
           n == Cardinality(S)
           w == Without(m, S)
<1>1. IsMap(w, BufferedRecord)
  BY WithoutMap
<1>2. n \in Nat /\ S \in SUBSET DOMAIN m
  BY RefKeysFinite DEF RefKeys
<1>3. \A c \in Batches : RefKeys(w, c) = RefKeys(m, c) \ S
  BY RefKeysWithout
<1>4. \A k \in S : m[k] \in BufferedRecord /\ RefersTo(m[k], b)
  BY DEF RefKeys, IsMap
<1> HIDE DEF w
<1>6. PinsExact(RemoveRefs(p, b, n), w, h)
  <2>1. \A c \in Batches \ {b} : RefKeys(w, c) = RefKeys(m, c)
    <3>1. \A c \in Batches \ {b} : RefKeys(m, c) \cap S = {}
      BY DEF RefKeys, RefersTo
    <3> HIDE DEF S
    <3> QED BY <1>3, <3>1
  <2>2. RefKeys(w, b) = {}
    BY <1>3
  <2>3. Cardinality(RefKeys(w, b)) + n = Cardinality(RefKeys(m, b))
    <3>1. Cardinality(RefKeys(w, b)) = 0
      BY <2>2, FS_EmptySet
    <3> QED BY <1>2, <3>1
  <2> HIDE DEF n
  <2> QED BY <1>1, <1>2, <2>1, <2>3, PinLess DEF Counts
<1>7. OwnedExact(Monus(o, n * EntryBytes), w)
  BY <1>2, <1>4, DisownMany DEF Counts, RefersTo, w
<1> QED BY <1>6, <1>7 DEF Counts, w

(* No reference added to a batch that has none and takes no bytes. *)
LEMMA PinNone ==
    ASSUME NEW m, IsMap(m, BufferedRecord), NEW c \in Batches, RefKeys(m, c) = {},
           NEW h \in [Batches -> Seq(Row)], NEW p, PinsExact(p, m, h),
           NEW rows, BatchBytes(rows) = 0
    PROVE  PinsExact(AddRefs(p, c, 0, rows), m, h)
<1> DEFINE q == AddRefs(p, c, 0, rows)
<1>1. p \in PinCounters /\ 0 \in Nat /\ BatchBytes(rows) \in Nat
  BY DEF PinsExact
<1>2. p.refs[c] = 0
  BY RefKeysFinite DEF PinsExact
<1>3. /\ q \in PinCounters /\ q.refs[c] = p.refs[c] + 0
      /\ \A b \in Batches \ {c} : q.refs[b] = p.refs[b] /\ q.bytes[b] = p.bytes[b]
      /\ q.total = p.total + BatchBytes(rows)
  BY <1>1, <1>2, AddRefsFields
<1> HIDE DEF q
<1>4. p.total \in Nat
  BY <1>1 DEF PinCounters
<1>5. q.refs[c] = 0 /\ q.total = p.total
  BY <1>2, <1>3, <1>4
<1> QED BY <1>2, <1>3, <1>5 DEF PinsExact, q

(* The references to b move to c, a batch of rows that had none. *)
LEMMA CountCompact ==
    ASSUME NEW m, IsMap(m, BufferedRecord), NEW w, IsMap(w, BufferedRecord),
           NEW b \in Batches, NEW c \in Batches, RefKeys(m, c) = {},
           DOMAIN w = DOMAIN m, \A k \in DOMAIN m \ RefKeys(m, b) : w[k] = m[k],
           \A k \in RefKeys(m, b) : RefersTo(w[k], c),
           NEW h \in [Batches -> Seq(Row)], NEW g \in [Batches -> Seq(Row)],
           \A d \in Batches \ {c} : g[d] = h[d],
           NEW n, n = Cardinality(RefKeys(m, b)), n = 0 => BatchBytes(g[c]) = 0,
           NEW p, NEW o, Counts(p, o, m, h)
    PROVE  Counts(AddRefs(RemoveRefs(p, b, n), c, n, g[c]), o, w, g)
<1> DEFINE S == RefKeys(m, b)
           v == Without(m, S)
           q == RemoveRefs(p, b, n)
<1>1. IsMap(v, BufferedRecord) /\ \A d \in Batches : RefKeys(v, d) = RefKeys(m, d) \ S
  BY WithoutMap, RefKeysWithout
<1>2. PinsExact(q, v, h)
  BY CountSpill DEF Counts
<1>3. S \subseteq DOMAIN m /\ IsFiniteSet(S) /\ n \in Nat /\ (n = 0 <=> S = {})
  BY RefKeysFinite DEF RefKeys
<1> HIDE DEF v, q
<1>4. RefKeys(v, c) = {} /\ c \notin Pins(v)
  BY <1>1 DEF Pins
<1>5. PinsExact(q, v, g)
  <2>1. \A d \in Pins(v) : g[d] = h[d]
    BY <1>4 DEF Pins
  <2> QED BY <1>1, <1>2, <2>1, PinsSameRows
<1>6. \A d \in Batches \ {c} : RefKeys(w, d) = RefKeys(v, d)
  <2>1. ASSUME NEW d \in Batches \ {c}
        PROVE  RefKeys(w, d) = RefKeys(m, d) \ S
    <3>1. \A k \in S : ~RefersTo(w[k], d)
      BY DEF RefersTo
    <3> HIDE DEF S
    <3>2. \A k \in DOMAIN m \ S : w[k] = m[k]
      BY DEF S
    <3> QED BY <1>3, <3>1, <3>2 DEF RefKeys
  <2> QED BY <1>1, <2>1
<1>7. RefKeys(w, c) = S
  <2>1. \A k \in DOMAIN m : ~RefersTo(m[k], c)
    BY DEF RefKeys
  <2> HIDE DEF S
  <2>2. /\ \A k \in DOMAIN m \ S : w[k] = m[k]
        /\ \A k \in S : RefersTo(w[k], c)
    BY DEF S
  <2> QED BY <1>3, <2>1, <2>2 DEF RefKeys
<1>8. PinsExact(AddRefs(q, c, n, g[c]), w, g)
  <2>1. CASE n = 0
    <3>1. \A d \in Batches : RefKeys(w, d) = RefKeys(v, d)
      BY <1>3, <1>4, <1>6, <1>7, <2>1
    <3>2. PinsExact(q, w, g)
      <4>1. Pins(w) = Pins(v)
        BY <3>1 DEF Pins
      <4> QED BY <1>5, <3>1, <4>1 DEF PinsExact
    <3>3. RefKeys(w, c) = {} /\ BatchBytes(g[c]) = 0
      BY <1>3, <1>7, <2>1
    <3>4. PinsExact(AddRefs(q, c, 0, g[c]), w, g)
      BY <3>2, <3>3, PinNone
    <3> QED BY <2>1, <3>4
  <2>2. CASE n # 0
    <3>1. Cardinality(RefKeys(v, c)) = 0
      BY <1>4, FS_EmptySet
    <3>2. Cardinality(RefKeys(w, c)) = Cardinality(RefKeys(v, c)) + n
      BY <1>3, <1>7, <3>1
    <3>3. n \in Nat \ {0}
      BY <1>3, <2>2
    <3> QED BY <1>1, <1>5, <1>6, <3>2, <3>3, PinMore
  <2> QED BY <2>1, <2>2
<1>9. OwnedExact(o, w)
  <2>1. ASSUME NEW k \in DOMAIN m PROVE EntryCharge(w[k]) = EntryCharge(m[k])
    <3>1. CASE k \in S
      <4>1. m[k].kind = "ref" /\ w[k].kind = "ref"
        BY <3>1 DEF RefKeys, RefersTo
      <4> QED BY <4>1 DEF EntryCharge, OwnedPayloadBytes
    <3>2. CASE k \notin S
      BY <3>2
    <3> QED BY <3>1, <3>2
  <2>2. Charges(w) = Charges(m)
    BY <2>1 DEF Charges
  <2> QED BY <2>2 DEF Counts, OwnedExact
<1> QED BY <1>8, <1>9 DEF Counts, q

-----------------------------------------------------------------------------
(* Steps. *)

(* Freeing what nothing holds frees no pinned batch. *)
LEMMA CountsDrop ==
    ASSUME NEW h \in [Batches -> Seq(Row)], Drop(h), PlacesInv', NEW p, NEW o,
           Counts(p, o, mem', h)
    PROVE  Counts(p, o, mem', heap')
<1>1. IsMap(mem', BufferedRecord) /\ heap' \in [Batches -> Seq(Row)]
  BY DEF PlacesInv, PlacesType
<1>2. \A b \in Batches : b \in Pins(mem') => Held(b)'
  BY DEF Pins, RefKeys, Held, KeysOf
<1>3. \A b \in Pins(mem') : heap'[b] = h[b]
  BY <1>2 DEF Drop, Pins
<1> QED BY <1>1, <1>3, PinsSameRows DEF Counts

(* The footprint is a natural. *)
LEMMA RetainedType ==
    ASSUME NEW p, NEW o, NEW m, NEW h, Counts(p, o, m, h), IsMap(m, BufferedRecord)
    PROVE  p.total \in Nat /\ o \in Nat
<1>1. p.total \in Nat
  BY DEF Counts, PinsExact, PinCounters
<1>2. SumOver(Charges(m), DOMAIN m) \in Nat
  BY ChargesType, SumProps
<1> QED BY <1>1, <1>2 DEF Counts, OwnedExact

(* What an operation has to show. *)
LEMMA CountedNext ==
    ASSUME PlacesInv, PlacesInv', Counted, Undrained,
           Counts(pinned', owned', mem', heap'),
           \/ TrackPeak
           \/ /\ peak' = peak /\ Retained' <= Retained
              /\ Reclaiming' \/ ~Reclaiming
           \/ peak' = peak /\ Reclaiming'
    PROVE  Counted'
<1>1. IsMap(mem', BufferedRecord) /\ IsMap(mem, BufferedRecord)
  BY DEF PlacesInv, PlacesType
<1>2. pinned'.total \in Nat /\ owned' \in Nat
  BY <1>1, RetainedType
<1>3. /\ Counts(pinned, owned, mem, heap) /\ peak \in Nat
      /\ Reclaiming \/ peak >= Retained
  BY DEF Counted, Counts
<1>4. pinned.total \in Nat /\ owned \in Nat
  BY <1>1, <1>3, RetainedType
<1>5. Retained' \in Nat /\ Retained \in Nat
  BY <1>2, <1>4 DEF Retained
<1>6. peak' \in Nat /\ (Reclaiming' \/ peak' >= Retained')
  <2>1. CASE TrackPeak
    BY <1>3, <1>5, <2>1 DEF TrackPeak
  <2>2. CASE peak' = peak
    BY <1>3, <1>5, <2>2 DEF TrackPeak
  <2> QED BY <2>1, <2>2
<1> QED BY <1>6 DEF Counted, Counts

(* The in-memory tier and its counters stay as they are. *)
LEMMA CountsKept ==
    ASSUME PlacesInv, PlacesInv', Counted, Undrained,
           UNCHANGED <<mem, pinned, owned>>, heap' = heap \/ Drop(heap)
    PROVE  Counts(pinned', owned', mem', heap') /\ Retained' <= Retained
<1>1. Counts(pinned, owned, mem, heap)
  BY DEF Counted, Counts
<1>2. IsMap(mem, BufferedRecord) /\ heap \in [Batches -> Seq(Row)]
  BY DEF PlacesInv, PlacesType
<1>3. Counts(pinned', owned', mem', heap')
  <2>1. CASE heap' = heap
    BY <1>1, <2>1
  <2>2. CASE Drop(heap)
    <3>1. Counts(pinned', owned', mem', heap)
      BY <1>1
    <3> QED BY <1>2, <2>2, <3>1, CountsDrop
  <2> QED BY <2>1, <2>2
<1>4. pinned.total \in Nat /\ owned \in Nat
  BY <1>1, <1>2, RetainedType
<1>5. Retained' <= Retained
  BY <1>4 DEF Retained
<1> QED BY <1>3, <1>5

(***************************************************************************)
(* A batch queued for eviction is one of the allocations.                  *)
(***************************************************************************)
Queued == victims \in Seq(Batches)

(* The eviction queue is filled from the pinned batches and only shrinks. *)
LEMMA QueuedStep == Queued /\ [Next]_vars => Queued'
<1> SUFFICES ASSUME Queued, [Next]_vars PROVE Queued'
  OBVIOUS
<1>1. \A S \in SUBSET PinnedNow : \A o \in SetToSeqs(S) : o \in Seq(Batches)
  <2>1. ASSUME NEW S \in SUBSET PinnedNow, NEW o \in SetToSeqs(S)
        PROVE  o \in Seq(Batches)
    <3>1. S \subseteq Batches
      BY DEF PinnedNow
    <3>2. IsFiniteSet(S)
      BY <3>1, FS_Subset, ConstantsAssumption
    <3>3. o \in Seq(S)
      BY <2>1, <3>2, PlaceInFinds
    <3> QED BY <3>1, <3>3
  <2> QED BY <2>1
<1>2. ASSUME NEW p, NEW t, StartEviction(p, t) PROVE Queued'
  BY <1>1, <1>2 DEF StartEviction, VictimOrders, Queued
<1>3. CASE UNCHANGED victims
  BY <1>3 DEF Queued
<1>4. CASE victims # << >> /\ victims' = Tail(victims)
  BY <1>4 DEF Queued
<1>5. CASE EndScan
  <2>1. PICK o \in SetToSeqs({b \in PinnedNow : Sparse(b)}) : victims' = o
    BY <1>5 DEF EndScan
  <2> QED BY <1>1, <2>1 DEF Queued
<1>6. CASE victims' = << >>
  BY <1>6 DEF Queued
<1>7. CASE Scan
  BY <1>3, <1>7 DEF Scan, DecodeBatch, MergeRow, MergeDelete, EndBatch, Store,
                    KeepExisting, evictVars
<1>8. CASE LookupFails \/ InsertFails
  BY <1>3, <1>8 DEF LookupFails, InsertFails, FailRead, evictVars
<1>9. CASE EnforceLimits
  BY <1>2, <1>3, <1>4, <1>6, <1>9
  DEF EnforceLimits, CheckBudget, CheckCap, AcceptFootprint, RejectFootprint,
      CompactVictim, SpillVictim, SpillFails, SpillPut, SpillDone, EvictionDone,
      Evicting, FailRead, evictVars
<1>10. CASE Flush \/ RemoveMatched
  BY <1>3, <1>10 DEF Flush, FlushGroup, FlushDone, FlushFails, LastFlushFails,
                     RemoveMatched, FailRead, evictVars
<1>11. CASE CompactSparseBatches
  BY <1>3, <1>4, <1>5, <1>11
  DEF CompactSparseBatches, CompactSparse, SparseDone, evictVars
<1>12. CASE Drain
  BY <1>3, <1>12 DEF Drain, StartDrain, YieldInMemory, YieldOnDisk, DrainFails,
                     DrainDone, FailRead, evictVars
<1>13. CASE Over \/ UNCHANGED vars
  BY <1>3, <1>13 DEF Over, vars, evictVars
<1> QED BY <1>7, <1>8, <1>9, <1>10, <1>11, <1>12, <1>13 DEF Next

(* Operations that leave the in-memory tier as it is. *)
LEMMA IdleCounted ==
    ASSUME PlacesInv, PlacesInv', Counted,
           \/ CheckBudget \/ CheckCap \/ AcceptFootprint \/ SpillPut
           \/ SpillDone \/ EvictionDone \/ EndScan \/ SparseDone
           \/ FlushGroup \/ FlushDone \/ EndBatch \/ StartDrain
    PROVE  Counted'
<1>1. /\ UNCHANGED <<mem, pinned, owned>> /\ (heap' = heap \/ Drop(heap))
      /\ Undrained
  BY DEF CheckBudget, CheckCap, AcceptFootprint, SpillPut, SpillDone,
         EvictionDone, EndScan, SparseDone, FlushGroup, FlushDone, EndBatch,
         StartDrain, bytesVars, Undrained
<1>2. Counts(pinned', owned', mem', heap') /\ Retained' <= Retained
  BY <1>1, CountsKept
<1>3. CASE EvictionDone \/ SparseDone
  BY <1>1, <1>2, <1>3, CountedNext DEF EvictionDone, SparseDone
<1>4. CASE CheckBudget \/ CheckCap \/ AcceptFootprint \/ SpillPut \/ SpillDone
           \/ EndScan \/ EndBatch
  <2>1. peak' = peak /\ (Reclaiming' \/ ~Reclaiming)
    BY <1>4 DEF CheckBudget, CheckCap, AcceptFootprint, SpillPut, SpillDone,
           EndScan, EndBatch, bytesVars, Reclaiming, StartEviction,
           FlushWhenFull
  <2> QED BY <1>1, <1>2, <2>1, CountedNext
<1>5. CASE FlushGroup
  <2>1. peak' = peak /\ (Reclaiming' \/ ~Reclaiming)
    BY <1>5 DEF FlushGroup, bytesVars, Reclaiming
  <2> QED BY <1>1, <1>2, <2>1, CountedNext
<1>6. CASE FlushDone
  <2>1. pc = "flush" /\ pc' = after /\ after' = after /\ peak' = peak
    BY <1>6 DEF FlushDone, bytesVars
  <2>2. Reclaiming' \/ ~Reclaiming
    BY <2>1 DEF Reclaiming
  <2> QED BY <1>1, <1>2, <2>1, <2>2, CountedNext
<1>7. CASE StartDrain
  <2>1. /\ pc = "base" /\ peak' = peak
    BY <1>7 DEF StartDrain, bytesVars
  <2>2. ~Reclaiming
    BY <2>1 DEF Reclaiming
  <2> QED BY <1>1, <1>2, <2>1, <2>2, CountedNext
<1> QED BY <1>3, <1>4, <1>5, <1>6, <1>7

(* A block is decoded into a batch that nothing refers to. *)
LEMMA DecodeCounted ==
    ASSUME PlacesInv, PlacesInv', Counted, DecodeBatch
    PROVE  Counted'
<1>1. /\ UNCHANGED <<mem, pinned, owned, peak, pc, after>> /\ Undrained
      /\ pc = "scan"
  BY DEF DecodeBatch, bytesVars, Undrained
<1>2. PICK b \in {c \in Batches : ~Held(c)} :
        \A c \in Batches \ {b} : heap'[c] = heap[c]
  <2>1. heap \in [Batches -> Seq(Row)]
    BY DEF PlacesInv, PlacesType
  <2> QED BY <2>1 DEF DecodeBatch
<1>3. Counts(pinned, owned, mem, heap)
  BY <1>1 DEF Counted, Counts
<1>4. /\ IsMap(mem, BufferedRecord) /\ heap \in [Batches -> Seq(Row)]
      /\ heap' \in [Batches -> Seq(Row)]
  BY DEF PlacesInv, PlacesType
<1>5. \A c \in Pins(mem) : heap'[c] = heap[c]
  BY <1>2 DEF Pins, RefKeys, Held, KeysOf
<1>6. PinsExact(pinned, mem, heap')
  BY <1>3, <1>4, <1>5, PinsSameRows DEF Counts
<1>7. Counts(pinned', owned', mem', heap')
  BY <1>1, <1>3, <1>6 DEF Counts
<1>8. Retained' <= Retained
  <2>1. pinned.total \in Nat /\ owned \in Nat
    BY <1>3, <1>4, RetainedType
  <2> QED BY <1>1, <2>1 DEF Retained
<1>9. ~Reclaiming
  BY <1>1 DEF Reclaiming
<1> QED BY <1>1, <1>7, <1>8, <1>9, CountedNext

(* A record stored in memory, new or over another, is counted as it goes in. *)
LEMMA StoredCounts ==
    ASSUME PlacesInv, PlacesInv', Counts(pinned, owned, mem, heap),
           NEW k \in Keys, NEW r,
           MergeInPlace(k, r) \/ InsertOver(k, r) \/ InsertInMemory(k, r)
    PROVE  Counts(pinned', owned', mem', heap)
<1>1. mem' = With(mem, k, r)
  BY DEF MergeInPlace, InsertOver, InsertInMemory
<1>2. IsMap(mem, BufferedRecord) /\ IsMap(mem', BufferedRecord)
      /\ heap \in [Batches -> Seq(Row)]
  BY DEF PlacesInv, PlacesType
<1>3. r \in BufferedRecord
  <2>1. k \in DOMAIN mem' /\ mem'[k] = r
    BY <1>1 DEF With
  <2> QED BY <1>2, <2>1 DEF IsMap
<1>4. \A p : Pinning(p, r) = PinningIn(heap, p, r)
  BY DEF Pinning, PinningIn
<1>5. CASE InsertInMemory(k, r)
  <2>1. /\ k \notin DOMAIN mem /\ pinned' = PinningIn(heap, pinned, r)
        /\ owned' = owned + EntryCharge(r)
    BY <1>4, <1>5 DEF InsertInMemory, ContainsKey
  <2> QED BY <1>1, <1>2, <1>3, <2>1, CountAdd
<1>6. CASE MergeInPlace(k, r) \/ InsertOver(k, r)
  <2>1. /\ k \in DOMAIN mem
        /\ pinned' = PinningIn(heap, Unpinning(pinned, mem[k]), r)
        /\ \/ owned' = Monus(owned, EntryCharge(mem[k])) + EntryCharge(r)
           \/ owned' = Monus(Monus(owned, EntryBytes),
                             OwnedPayloadBytes(mem[k])) + EntryCharge(r)
    BY <1>4, <1>6 DEF MergeInPlace, InsertOver
  <2>2. /\ Counts(PinningIn(heap, Unpinning(pinned, mem[k]), r),
                  Monus(owned, EntryCharge(mem[k])) + EntryCharge(r),
                  With(mem, k, r), heap)
        /\ Monus(Monus(owned, EntryBytes), OwnedPayloadBytes(mem[k])) =
             Monus(owned, EntryCharge(mem[k]))
    BY <1>2, <1>3, <2>1, CountReplace
  <2> QED BY <1>1, <2>1, <2>2
<1> QED BY <1>5, <1>6

(* Merging a row or a deleted key. *)
LEMMA MergeCounted ==
    ASSUME PlacesInv, PlacesInv', Counted, MergeRow \/ MergeDelete
    PROVE  Counted'
<1>1. pc = "scan" /\ Undrained /\ ~Reclaiming /\ Drop(heap)
  BY DEF MergeRow, MergeDelete, Undrained, Reclaiming
<1>2. Counts(pinned, owned, mem, heap)
  BY <1>1 DEF Counted, Counts
<1>3. \/ \E k \in Keys : KeepExisting(k)
      \/ \E k \in Keys : \E r : Store(k, r)
  BY DEF MergeRow, MergeDelete
<1>4. ASSUME UNCHANGED <<mem, pinned, owned, peak>> PROVE Counted'
  <2>1. Counts(pinned', owned', mem', heap') /\ Retained' <= Retained
    BY <1>1, <1>4, CountsKept
  <2> QED BY <1>1, <1>4, <2>1, CountedNext
<1>5. ASSUME NEW k \in Keys, KeepExisting(k) PROVE Counted'
  BY <1>4, <1>5 DEF KeepExisting, bytesVars
<1>6. ASSUME NEW k \in Keys, NEW r, Store(k, r) PROVE Counted'
  <2>1. CASE InsertOnDisk(k, r) \/ InsertSpilled(k, r)
    BY <1>4, <2>1 DEF InsertOnDisk, InsertSpilled, bytesVars
  <2>2. CASE MergeInPlace(k, r) \/ InsertOver(k, r) \/ InsertInMemory(k, r)
    <3>1. TrackPeak
      BY <2>2 DEF MergeInPlace, InsertOver, InsertInMemory
    <3>2. Counts(pinned', owned', mem', heap)
      BY <1>2, <2>2, StoredCounts
    <3>3. heap \in [Batches -> Seq(Row)]
      BY DEF PlacesInv, PlacesType
    <3>4. Counts(pinned', owned', mem', heap')
      BY <1>1, <3>2, <3>3, CountsDrop
    <3> QED BY <1>1, <3>1, <3>4, CountedNext
  <2> QED BY <1>6, <2>1, <2>2 DEF Store
<1> QED BY <1>3, <1>5, <1>6

(* The survivors of a sparse batch move to a batch of their own. *)
LEMMA CompactCounted ==
    ASSUME PlacesInv, PlacesInv', Counted, Queued, CompactVictim \/ CompactSparse
    PROVE  Counted'
<1> DEFINE b == Head(victims)
           K == KeysOf(b)
<1>1. /\ pc \in {"evict", "sparse"} /\ pc' = pc /\ victims # << >>
      /\ UNCHANGED <<owned, peak>> /\ CompactBatch(b)
  BY DEF CompactVictim, CompactSparse, Evicting
<1>2. b \in Batches
  BY <1>1 DEF Queued
<1> HIDE DEF b
<1>3. Undrained /\ Reclaiming /\ Reclaiming'
  BY <1>1 DEF Undrained, Reclaiming
<1>4. PICK c \in {x \in Batches : ~Held(x)}, ks \in SetToSeqs(K) :
        CompactTo(b, c, ks)
  BY <1>1 DEF CompactBatch
<1> DEFINE g == [heap EXCEPT ![c] = CompactRows(ks)]
           n == Len(ks)
<1>5. /\ mem' = [k \in DOMAIN mem |->
                   IF k \in K
                   THEN [mem[k] EXCEPT !.batch = c, !.row = PlaceIn(ks, k)]
                   ELSE mem[k]]
      /\ pinned' = AddRefs(RemoveRefs(pinned, b, n), c, n, CompactRows(ks))
      /\ Drop(g)
  BY <1>4 DEF CompactTo
<1>6. /\ IsMap(mem, BufferedRecord) /\ IsMap(mem', BufferedRecord)
      /\ heap \in [Batches -> Seq(Row)]
  BY DEF PlacesInv, PlacesType
<1>7. K = RefKeys(mem, b) /\ RefKeys(mem, c) = {}
  BY <1>4 DEF KeysOf, RefKeys, Held
<1>8. /\ IsFiniteSet(K) /\ K \subseteq DOMAIN mem
      /\ \A k \in K : mem[k] \in RefRec /\ GetRecord(mem[k]) \in Row
  BY KeysOfProps
<1> HIDE DEF K
<1>9. ks \in Seq(K) /\ n = Cardinality(RefKeys(mem, b))
  BY <1>4, <1>7, <1>8, PlaceInFinds
<1>10. CompactRows(ks) \in Seq(Row) /\ Len(CompactRows(ks)) = n
  <2>1. DOMAIN ks = 1 .. n /\ n \in Nat
    BY <1>9
  <2>2. \A i \in 1 .. n : GetRecord(mem[ks[i]]) \in Row
    BY <1>8, <1>9
  <2>3. CompactRows(ks) = [i \in 1 .. n |-> GetRecord(mem[ks[i]])]
    BY <2>1 DEF CompactRows
  <2>4. CompactRows(ks) \in [1 .. n -> Row]
    BY <2>2, <2>3
  <2> QED BY <2>1, <2>4
<1>11. /\ g \in [Batches -> Seq(Row)] /\ g[c] = CompactRows(ks)
       /\ \A d \in Batches \ {c} : g[d] = heap[d]
  BY <1>4, <1>6, <1>10
<1>12. n = 0 => BatchBytes(g[c]) = 0
  <2>1. Len(g[c]) = n /\ RowBytes \in Nat
    BY <1>10, <1>11, ConstantsAssumption
  <2> QED BY <2>1 DEF BatchBytes
<1>13. /\ DOMAIN mem' = DOMAIN mem
       /\ \A k \in DOMAIN mem \ RefKeys(mem, b) : mem'[k] = mem[k]
  BY <1>5, <1>7
<1>14. ASSUME NEW k \in RefKeys(mem, b) PROVE RefersTo(mem'[k], c)
  <2>1. mem'[k] = [mem[k] EXCEPT !.batch = c, !.row = PlaceIn(ks, k)]
    BY <1>5, <1>7, <1>8
  <2>2. mem[k] \in RefRec
    BY <1>7, <1>8
  <2> QED BY <2>1, <2>2 DEF RefersTo, RefRec
<1>15. Counts(pinned, owned, mem, heap)
  BY <1>3 DEF Counted, Counts
<1> HIDE DEF g, n
<1>16. Counts(AddRefs(RemoveRefs(pinned, b, n), c, n, g[c]), owned, mem', g)
  BY <1>2, <1>4, <1>6, <1>7, <1>9, <1>11, <1>12, <1>13, <1>14, <1>15,
     CountCompact
<1>17. Counts(pinned', owned', mem', g)
  BY <1>1, <1>5, <1>11, <1>16
<1>18. Counts(pinned', owned', mem', heap')
  BY <1>5, <1>11, <1>17, CountsDrop
<1> QED BY <1>1, <1>3, <1>18, CountedNext

(* The entries of a dense batch leave memory together. *)
LEMMA SpillCounted ==
    ASSUME PlacesInv, PlacesInv', Counted, Queued, SpillVictim
    PROVE  Counted'
<1> DEFINE b == Head(victims)
<1>1. /\ pc = "evict" /\ pc' = "spill" /\ victims # << >> /\ peak' = peak
      /\ mem' = Without(mem, KeysOf(b))
      /\ pinned' = RemoveRefs(pinned, b, Cardinality(KeysOf(b)))
      /\ owned' = Monus(owned, Cardinality(KeysOf(b)) * EntryBytes)
      /\ Drop(heap)
  BY DEF SpillVictim, Evicting
<1>2. b \in Batches
  BY <1>1 DEF Queued
<1> HIDE DEF b
<1>3. Undrained /\ Reclaiming'
  BY <1>1 DEF Undrained, Reclaiming
<1>4. KeysOf(b) = RefKeys(mem, b)
  BY DEF KeysOf, RefKeys
<1>5. IsMap(mem, BufferedRecord) /\ heap \in [Batches -> Seq(Row)]
  BY DEF PlacesInv, PlacesType
<1>6. Counts(pinned, owned, mem, heap)
  BY <1>3 DEF Counted, Counts
<1>7. Counts(pinned', owned', mem', heap)
  BY <1>1, <1>2, <1>4, <1>5, <1>6, CountSpill
<1>8. Counts(pinned', owned', mem', heap')
  BY <1>1, <1>5, <1>7, CountsDrop
<1> QED BY <1>1, <1>3, <1>8, CountedNext

(* A base row takes its record, and its bytes, out of the map. *)
LEMMA RemoveCounted ==
    ASSUME PlacesInv, PlacesInv', Counted, RemoveMatched
    PROVE  Counted'
<1>1. pc = "base" /\ peak' = peak /\ Drop(heap) /\ Undrained /\ ~Reclaiming
  BY DEF RemoveMatched, Undrained, Reclaiming
<1>2. PICK k \in Keys : RemoveInMemory(k) \/ RemoveOnDisk(k)
  BY DEF RemoveMatched
<1>3. Counts(pinned, owned, mem, heap)
  BY <1>1 DEF Counted, Counts
<1>4. IsMap(mem, BufferedRecord) /\ heap \in [Batches -> Seq(Row)]
      /\ IsMap(mem', BufferedRecord)
  BY DEF PlacesInv, PlacesType
<1>5. CASE RemoveOnDisk(k)
  <2>1. UNCHANGED <<mem, pinned, owned>>
    BY <1>5 DEF RemoveOnDisk
  <2>2. Counts(pinned', owned', mem', heap') /\ Retained' <= Retained
    BY <1>1, <2>1, CountsKept
  <2> QED BY <1>1, <2>2, CountedNext
<1>6. CASE RemoveInMemory(k)
  <2>1. /\ k \in DOMAIN mem /\ pinned' = Unpinning(pinned, mem[k])
        /\ owned' = Monus(owned, EntryCharge(mem[k]))
        /\ mem' = Without(mem, {k})
    BY <1>6 DEF RemoveInMemory
  <2>2. /\ Counts(pinned', owned', mem', heap)
        /\ pinned'.total <= pinned.total /\ owned' <= owned
    BY <1>3, <1>4, <2>1, CountRemove
  <2>3. pinned.total \in Nat /\ owned \in Nat
    BY <1>3, <1>4, RetainedType
  <2>4. pinned'.total \in Nat /\ owned' \in Nat
    BY <1>4, <2>2, RetainedType
  <2>5. Retained' <= Retained
    BY <2>2, <2>3, <2>4 DEF Retained
  <2>6. Counts(pinned', owned', mem', heap')
    BY <1>1, <1>4, <2>2, CountsDrop
  <2> QED BY <1>1, <2>5, <2>6, CountedNext
<1> QED BY <1>2, <1>5, <1>6

(* The sizes of the pinned batches, as a sum over a function. *)
LEMMA BatchBytesSum ==
    ASSUME NEW g \in [Batches -> Seq(Row)], NEW S \in SUBSET Batches
    PROVE  MapThenSumSet(LAMBDA b : BatchBytes(g[b]), S) = SumOver(Sizes(g), S)
<1> DEFINE D == Batches
           f == Sizes(g)
           total == CHOOSE q : q = [s \in SUBSET S |->
                      IF s = {} THEN 0
                      ELSE BatchBytes(g[Pick(s)]) + q[s \ {Pick(s)}]]
<1>1. MapThenSumSet(LAMBDA b : BatchBytes(g[b]), S) = total[S]
  BY DEF MapThenSumSet, MapThenFoldSet, Pick
<1>2. IsFiniteSet(D) /\ f \in [D -> Nat]
  BY SizesType
<1>3. \A s \in SUBSET S : s # {} => f[Pick(s)] = BatchBytes(g[Pick(s)])
  BY SizesType, PickIn
<1> HIDE DEF f, D
<1>4. PICK h \in [SUBSET D -> Nat] : IsSum(f, D, h)
  BY <1>2, SumExists
<1> DEFINE part == [s \in SUBSET S |-> h[s]]
<1>5. \A s \in SUBSET S :
        part[s] = IF s = {} THEN 0 ELSE BatchBytes(g[Pick(s)]) + part[s \ {Pick(s)}]
  <2>1. \A s \in SUBSET D :
          h[s] = IF s = {} THEN 0 ELSE f[Pick(s)] + h[s \ {Pick(s)}]
    BY <1>4 DEF IsSum
  <2>2. \A s \in SUBSET S : s \in SUBSET D /\ s \ {Pick(s)} \in SUBSET S
    BY DEF D
  <2> QED BY <1>3, <2>1, <2>2
<1>6. part = [s \in SUBSET S |-> part[s]]
  OBVIOUS
<1> HIDE DEF part
<1>7. part = [s \in SUBSET S |->
                IF s = {} THEN 0 ELSE BatchBytes(g[Pick(s)]) + part[s \ {Pick(s)}]]
  BY <1>5, <1>6
<1>8. total = [s \in SUBSET S |->
                 IF s = {} THEN 0 ELSE BatchBytes(g[Pick(s)]) + total[s \ {Pick(s)}]]
  BY <1>7
<1> HIDE DEF total
<1>9. IsSum(f, S, total) /\ S \in SUBSET D
  BY <1>3, <1>8 DEF IsSum, D
<1>10. total[S] = SumOver(f, S)
  BY <1>2, <1>9, SumSolved
<1> QED BY <1>1, <1>10 DEF f

(* The charges of the entries, likewise. *)
LEMMA ChargesSum ==
    ASSUME NEW m, IsMap(m, BufferedRecord), NEW S \in SUBSET DOMAIN m
    PROVE  MapThenSumSet(LAMBDA k : EntryCharge(m[k]), S) = SumOver(Charges(m), S)
<1> DEFINE D == DOMAIN m
           f == Charges(m)
           total == CHOOSE q : q = [s \in SUBSET S |->
                      IF s = {} THEN 0
                      ELSE EntryCharge(m[Pick(s)]) + q[s \ {Pick(s)}]]
<1>1. MapThenSumSet(LAMBDA k : EntryCharge(m[k]), S) = total[S]
  BY DEF MapThenSumSet, MapThenFoldSet, Pick
<1>2. IsFiniteSet(D) /\ f \in [D -> Nat]
  BY ChargesType
<1>3. \A s \in SUBSET S : s # {} => f[Pick(s)] = EntryCharge(m[Pick(s)])
  BY ChargesType, PickIn
<1> HIDE DEF f, D
<1>4. PICK h \in [SUBSET D -> Nat] : IsSum(f, D, h)
  BY <1>2, SumExists
<1> DEFINE part == [s \in SUBSET S |-> h[s]]
<1>5. \A s \in SUBSET S :
        part[s] = IF s = {} THEN 0 ELSE EntryCharge(m[Pick(s)]) + part[s \ {Pick(s)}]
  <2>1. \A s \in SUBSET D :
          h[s] = IF s = {} THEN 0 ELSE f[Pick(s)] + h[s \ {Pick(s)}]
    BY <1>4 DEF IsSum
  <2>2. \A s \in SUBSET S : s \in SUBSET D /\ s \ {Pick(s)} \in SUBSET S
    BY DEF D
  <2> QED BY <1>3, <2>1, <2>2
<1>6. part = [s \in SUBSET S |-> part[s]]
  OBVIOUS
<1> HIDE DEF part
<1>7. part = [s \in SUBSET S |->
                IF s = {} THEN 0 ELSE EntryCharge(m[Pick(s)]) + part[s \ {Pick(s)}]]
  BY <1>5, <1>6
<1>8. total = [s \in SUBSET S |->
                 IF s = {} THEN 0 ELSE EntryCharge(m[Pick(s)]) + total[s \ {Pick(s)}]]
  BY <1>7
<1> HIDE DEF total
<1>9. IsSum(f, S, total) /\ S \in SUBSET D
  BY <1>3, <1>8 DEF IsSum, D
<1>10. total[S] = SumOver(f, S)
  BY <1>2, <1>9, SumSolved
<1> QED BY <1>1, <1>10 DEF f

-----------------------------------------------------------------------------
(* An empty map has nothing to count. *)
LEMMA CountedInit == Init => Counted /\ Queued
<1> SUFFICES ASSUME Init PROVE Counted /\ Queued
  OBVIOUS
<1>1. /\ DOMAIN mem = {} /\ IsMap(mem, BufferedRecord)
      /\ heap \in [Batches -> Seq(Row)]
  BY PlacesInvInit DEF Init, NoEntries, PlacesInv, PlacesType
<1>2. \A b \in Batches : RefKeys(mem, b) = {}
  BY <1>1 DEF RefKeys
<1>3. Pins(mem) = {}
  BY <1>2 DEF Pins
<1>4. \A b \in Batches : Cardinality(RefKeys(mem, b)) = 0
  BY <1>2, FS_EmptySet
<1>5. SumOver(Sizes(heap), Pins(mem)) = 0
  BY <1>1, <1>3, SizesType, SumProps
<1>6. SumOver(Charges(mem), DOMAIN mem) = 0
  <2>1. SumOver(Charges(mem), {}) = 0
    BY <1>1, ChargesType, SumProps
  <2> QED BY <1>1, <2>1
<1>7. /\ pinned = [refs |-> [b \in Batches |-> 0],
                   bytes |-> [b \in Batches |-> 0], total |-> 0]
      /\ owned = 0 /\ peak = 0 /\ victims = << >>
  BY DEF Init
<1>8. PinsExact(pinned, mem, heap)
  BY <1>4, <1>5, <1>7 DEF PinsExact, PinCounters
<1>9. Retained = 0
  BY <1>7 DEF Retained
<1> QED BY <1>6, <1>7, <1>8, <1>9 DEF Counted, OwnedExact, Queued

(* Once the map is drained or the read has failed nothing is counted. *)
LEMMA OverCounted ==
    ASSUME pc' \in {"drain", "done", "failed"}
    PROVE  Counted'
BY DEF Counted, Undrained

(* Every step keeps the counters exact. *)
LEMMA CountedStep ==
    PlacesInv /\ PlacesInv' /\ Counted /\ Queued /\ [Next]_vars => Counted'
<1> SUFFICES ASSUME PlacesInv, PlacesInv', Counted, Queued, [Next]_vars
             PROVE  Counted'
  OBVIOUS
<1>1. CASE Scan
  BY <1>1, DecodeCounted, MergeCounted, IdleCounted DEF Scan
<1>2. CASE LookupFails \/ InsertFails
  BY <1>2, OverCounted DEF LookupFails, InsertFails, FailRead
<1>3. CASE EnforceLimits
  <2>1. CASE RejectFootprint \/ SpillFails
    BY <2>1, OverCounted DEF RejectFootprint, SpillFails, FailRead
  <2> QED BY <1>3, <2>1, IdleCounted, CompactCounted, SpillCounted
          DEF EnforceLimits
<1>4. CASE Flush
  <2>1. CASE FlushFails \/ LastFlushFails
    BY <2>1, OverCounted DEF FlushFails, LastFlushFails, FailRead
  <2> QED BY <1>4, <2>1, IdleCounted DEF Flush
<1>5. CASE CompactSparseBatches
  BY <1>5, IdleCounted, CompactCounted DEF CompactSparseBatches
<1>6. CASE RemoveMatched
  BY <1>6, RemoveCounted
<1>7. CASE Drain
  <2>1. CASE YieldInMemory \/ YieldOnDisk \/ DrainFails \/ DrainDone
    BY <2>1, OverCounted DEF YieldInMemory, YieldOnDisk, DrainFails, DrainDone,
                             FailRead
  <2> QED BY <1>7, <2>1, IdleCounted DEF Drain
<1>8. CASE Over \/ UNCHANGED vars
  <2>1. UNCHANGED <<mem, pinned, owned, peak, heap, pc, after>>
    BY <1>8 DEF Over, vars, bytesVars
  <2> QED BY <2>1 DEF Counted, Undrained, PinsExact, OwnedExact, Reclaiming,
                      Retained
<1> QED BY <1>1, <1>2, <1>3, <1>4, <1>5, <1>6, <1>7, <1>8 DEF Next

(* What the counters are counted to be is what AccountingExact asks. *)
LEMMA CountedExact == PlacesInv /\ Counted => AccountingExact
<1> SUFFICES ASSUME PlacesInv, Counted,
                    pc \notin {"flush", "drain", "done", "failed"}
             PROVE  /\ \A b \in Batches : pinned.refs[b] = Cardinality(KeysOf(b))
                    /\ pinned.total =
                         MapThenSumSet(LAMBDA b : BatchBytes(heap[b]), PinnedNow)
                    /\ owned = MapThenSumSet(LAMBDA k : EntryCharge(mem[k]),
                                             DOMAIN mem)
                    /\ peak >= Retained \/ pc \in {"evict", "spill", "sparse"}
  BY DEF AccountingExact
<1>1. IsMap(mem, BufferedRecord) /\ heap \in [Batches -> Seq(Row)]
  BY DEF PlacesInv, PlacesType
<1>2. /\ PinsExact(pinned, mem, heap) /\ OwnedExact(owned, mem)
      /\ Reclaiming \/ peak >= Retained
  BY DEF Counted, Undrained
<1>3. (\A b \in Batches : KeysOf(b) = RefKeys(mem, b)) /\ PinnedNow = Pins(mem)
  BY DEF KeysOf, RefKeys, PinnedNow, Pins
<1>4. \A b \in Batches : pinned.refs[b] = Cardinality(KeysOf(b))
  BY <1>2, <1>3 DEF PinsExact
<1>5. pinned.total = MapThenSumSet(LAMBDA b : BatchBytes(heap[b]), PinnedNow)
  <2>1. PinnedNow \in SUBSET Batches
    BY DEF PinnedNow
  <2>2. MapThenSumSet(LAMBDA b : BatchBytes(heap[b]), PinnedNow)
          = SumOver(Sizes(heap), PinnedNow)
    BY <1>1, <2>1, BatchBytesSum
  <2>3. pinned.total = SumOver(Sizes(heap), PinnedNow)
    BY <1>2, <1>3 DEF PinsExact
  <2> QED BY <2>2, <2>3
<1>6. owned = MapThenSumSet(LAMBDA k : EntryCharge(mem[k]), DOMAIN mem)
  <2>1. MapThenSumSet(LAMBDA k : EntryCharge(mem[k]), DOMAIN mem)
          = SumOver(Charges(mem), DOMAIN mem)
    BY <1>1, ChargesSum
  <2> QED BY <1>2, <2>1 DEF OwnedExact
<1>7. peak >= Retained \/ pc \in {"evict", "spill", "sparse"}
  BY <1>2 DEF Reclaiming
<1> QED BY <1>4, <1>5, <1>6, <1>7

(***************************************************************************)
(* The running counters of SpillableRecordMap - PinnedBatches and          *)
(* current_owned_and_overhead_bytes - are at every point between two steps *)
(* what a fresh count over the in-memory tier gives, and the recorded peak *)
(* is behind only inside an eviction, for any keys, batches, budget and    *)
(* cap.                                                                    *)
(***************************************************************************)
THEOREM AccountingTheorem == Spec => []AccountingExact
BY CountedInit, CountedStep, QueuedStep, CountedExact, PlacesTheorem, PTL DEF Spec

-----------------------------------------------------------------------------
(***************************************************************************)
(* The limits.  An eviction pass holds on to what it has still to visit: a *)
(* pinned batch is queued, or was compacted by this pass.                  *)
(***************************************************************************)

Fresh(b) == Cardinality(KeysOf(b)) = Len(heap[b])
InQueue(b) == \E i \in DOMAIN victims : victims[i] = b
LowMark == LowWater(MaxInMemory)

(* Under the allowance or the low-water mark, or nothing dead is resident. *)
Within == Retained < Allowance \/ Retained <= LowMark \/ AllFresh

(* Between two operations, the flush of a full staging area included. *)
Between == pc = "scan" \/ (pc = "flush" /\ after = "scan")

(* Inside an eviction pass. *)
Passing ==
    \/ pc \in {"evict", "spill"}
    \/ pc = "flush" /\ after \in {"spill", "evict"}

BudgetInv ==
    /\ Between \/ pc \in {"cap", "capped"} => Within
    /\ Passing => /\ \A b \in PinnedNow : Fresh(b) \/ InQueue(b)
                  /\ AllFresh \/ target <= LowMark

(* What the end-of-scan compaction visits is sparse when it gets there. *)
CapInv ==
    /\ HasCap /\ (Between \/ pc \in {"sparse", "base"}) => Retained <= PeakCap
    /\ pc = "sparse" =>
          /\ \A i, j \in DOMAIN victims : victims[i] = victims[j] => i = j
          /\ \A b \in Batches : InQueue(b) => Sparse(b)

(* A cap above the soft budget is reached only with nothing left to compact. *)
Roomy == MaxInMemory <= PeakCap
OwnedKeys == {k \in DOMAIN mem : mem[k].kind # "ref"}

ErrorInv ==
    /\ Passing /\ pass = "cap" => target <= PeakCap
    /\ Passing /\ pass = "cap" /\ Roomy =>
          AllFresh /\ \A b \in PinnedNow : InQueue(b)
    /\ pc = "capped" /\ Roomy => Retained <= PeakCap \/ PinnedNow = {}
    /\ error = "limit" =>
          /\ pc = "failed"
          /\ Roomy => SumOver(Charges(mem), OwnedKeys) > PeakCap

LimitsInv == BudgetInv /\ CapInv /\ ErrorInv

(* A low-water mark lies below what it is a mark of, and grows with it. *)
LEMMA Marks ==
    /\ \A n \in Nat : LowWater(n) \in Nat /\ LowWater(n) <= n
    /\ \A m, n \in Nat : m <= n => LowWater(m) <= LowWater(n)
BY DEF LowWater

(* The allowance is at most the budget. *)
LEMMA AllowanceBound ==
    /\ MaxInMemory \in Nat /\ LowMark \in Nat /\ LowMark <= MaxInMemory
    /\ Allowance \in Nat /\ Allowance <= MaxInMemory
<1>1. MaxInMemory \in Nat
  <2>1. MergeMaxSize \in Nat
    BY ConstantsAssumption
  <2> QED BY <2>1 DEF MaxInMemory
<1>2. LowMark \in Nat /\ LowMark <= MaxInMemory
  BY <1>1, Marks DEF LowMark
<1>3. Reserved \in Nat
  BY ConstantsAssumption
<1> HIDE DEF MaxInMemory
<1>4. Allowance \in Nat /\ Allowance <= MaxInMemory
  BY <1>1, <1>3 DEF Allowance, Monus
<1> QED BY <1>1, <1>2, <1>4

(* The pass under way and where it aims. *)
PassTyped == target \in Nat /\ pass \in {"soft", "cap"}

(* Only the two checks start a pass. *)
LEMMA PassTypedStep == PassTyped /\ [Next]_vars => PassTyped'
<1> SUFFICES ASSUME PassTyped, [Next]_vars PROVE PassTyped'
  OBVIOUS
<1>1. CASE UNCHANGED <<target, pass>>
  BY <1>1 DEF PassTyped
<1>2. CASE CheckBudget
  <2>1. LowWater(Allowance) \in Nat
    BY AllowanceBound, Marks
  <2> QED BY <1>1, <1>2, <2>1 DEF CheckBudget, StartEviction, PassTyped, evictVars
<1>3. CASE CheckCap
  <2>1. LowWater(PeakCap) \in Nat
    BY ConstantsAssumption, Marks
  <2> QED BY <1>1, <1>3, <2>1 DEF CheckCap, StartEviction, PassTyped, evictVars
<1>4. CASE Scan
  BY <1>1, <1>4 DEF Scan, DecodeBatch, MergeRow, MergeDelete, EndBatch, Store,
                    KeepExisting, evictVars
<1>5. CASE LookupFails \/ InsertFails
  BY <1>1, <1>5 DEF LookupFails, InsertFails, FailRead, evictVars
<1>6. CASE EnforceLimits
  BY <1>1, <1>2, <1>3, <1>6
  DEF EnforceLimits, AcceptFootprint, RejectFootprint, CompactVictim,
      SpillVictim, SpillFails, SpillPut, SpillDone, EvictionDone, FailRead,
      evictVars
<1>7. CASE Flush \/ RemoveMatched
  BY <1>1, <1>7 DEF Flush, FlushGroup, FlushDone, FlushFails, LastFlushFails,
                    RemoveMatched, FailRead, evictVars
<1>8. CASE CompactSparseBatches
  BY <1>1, <1>8
  DEF CompactSparseBatches, EndScan, CompactSparse, SparseDone, evictVars
<1>9. CASE Drain
  BY <1>1, <1>9 DEF Drain, StartDrain, YieldInMemory, YieldOnDisk, DrainFails,
                    DrainDone, FailRead, evictVars
<1>10. CASE Over \/ UNCHANGED vars
  BY <1>1, <1>10 DEF Over, vars, evictVars
<1> QED BY <1>4, <1>5, <1>6, <1>7, <1>8, <1>9, <1>10 DEF Next

(* A step that leaves the in-memory tier, its counters and its rows alone. *)
Idle ==
    /\ UNCHANGED <<mem, pinned, owned, error>>
    /\ \A b \in PinnedNow : heap'[b] = heap[b]
    /\ Undrained

(* Freeing what nothing holds leaves the pinned batches alone. *)
LEMMA DropIdle ==
    ASSUME UNCHANGED <<mem, pinned, owned, error>>, heap' = heap \/ Drop(heap),
           Undrained
    PROVE  Idle
<1>1. ASSUME NEW b \in PinnedNow, Drop(heap) PROVE heap'[b] = heap[b]
  <2>1. b \in Batches /\ KeysOf(b)' # {}
    BY DEF PinnedNow, KeysOf
  <2>2. Held(b)'
    BY <2>1 DEF Held
  <2> QED BY <1>1, <2>1, <2>2 DEF Drop
<1> QED BY <1>1 DEF Idle

(* What such a step leaves as it was. *)
LEMMA IdleFacts ==
    ASSUME PlacesInv, Counted, LimitsInv, Idle
    PROVE  /\ Retained \in Nat /\ Retained' = Retained
           /\ PinnedNow' = PinnedNow
           /\ \A b \in PinnedNow : Fresh(b)' <=> Fresh(b)
           /\ AllFresh' <=> AllFresh
           /\ error # "limit" /\ error' = error
<1>1. Retained \in Nat
  <2>1. /\ Counts(pinned, owned, mem, heap) /\ IsMap(mem, BufferedRecord)
    BY DEF Counted, Counts, Idle, PlacesInv, PlacesType
  <2>2. pinned.total \in Nat /\ owned \in Nat
    BY <2>1, RetainedType
  <2> QED BY <2>2 DEF Retained
<1>2. Retained' = Retained /\ error' = error
  BY DEF Idle, Retained
<1>3. error # "limit"
  BY DEF LimitsInv, ErrorInv, Idle, Undrained
<1>4. /\ PinnedNow' = PinnedNow
      /\ \A b \in PinnedNow : KeysOf(b)' = KeysOf(b) /\ heap'[b] = heap[b]
  BY DEF Idle, PinnedNow, KeysOf
<1>5. \A b \in PinnedNow : Fresh(b)' <=> Fresh(b)
  BY <1>4 DEF Fresh
<1>6. AllFresh' <=> AllFresh
  BY <1>4 DEF AllFresh
<1> QED BY <1>1, <1>2, <1>3, <1>4, <1>5, <1>6

(* The queue of a pass is every pinned batch. *)
LEMMA QueueAll ==
    ASSUME NEW p, NEW t, StartEviction(p, t), PinnedNow' = PinnedNow
    PROVE  /\ pc' = "evict" /\ pass' = p /\ target' = t
           /\ \A b \in PinnedNow' : InQueue(b)'
<1>1. PICK o \in SetToSeqs(PinnedNow) : victims' = o
  BY DEF StartEviction, VictimOrders
<1>2. IsFiniteSet(PinnedNow)
  <2>1. PinnedNow \subseteq Batches
    BY DEF PinnedNow
  <2> QED BY <2>1, FS_Subset, ConstantsAssumption
<1>3. \A b \in PinnedNow : PlaceIn(o, b) \in DOMAIN o /\ o[PlaceIn(o, b)] = b
  BY <1>1, <1>2, PlaceInFinds
<1>4. \A b \in PinnedNow : \E i \in DOMAIN victims' : victims'[i] = b
  BY <1>1, <1>3
<1> QED BY <1>4 DEF StartEviction, InQueue

(* The soft budget: a pass starts, or the footprint is under it. *)
LEMMA CheckBudgetLimits ==
    ASSUME PlacesInv, Counted, LimitsInv, CheckBudget
    PROVE  LimitsInv'
<1>1. /\ pc = "soft" /\ UNCHANGED <<mem, pinned, owned, error, heap, disk, after>>
      /\ Undrained
  BY DEF CheckBudget, bytesVars, readVars, Undrained
<1>2. Idle
  BY <1>1, DropIdle
<1>3. /\ Retained \in Nat /\ Retained' = Retained /\ PinnedNow' = PinnedNow
      /\ AllFresh' <=> AllFresh
      /\ error # "limit" /\ error' = error
  BY <1>2, IdleFacts
<1>4. Allowance' = Allowance /\ LowMark' = LowMark
  BY <1>1 DEF Allowance, LowMark
<1>5. CASE OverBudget /\ StartEviction("soft", LowWater(Allowance))
  <2>1. /\ pc' = "evict" /\ pass' = "soft" /\ target' = LowWater(Allowance)
        /\ \A b \in PinnedNow' : InQueue(b)'
    BY <1>3, <1>5, QueueAll
  <2>2. target' <= LowMark'
    BY <1>4, <2>1, AllowanceBound, Marks DEF LowMark
  <2>3. BudgetInv'
    BY <2>1, <2>2 DEF BudgetInv, Between, Passing
  <2>4. CapInv'
    BY <2>1 DEF CapInv, Between
  <2>5. ErrorInv'
    BY <1>3, <2>1 DEF ErrorInv, Passing
  <2> QED BY <2>3, <2>4, <2>5 DEF LimitsInv
<1>6. CASE ~OverBudget /\ pc' = "cap"
  <2>1. Retained' < Allowance'
    BY <1>3, <1>4, <1>6, AllowanceBound DEF OverBudget
  <2>2. BudgetInv'
    BY <1>6, <2>1 DEF BudgetInv, Between, Passing, Within
  <2>3. CapInv'
    BY <1>6 DEF CapInv, Between
  <2>4. ErrorInv'
    BY <1>3, <1>6 DEF ErrorInv, Passing
  <2> QED BY <2>2, <2>3, <2>4 DEF LimitsInv
<1> QED BY <1>5, <1>6 DEF CheckBudget

(* The cap: a pass starts, or the footprint is under it. *)
LEMMA CheckCapLimits ==
    ASSUME PlacesInv, Counted, LimitsInv, CheckCap
    PROVE  LimitsInv'
<1>1. /\ pc = "cap" /\ UNCHANGED <<mem, pinned, owned, error, heap, disk, after>>
      /\ Undrained
  BY DEF CheckCap, bytesVars, readVars, Undrained
<1>2. Idle
  BY <1>1, DropIdle
<1>3. /\ Retained \in Nat /\ Retained' = Retained /\ PinnedNow' = PinnedNow
      /\ AllFresh' <=> AllFresh
      /\ error # "limit" /\ error' = error
  BY <1>2, IdleFacts
<1>4. Allowance' = Allowance /\ LowMark' = LowMark
  BY <1>1 DEF Allowance, LowMark
<1>5. Within
  BY <1>1 DEF LimitsInv, BudgetInv
<1>6. PeakCap \in Nat
  BY ConstantsAssumption
<1>7. CASE OverCap /\ StartEviction("cap", LowWater(PeakCap))
  <2>1. /\ pc' = "evict" /\ pass' = "cap" /\ target' = LowWater(PeakCap)
        /\ \A b \in PinnedNow' : InQueue(b)'
    BY <1>3, <1>7, QueueAll
  <2>2. Retained > PeakCap
    BY <1>7 DEF OverCap
  <2>3. AllFresh \/ PeakCap < MaxInMemory
    BY <1>3, <1>5, <1>6, <2>2, AllowanceBound DEF Within
  <2>4. AllFresh' \/ target' <= LowMark'
    <3>1. CASE AllFresh
      BY <1>3, <3>1
    <3>2. CASE PeakCap < MaxInMemory
      BY <1>4, <1>6, <2>1, <3>2, AllowanceBound, Marks DEF LowMark
    <3> QED BY <2>3, <3>1, <3>2
  <2>5. target' <= PeakCap
    BY <1>6, <2>1, Marks
  <2>6. Roomy => AllFresh'
    <3>1. PeakCap < MaxInMemory => ~Roomy
      BY <1>6, AllowanceBound DEF Roomy
    <3> QED BY <1>3, <2>3, <3>1
  <2>7. BudgetInv'
    BY <2>1, <2>4 DEF BudgetInv, Between, Passing
  <2>8. CapInv'
    BY <2>1 DEF CapInv, Between
  <2>9. ErrorInv'
    <3>1. Roomy' => Roomy
      BY DEF Roomy, MaxInMemory
    <3> QED BY <1>3, <2>1, <2>5, <2>6, <3>1 DEF ErrorInv, Passing
  <2> QED BY <2>7, <2>8, <2>9 DEF LimitsInv
<1>8. CASE ~OverCap /\ pc' = "scan"
  <2>1. HasCap => Retained' <= PeakCap
    BY <1>3, <1>6, <1>8 DEF OverCap
  <2>2. Within'
    BY <1>3, <1>4, <1>5 DEF Within
  <2>3. BudgetInv'
    BY <1>8, <2>2 DEF BudgetInv, Between, Passing
  <2>4. CapInv'
    BY <1>8, <2>1 DEF CapInv, Between
  <2>5. ErrorInv'
    BY <1>3, <1>8 DEF ErrorInv, Passing
  <2> QED BY <2>3, <2>4, <2>5 DEF LimitsInv
<1> QED BY <1>7, <1>8 DEF CheckCap

(* An idle step inside an eviction pass. *)
LEMMA StillPassing ==
    ASSUME PlacesInv, Counted, LimitsInv, Idle, Passing, Passing',
           UNCHANGED <<victims, target, pass>>
    PROVE  LimitsInv'
<1>1. /\ PinnedNow' = PinnedNow /\ \A b \in PinnedNow : Fresh(b)' <=> Fresh(b)
  BY IdleFacts
<1>2. /\ AllFresh' <=> AllFresh
      /\ error # "limit" /\ error' = error
  BY IdleFacts
<1>3. pc' \notin {"scan", "cap", "capped", "sparse", "base"} /\ ~Between'
  BY DEF Passing, Between
<1>4. \A b \in PinnedNow : InQueue(b) => InQueue(b)'
  BY DEF InQueue
<1>5. BudgetInv'
  <2>1. \A b \in PinnedNow' : Fresh(b)' \/ InQueue(b)'
    BY <1>1, <1>4 DEF LimitsInv, BudgetInv
  <2>2. AllFresh' \/ target' <= LowMark'
    BY <1>2 DEF LimitsInv, BudgetInv, LowMark, LowWater, MaxInMemory
  <2> QED BY <1>3, <2>1, <2>2 DEF BudgetInv
<1>6. CapInv'
  BY <1>3 DEF CapInv
<1>7. ErrorInv'
  <2>1. pass' = "cap" => target' <= PeakCap
    BY DEF LimitsInv, ErrorInv
  <2>2. pass' = "cap" /\ Roomy' => AllFresh' /\ \A b \in PinnedNow' : InQueue(b)'
    <3>1. Roomy' => Roomy
      BY DEF Roomy, MaxInMemory
    <3> QED BY <1>1, <1>2, <1>4, <3>1 DEF LimitsInv, ErrorInv
  <2> QED BY <1>2, <1>3, <2>1, <2>2 DEF ErrorInv
<1> QED BY <1>5, <1>6, <1>7 DEF LimitsInv

(* An idle step between two operations; opening the disk tier is one. *)
LEMMA StillBetween ==
    ASSUME PlacesInv, Counted, LimitsInv, Idle, Between, Between',
           disk'.live = disk.live \/ OverBudget
    PROVE  LimitsInv'
<1>1. /\ AllFresh' <=> AllFresh
      /\ Retained \in Nat /\ Retained' = Retained
      /\ error # "limit" /\ error' = error
  BY IdleFacts
<1>2. pc' \notin {"cap", "capped", "sparse", "base"} /\ ~Passing'
  BY DEF Passing, Between
<1>3. Within'
  <2>1. Within
    BY DEF LimitsInv, BudgetInv
  <2>2. LowMark' = LowMark
    BY DEF LowMark, LowWater, MaxInMemory
  <2>3. CASE disk'.live = disk.live
    <3>1. Allowance' = Allowance
      BY <2>3 DEF Allowance, MaxInMemory
    <3> QED BY <1>1, <2>1, <2>2, <3>1 DEF Within
  <2>4. CASE OverBudget
    <3>1. ~(Retained < Allowance)
      BY <1>1, <2>4, AllowanceBound DEF OverBudget
    <3> QED BY <1>1, <2>1, <2>2, <3>1 DEF Within
  <2> QED BY <2>3, <2>4
<1>4. HasCap => Retained' <= PeakCap
  BY <1>1 DEF LimitsInv, CapInv
<1>5. BudgetInv'
  BY <1>2, <1>3 DEF BudgetInv
<1>6. CapInv'
  BY <1>2, <1>4 DEF CapInv
<1>7. ErrorInv'
  BY <1>1, <1>2 DEF ErrorInv
<1> QED BY <1>5, <1>6, <1>7 DEF LimitsInv

(* A step to where no limit is claimed. *)
LEMMA Unclaimed ==
    ASSUME ~Between', ~Passing', pc' \notin {"cap", "capped", "sparse", "base"},
           error' # "limit"
    PROVE  LimitsInv'
BY DEF LimitsInv, BudgetInv, CapInv, ErrorInv

(* The steps of a spill and of a flush. *)
LEMMA FlushLimits ==
    ASSUME PlacesInv, Counted, LimitsInv,
           SpillPut \/ SpillDone \/ FlushGroup \/ FlushDone
    PROVE  LimitsInv'
<1>1. /\ UNCHANGED <<mem, pinned, owned, error, victims, target, pass>>
      /\ heap' = heap \/ Drop(heap)
      /\ Undrained
  BY DEF SpillPut, SpillDone, FlushGroup, FlushDone, bytesVars, readVars,
         evictVars, Undrained
<1>2. Idle
  BY <1>1, DropIdle
<1>3. error # "limit" /\ error' = error
  BY <1>2, IdleFacts
<1>4. CASE SpillPut \/ SpillDone
  <2>1. Passing /\ Passing'
    BY <1>4 DEF SpillPut, SpillDone, FlushWhenFull, Passing
  <2> QED BY <1>1, <1>2, <2>1, StillPassing
<1>5. CASE FlushGroup
  <2>1. pc = "flush" /\ pc' = pc /\ after' = after
    BY <1>5 DEF FlushGroup
  <2>2. disk'.live = disk.live
    BY <1>5 DEF FlushGroup, PlacesInv, PlacesType, IsDisk, IsDiskRecord
  <2>3. CASE after = "scan"
    BY <1>2, <2>1, <2>2, <2>3, StillBetween DEF Between
  <2>4. CASE after \in {"spill", "evict"}
    BY <1>1, <1>2, <2>1, <2>4, StillPassing DEF Passing
  <2>5. CASE after \notin {"scan", "spill", "evict"}
    BY <1>3, <2>1, <2>5, Unclaimed DEF Between, Passing
  <2> QED BY <2>3, <2>4, <2>5
<1>6. CASE FlushDone
  <2>1. pc = "flush" /\ pc' = after /\ after' = after /\ disk' = disk
    BY <1>6 DEF FlushDone
  <2>2. after \in {"scan", "spill", "evict", "drain"}
    BY <2>1 DEF PlacesInv, Phases
  <2>3. CASE after = "scan"
    BY <1>2, <2>1, <2>3, StillBetween DEF Between
  <2>4. CASE after \in {"spill", "evict"}
    BY <1>1, <1>2, <2>1, <2>4, StillPassing DEF Passing
  <2>5. CASE after = "drain"
    BY <1>3, <2>1, <2>5, Unclaimed DEF Between, Passing
  <2> QED BY <2>2, <2>3, <2>4, <2>5
<1> QED BY <1>4, <1>5, <1>6

(* A pass ends at its target, or with nothing left to visit. *)
LEMMA EvictionDoneLimits ==
    ASSUME PlacesInv, Counted, PassTyped, LimitsInv, EvictionDone
    PROVE  LimitsInv'
<1>1. /\ pc = "evict" /\ ~Evicting /\ pass' = pass
      /\ pc' = IF pass = "soft" THEN "cap" ELSE "capped"
      /\ UNCHANGED <<mem, pinned, owned, error, disk>> /\ Drop(heap) /\ Undrained
  BY DEF EvictionDone, readVars, Undrained
<1>2. Idle
  BY <1>1, DropIdle
<1>3. /\ AllFresh' <=> AllFresh
      /\ Retained \in Nat /\ Retained' = Retained /\ PinnedNow' = PinnedNow
      /\ error # "limit" /\ error' = error
  BY <1>2, IdleFacts
<1>4. ~Between' /\ ~Passing' /\ pc' \notin {"sparse", "base"} /\ Passing
  BY <1>1 DEF Between, Passing
<1>5. /\ \A b \in PinnedNow : Fresh(b) \/ InQueue(b)
      /\ AllFresh \/ target <= LowMark
  BY <1>4 DEF LimitsInv, BudgetInv
<1>6. victims = << >> => \A b : ~InQueue(b)
  BY DEF InQueue
<1>7. victims # << >> => Retained <= target
  BY <1>1, <1>3 DEF Evicting, PassTyped
<1>8. Within'
  <2>1. CASE AllFresh
    BY <1>3, <2>1 DEF Within
  <2>2. CASE victims = << >>
    <3>1. AllFresh
      BY <1>5, <1>6, <2>2 DEF AllFresh, Fresh
    <3> QED BY <2>1, <3>1
  <2>3. CASE victims # << >> /\ ~AllFresh
    <3>1. target <= LowMark /\ Retained <= target
      BY <1>5, <1>7, <2>3
    <3>2. LowMark' = LowMark
      BY DEF LowMark, LowWater, MaxInMemory
    <3>3. Retained' <= LowMark'
      BY <1>3, <3>1, <3>2, AllowanceBound DEF PassTyped
    <3> QED BY <3>3 DEF Within
  <2> QED BY <2>1, <2>2, <2>3
<1>9. BudgetInv' /\ CapInv'
  BY <1>4, <1>8 DEF BudgetInv, CapInv
<1>10. pc' = "capped" /\ Roomy => Retained' <= PeakCap \/ PinnedNow' = {}
  <2> SUFFICES ASSUME pc' = "capped", Roomy
               PROVE  Retained' <= PeakCap \/ PinnedNow' = {}
    OBVIOUS
  <2>1. pass = "cap"
    BY <1>1 DEF PassTyped
  <2>2. target <= PeakCap /\ \A b \in PinnedNow : InQueue(b)
    BY <1>4, <2>1 DEF LimitsInv, ErrorInv
  <2>3. CASE victims = << >>
    BY <1>3, <1>6, <2>2, <2>3
  <2>4. CASE victims # << >>
    BY <1>3, <1>7, <2>2, <2>4, ConstantsAssumption DEF PassTyped
  <2> QED BY <2>3, <2>4
<1>11. ErrorInv'
  <2>1. Roomy' => Roomy
    BY DEF Roomy, MaxInMemory
  <2> QED BY <1>3, <1>4, <1>10, <2>1 DEF ErrorInv
<1> QED BY <1>9, <1>11 DEF LimitsInv

(* What is left of a scan, idle steps all. *)
LEMMA ScanIdleLimits ==
    ASSUME PlacesInv, Counted, LimitsInv,
           DecodeBatch \/ EndBatch \/ AcceptFootprint \/ StartDrain
    PROVE  LimitsInv'
<1>1. /\ UNCHANGED <<mem, pinned, owned, error>> /\ Undrained
      /\ disk' = disk
  BY DEF DecodeBatch, EndBatch, AcceptFootprint, StartDrain, bytesVars,
         readVars, Undrained
<1>2. Idle
  <2>1. CASE DecodeBatch
    <3>1. heap \in [Batches -> Seq(Row)]
      BY DEF PlacesInv, PlacesType
    <3>2. \A b \in PinnedNow : heap'[b] = heap[b]
      BY <2>1, <3>1 DEF DecodeBatch, PinnedNow, Held
    <3> QED BY <1>1, <3>2 DEF Idle
  <2>2. CASE ~DecodeBatch
    <3>1. heap' = heap \/ Drop(heap)
      BY <2>2 DEF EndBatch, AcceptFootprint, StartDrain
    <3> QED BY <1>1, <3>1, DropIdle
  <2> QED BY <2>1, <2>2
<1>3. /\ AllFresh' <=> AllFresh
      /\ Retained \in Nat /\ Retained' = Retained
      /\ error # "limit" /\ error' = error
  BY <1>2, IdleFacts
<1>4. CASE DecodeBatch \/ EndBatch
  <2>1. Between /\ Between'
    BY <1>4 DEF DecodeBatch, EndBatch, Between
  <2> QED BY <1>1, <1>2, <2>1, StillBetween
<1>5. CASE AcceptFootprint
  <2>1. pc = "capped" /\ pc' = "scan" /\ ~OverCap
    BY <1>5 DEF AcceptFootprint
  <2>2. HasCap => Retained' <= PeakCap
    BY <1>3, <2>1, ConstantsAssumption DEF OverCap
  <2>3. Within
    BY <2>1 DEF LimitsInv, BudgetInv
  <2>4. Allowance' = Allowance /\ LowMark' = LowMark
    BY <1>1 DEF Allowance, LowMark, LowWater, MaxInMemory
  <2>5. Within'
    BY <1>3, <2>3, <2>4 DEF Within
  <2>6. ~Passing' /\ pc' = "scan"
    BY <2>1 DEF Passing
  <2> QED BY <1>3, <2>2, <2>5, <2>6 DEF LimitsInv, BudgetInv, CapInv, ErrorInv
<1>6. CASE StartDrain
  <2>1. pc' = "done" \/ pc' = "drain" \/ (pc' = "flush" /\ after' = "drain")
    BY <1>6 DEF StartDrain
  <2>2. ~Between' /\ ~Passing' /\ pc' \notin {"cap", "capped", "sparse", "base"}
    BY <2>1 DEF Between, Passing
  <2> QED BY <1>3, <2>2, Unclaimed
<1> QED BY <1>4, <1>5, <1>6

(* Merging a row: what does not touch memory stays between two operations. *)
LEMMA MergeLimits ==
    ASSUME PlacesInv, Counted, LimitsInv, MergeRow \/ MergeDelete
    PROVE  LimitsInv'
<1>1. pc = "scan" /\ Undrained /\ Between /\ Drop(heap) /\ IsDisk(disk)
  BY DEF MergeRow, MergeDelete, Undrained, Between, PlacesInv, PlacesType
<1>2. \/ \E k \in Keys : KeepExisting(k)
      \/ \E k \in Keys : \E r : Store(k, r)
  BY DEF MergeRow, MergeDelete
<1>3. error # "limit"
  BY <1>1 DEF LimitsInv, ErrorInv
<1>4. ASSUME pc' = "soft", error' = error PROVE LimitsInv'
  BY <1>3, <1>4, Unclaimed DEF Between, Passing
<1>5. ASSUME NEW k \in Keys, KeepExisting(k) PROVE LimitsInv'
  <2>1. /\ UNCHANGED <<mem, pinned, owned, error>>
        /\ pc' = IF disk.live THEN "scan" ELSE "soft"
        /\ disk' = Probed(k)
    BY <1>5 DEF KeepExisting, bytesVars
  <2>2. disk'.live = disk.live
    BY <1>1, <2>1 DEF Probed, IsDisk, IsDiskRecord
  <2>3. Idle
    BY <1>1, <2>1, DropIdle
  <2> QED BY <1>1, <1>4, <2>1, <2>2, <2>3, StillBetween DEF Between
<1>6. ASSUME NEW k \in Keys, NEW r, Store(k, r) PROVE LimitsInv'
  <2>1. error' = error
    BY <1>6 DEF Store
  <2>2. CASE MergeInPlace(k, r) \/ InsertOver(k, r) \/ InsertInMemory(k, r)
    BY <1>4, <2>1, <2>2 DEF MergeInPlace, InsertOver, InsertInMemory
  <2>3. CASE InsertOnDisk(k, r) \/ InsertSpilled(k, r)
    <3>1. UNCHANGED <<mem, pinned, owned>> /\ FlushWhenFull("scan")
      BY <2>3 DEF InsertOnDisk, InsertSpilled, bytesVars
    <3>2. Between'
      BY <3>1 DEF FlushWhenFull, Between
    <3>3. Idle
      BY <1>1, <2>1, <3>1, DropIdle
    <3>4. disk'.live = disk.live \/ OverBudget
      <4>1. CASE InsertOnDisk(k, r)
        <5>1. disk' = PutInto(Probed(k), k, r)
          BY <4>1 DEF InsertOnDisk
        <5>2. IsDisk(Probed(k)) /\ Probed(k).live = disk.live
          BY <1>1, ProbedProps DEF Probed, IsDisk, IsDiskRecord
        <5>3. PutInto(Probed(k), k, r).live = Probed(k).live
          BY <5>2 DEF PutInto, IsDisk, IsDiskRecord
        <5> QED BY <5>1, <5>2, <5>3
      <4>2. CASE InsertSpilled(k, r)
        BY <4>2 DEF InsertSpilled
      <4> QED BY <2>3, <4>1, <4>2
    <3> QED BY <1>1, <3>2, <3>3, <3>4, StillBetween
  <2> QED BY <1>6, <2>2, <2>3 DEF Store
<1> QED BY <1>2, <1>5, <1>6

(* A batch that gets its survivors' rows to itself is fresh. *)
LEMMA CompactFacts ==
    ASSUME PlacesInv, NEW b \in Batches, InQueue(b), CompactBatch(b)
    PROVE  \E c \in Batches :
             /\ c # b /\ ~Held(c)
             /\ KeysOf(b)' = {} /\ KeysOf(c)' = KeysOf(b)
             /\ \A d \in Batches \ {b, c} : KeysOf(d)' = KeysOf(d)
             /\ \A d \in Batches \ {c} : Held(d)' => heap'[d] = heap[d]
             /\ KeysOf(b) # {} => Len(heap'[c]) = Cardinality(KeysOf(b))
<1> DEFINE K == KeysOf(b)
<1>1. PICK c \in {x \in Batches : ~Held(x)}, ks \in SetToSeqs(K) :
        CompactTo(b, c, ks)
  BY DEF CompactBatch
<1> DEFINE g == [heap EXCEPT ![c] = CompactRows(ks)]
<1>2. /\ mem' = [k \in DOMAIN mem |->
                   IF k \in K
                   THEN [mem[k] EXCEPT !.batch = c, !.row = PlaceIn(ks, k)]
                   ELSE mem[k]]
      /\ Drop(g)
  BY <1>1 DEF CompactTo
<1>3. Held(b) /\ c # b /\ c \in Batches /\ ~Held(c)
  BY <1>1 DEF Held, InQueue
<1>4. /\ IsFiniteSet(K) /\ K \subseteq DOMAIN mem
      /\ \A k \in K : mem[k] \in RefRec
  BY KeysOfProps
<1>5. \A k \in DOMAIN mem : k \in K <=> RefersTo(mem[k], b)
  BY DEF KeysOf
<1>6. KeysOf(c) = {}
  BY <1>3 DEF Held
<1> HIDE DEF K
<1>7. /\ DOMAIN mem' = DOMAIN mem /\ \A k \in DOMAIN mem \ K : mem'[k] = mem[k]
      /\ \A k \in K : mem'[k].kind = "ref" /\ mem'[k].batch = c
  BY <1>2, <1>4 DEF RefRec
<1>8. KeysOf(b)' = {}
  BY <1>3, <1>5, <1>7 DEF KeysOf, RefersTo
<1>9. KeysOf(c)' = K
  <2>1. \A k \in DOMAIN mem : ~RefersTo(mem[k], c)
    BY <1>6 DEF KeysOf
  <2> QED BY <1>4, <1>7, <2>1 DEF KeysOf, RefersTo
<1>10. ASSUME NEW d \in Batches \ {b, c} PROVE KeysOf(d)' = KeysOf(d)
  <2>1. \A k \in K : ~RefersTo(mem[k], d) /\ ~RefersTo(mem'[k], d)
    BY <1>4, <1>5, <1>7 DEF RefersTo
  <2> QED BY <1>4, <1>7, <2>1 DEF KeysOf
<1>11. heap \in [Batches -> Seq(Row)]
  BY DEF PlacesInv, PlacesType
<1>12. \A d \in Batches \ {c} : Held(d)' => heap'[d] = heap[d]
  BY <1>2, <1>11 DEF Drop
<1>13. K # {} => Len(heap'[c]) = Cardinality(K)
  <2>1. K # {} => Held(c)'
    BY <1>9 DEF Held
  <2>2. Held(c)' => heap'[c] = CompactRows(ks)
    BY <1>2, <1>3, <1>11 DEF Drop
  <2>3. ks \in Seq(K) /\ Len(ks) = Cardinality(K)
    BY <1>1, <1>4, PlaceInFinds
  <2>4. Len(CompactRows(ks)) = Len(ks)
    <3>1. DOMAIN ks = 1 .. Len(ks) /\ Len(ks) \in Nat
      BY <2>3
    <3>2. CompactRows(ks) = [i \in 1 .. Len(ks) |-> GetRecord(mem[ks[i]])]
      BY <3>1 DEF CompactRows
    <3> QED BY <3>1, <3>2
  <2> QED BY <2>1, <2>2, <2>3, <2>4
<1> QED BY <1>3, <1>8, <1>9, <1>10, <1>12, <1>13 DEF K

(* The head of the queue is queued, the rest stays so. *)
LEMMA QueueHead ==
    ASSUME Queued, victims # << >>, victims' = Tail(victims)
    PROVE  /\ Head(victims) \in Batches /\ InQueue(Head(victims))
           /\ \A d : InQueue(d) /\ d # Head(victims) => InQueue(d)'
           /\ \A d : InQueue(d)' => InQueue(d) /\ d \in Batches
           /\ \A i \in DOMAIN victims' :
                /\ i + 1 \in DOMAIN victims /\ victims'[i] = victims[i + 1]
                /\ i + 1 # 1
<1>1. /\ Len(victims) \in Nat /\ Len(victims) > 0
      /\ DOMAIN victims = 1 .. Len(victims)
      /\ \A i \in DOMAIN victims : victims[i] \in Batches
  BY DEF Queued
<1>2. /\ DOMAIN victims' = 1 .. Len(victims) - 1
      /\ \A i \in 1 .. Len(victims) - 1 : victims'[i] = victims[i + 1]
      /\ Head(victims) = victims[1]
  BY <1>1 DEF Queued
<1>3. ASSUME NEW d, InQueue(d), d # Head(victims) PROVE InQueue(d)'
  <2>1. PICK i \in 1 .. Len(victims) : victims[i] = d
    BY <1>1, <1>3 DEF InQueue
  <2>2. i - 1 \in 1 .. Len(victims) - 1 /\ (i - 1) + 1 = i
    BY <1>1, <1>2, <1>3, <2>1
  <2> QED BY <1>2, <2>1, <2>2 DEF InQueue
<1>4. \A i \in DOMAIN victims' : /\ i + 1 \in DOMAIN victims
                                 /\ victims'[i] = victims[i + 1]
                                 /\ i + 1 # 1
  BY <1>1, <1>2
<1>5. \A d : InQueue(d)' => InQueue(d) /\ d \in Batches
  BY <1>1, <1>4 DEF InQueue
<1>6. Head(victims) \in Batches /\ InQueue(Head(victims))
  BY <1>1, <1>2 DEF InQueue
<1> QED BY <1>3, <1>4, <1>5, <1>6

(* A pass that compacts a batch, or spills it. *)
LEMMA CompactLimits ==
    ASSUME PlacesInv, Counted, Queued, LimitsInv, CompactVictim
    PROVE  LimitsInv'
<1>0. /\ pc = "evict" /\ pc' = pc /\ victims # << >>
      /\ victims' = Tail(victims) /\ UNCHANGED <<target, pass, error>>
  BY DEF CompactVictim, Evicting, readVars
<1>1. PICK b \in Batches : b = Head(victims)
  BY <1>0, QueueHead
<1>2. /\ InQueue(b) /\ Sparse(b) /\ CompactBatch(b)
      /\ \A d : InQueue(d) /\ d # b => InQueue(d)'
  BY <1>0, <1>1, QueueHead DEF CompactVictim
<1>3. PICK c \in Batches :
        /\ c # b /\ ~Held(c)
        /\ KeysOf(b)' = {} /\ KeysOf(c)' = KeysOf(b)
        /\ \A d \in Batches \ {b, c} : KeysOf(d)' = KeysOf(d)
        /\ \A d \in Batches \ {c} : Held(d)' => heap'[d] = heap[d]
        /\ KeysOf(b) # {} => Len(heap'[c]) = Cardinality(KeysOf(b))
  BY <1>2, CompactFacts
<1>4. Passing /\ Passing' /\ ~Between' /\ pc' = "evict" /\ Undrained
  BY <1>0 DEF Passing, Between, Undrained
<1>5. ASSUME NEW d \in PinnedNow', d # c
      PROVE  d \in PinnedNow /\ d # b /\ (Fresh(d)' <=> Fresh(d))
  <2>1. d \in Batches /\ KeysOf(d)' # {} /\ d # b
    BY <1>3 DEF PinnedNow
  <2>2. KeysOf(d)' = KeysOf(d) /\ Held(d)'
    BY <1>3, <1>5, <2>1 DEF Held
  <2>3. heap'[d] = heap[d]
    BY <1>3, <1>5, <2>1, <2>2
  <2> QED BY <2>1, <2>2, <2>3 DEF PinnedNow, Fresh
<1>6. c \in PinnedNow' => Fresh(c)' /\ KeysOf(b) # {}
  BY <1>3 DEF PinnedNow, Fresh
<1>7. AllFresh => AllFresh'
  BY <1>5, <1>6 DEF AllFresh, Fresh
<1>8. BudgetInv'
  <2>1. \A d \in PinnedNow' : Fresh(d)' \/ InQueue(d)'
    BY <1>2, <1>4, <1>5, <1>6 DEF LimitsInv, BudgetInv
  <2>2. AllFresh' \/ target' <= LowMark'
    BY <1>0, <1>4, <1>7 DEF LimitsInv, BudgetInv, LowMark, LowWater, MaxInMemory
  <2> QED BY <1>4, <2>1, <2>2 DEF BudgetInv
<1>9. CapInv'
  BY <1>4 DEF CapInv
<1>10. error' # "limit"
  BY <1>0 DEF LimitsInv, ErrorInv
<1>11. AllFresh => c \notin PinnedNow'
  <2>1. ASSUME AllFresh, KeysOf(b) # {} PROVE FALSE
    <3>1. Cardinality(KeysOf(b)) = Len(heap[b])
      BY <2>1 DEF AllFresh, PinnedNow
    <3>2. Len(heap[b]) \in Nat
      BY DEF PlacesInv, PlacesType
    <3> QED BY <1>2, <3>1, <3>2 DEF Sparse
  <2> QED BY <1>6, <2>1
<1>12. ErrorInv'
  <2>1. pass' = "cap" => target' <= PeakCap
    BY <1>0, <1>4 DEF LimitsInv, ErrorInv
  <2>2. Roomy' => Roomy
    BY DEF Roomy, MaxInMemory
  <2>3. ASSUME pass' = "cap", Roomy
        PROVE  AllFresh' /\ \A d \in PinnedNow' : InQueue(d)'
    <3>1. AllFresh /\ \A d \in PinnedNow : InQueue(d)
      BY <1>0, <1>4, <2>3 DEF LimitsInv, ErrorInv
    <3> QED BY <1>2, <1>5, <1>7, <1>11, <3>1
  <2> QED BY <1>4, <1>10, <2>1, <2>2, <2>3 DEF ErrorInv
<1> QED BY <1>8, <1>9, <1>12 DEF LimitsInv

(* Spilling a batch takes it, and only it, out of the pinned ones. *)
LEMMA SpillLimits ==
    ASSUME PlacesInv, Counted, Queued, LimitsInv, SpillVictim
    PROVE  LimitsInv'
<1>0. /\ pc = "evict" /\ pc' = "spill" /\ victims # << >>
      /\ victims' = Tail(victims) /\ UNCHANGED <<target, pass, error>>
      /\ Drop(heap)
  BY DEF SpillVictim, Evicting, readVars
<1>1. PICK b \in Batches : b = Head(victims)
  BY <1>0, QueueHead
<1>2. /\ mem' = Without(mem, KeysOf(b))
      /\ \A d : InQueue(d) /\ d # b => InQueue(d)'
  BY <1>0, <1>1, QueueHead DEF SpillVictim
<1>3. /\ DOMAIN mem' = DOMAIN mem \ KeysOf(b)
      /\ \A k \in DOMAIN mem' : mem'[k] = mem[k]
  BY <1>2 DEF Without
<1>4. Passing /\ Passing' /\ ~Between' /\ pc' = "spill" /\ Undrained
  BY <1>0 DEF Passing, Between, Undrained
<1>5. ASSUME NEW d \in PinnedNow'
      PROVE  d \in PinnedNow /\ d # b /\ (Fresh(d)' <=> Fresh(d))
  <2>1. d \in Batches /\ KeysOf(d)' # {}
    BY DEF PinnedNow
  <2>2. d # b
    BY <1>3, <2>1 DEF KeysOf
  <2>3. \A k \in KeysOf(b) : ~RefersTo(mem[k], d)
    BY <2>2 DEF KeysOf, RefersTo
  <2>4. KeysOf(d)' = KeysOf(d)
    BY <1>3, <2>3 DEF KeysOf
  <2>5. Held(d)'
    BY <2>1 DEF Held
  <2>6. heap'[d] = heap[d]
    BY <1>0, <2>1, <2>5 DEF Drop
  <2> QED BY <2>1, <2>2, <2>4, <2>6 DEF PinnedNow, Fresh
<1>6. AllFresh => AllFresh'
  BY <1>5 DEF AllFresh, Fresh
<1>7. BudgetInv'
  <2>1. \A d \in PinnedNow' : Fresh(d)' \/ InQueue(d)'
    BY <1>2, <1>4, <1>5 DEF LimitsInv, BudgetInv
  <2>2. AllFresh' \/ target' <= LowMark'
    BY <1>0, <1>4, <1>6 DEF LimitsInv, BudgetInv, LowMark, LowWater, MaxInMemory
  <2> QED BY <1>4, <2>1, <2>2 DEF BudgetInv
<1>8. CapInv'
  BY <1>4 DEF CapInv
<1>9. error' # "limit"
  BY <1>0 DEF LimitsInv, ErrorInv
<1>10. ErrorInv'
  <2>1. pass' = "cap" => target' <= PeakCap
    BY <1>0, <1>4 DEF LimitsInv, ErrorInv
  <2>2. Roomy' => Roomy
    BY DEF Roomy, MaxInMemory
  <2>3. ASSUME pass' = "cap", Roomy
        PROVE  AllFresh' /\ \A d \in PinnedNow' : InQueue(d)'
    <3>1. AllFresh /\ \A d \in PinnedNow : InQueue(d)
      BY <1>0, <1>4, <2>3 DEF LimitsInv, ErrorInv
    <3> QED BY <1>2, <1>5, <1>6, <3>1
  <2> QED BY <1>4, <1>9, <2>1, <2>2, <2>3 DEF ErrorInv
<1> QED BY <1>7, <1>8, <1>10 DEF LimitsInv

(* Compacting a batch that has at least as many rows as survivors. *)
LEMMA CompactShrinks ==
    ASSUME NEW m, IsMap(m, BufferedRecord), NEW h \in [Batches -> Seq(Row)],
           NEW p, PinsExact(p, m, h),
           NEW b \in Batches, NEW c \in Batches, b # c, RefKeys(m, c) = {},
           NEW n \in Nat, n = Cardinality(RefKeys(m, b)), n <= Len(h[b]),
           NEW rows, Len(rows) = n
    PROVE  AddRefs(RemoveRefs(p, b, n), c, n, rows).total <= p.total
<1> DEFINE q == RemoveRefs(p, b, n)
           w == AddRefs(q, c, n, rows)
           s == BatchBytes(rows)
           t == BatchBytes(h[b])
<1>1. /\ p \in PinCounters /\ p.refs[b] = n /\ p.refs[c] = 0 /\ p.total \in Nat
      /\ n > 0 => p.bytes[b] = t
      /\ p.total = SumOver(Sizes(h), Pins(m))
  <2>1. Cardinality(RefKeys(m, c)) = 0
    BY FS_EmptySet
  <2> QED BY <2>1 DEF PinsExact, PinCounters
<1>2. RowBytes \in Nat /\ Len(h[b]) \in Nat
  BY ConstantsAssumption
<1>3. s \in Nat /\ t \in Nat /\ s <= t /\ (n = 0 => s = 0)
  <2>1. \A x, y, z \in Nat : x <= y => z * x <= z * y
    OBVIOUS
  <2>2. \A x, y \in Nat : x * y \in Nat /\ (y = 0 => x * y = 0)
    OBVIOUS
  <2> QED BY <1>2, <2>1, <2>2 DEF BatchBytes
<1> HIDE DEF s, t
<1>4. /\ q \in PinCounters /\ q.refs[c] = 0
      /\ n > 0 => q.total = Monus(p.total, t)
      /\ n = 0 => q.total = p.total
  <2>1. /\ q \in PinCounters
        /\ \A d \in Batches \ {b} : q.refs[d] = p.refs[d]
        /\ 0 < p.refs[b] /\ p.refs[b] <= n => q.total = Monus(p.total, p.bytes[b])
        /\ p.refs[b] = 0 => q.total = p.total
    <3>1. p \in PinCounters
      BY <1>1
    <3> QED BY ONLY <3>1, RemoveRefsFields, b \in Batches, n \in Nat
  <2> HIDE DEF q
  <2> QED BY <1>1, <2>1
<1>5. q.total \in Nat
  BY <1>4 DEF PinCounters
<1> HIDE DEF q
<1>6. w.total = q.total + s
  <2>1. BatchBytes(rows) \in Nat
    BY <1>3 DEF s
  <2>2. q.refs[c] = 0 =>
          AddRefs(q, c, n, rows).total = q.total + BatchBytes(rows)
    BY <1>4, <2>1, AddRefsFields
  <2> QED BY <1>4, <2>2 DEF s
<1>7. n > 0 => t <= p.total
  <2> SUFFICES ASSUME n > 0 PROVE t <= p.total
    OBVIOUS
  <2>1. RefKeys(m, b) # {}
    BY RefKeysFinite
  <2> DEFINE f == Sizes(h)
             S == Pins(m)
  <2>2. f \in [Batches -> Nat] /\ S \in SUBSET Batches /\ b \in S
        /\ S \ {b} \in SUBSET Batches /\ f[b] = t
    BY <2>1, SizesType DEF Pins, t
  <2>3. p.total = SumOver(f, S)
    BY <1>1
  <2> HIDE DEF f, S
  <2>4. /\ SumOver(f, S) = f[b] + SumOver(f, S \ {b})
        /\ SumOver(f, S \ {b}) \in Nat
    BY <2>2, BatchSums, Zenon
  <2> QED BY <1>3, <2>2, <2>3, <2>4
<1> HIDE DEF w
<1>8. w.total <= p.total
  BY <1>1, <1>3, <1>4, <1>5, <1>6, <1>7 DEF Monus
<1> QED BY <1>8 DEF w, q

(* The end of the scan: only what is sparse is queued, each batch once. *)
LEMMA EndScanLimits ==
    ASSUME PlacesInv, Counted, LimitsInv, EndScan \/ SparseDone
    PROVE  LimitsInv'
<1>1. /\ UNCHANGED <<mem, pinned, owned, error, heap>> /\ Undrained
      /\ pc \in {"scan", "sparse"}
      /\ pc' = IF pc = "scan" THEN "sparse" ELSE "base"
  BY DEF EndScan, SparseDone, bytesVars, readVars, Undrained
<1>2. Idle
  BY <1>1, DropIdle
<1>3. Retained' = Retained /\ error' # "limit"
  BY <1>2, IdleFacts
<1>4. ~Between' /\ ~Passing' /\ pc' \in {"sparse", "base"}
  BY <1>1 DEF Between, Passing
<1>5. HasCap => Retained' <= PeakCap
  BY <1>1, <1>3 DEF LimitsInv, CapInv, Between
<1>6. ASSUME pc' = "sparse"
      PROVE  /\ \A i, j \in DOMAIN victims' : victims'[i] = victims'[j] => i = j
             /\ \A b \in Batches : InQueue(b)' => Sparse(b)'
  <2> DEFINE S == {b \in PinnedNow : Sparse(b)}
  <2>1. EndScan
    BY <1>1, <1>6 DEF EndScan, SparseDone
  <2>2. PICK o \in SetToSeqs(S) : victims' = o
    BY <2>1 DEF EndScan
  <2>3. IsFiniteSet(S)
    <3>1. S \subseteq Batches
      BY DEF PinnedNow
    <3> QED BY <3>1, FS_Subset, ConstantsAssumption
  <2>4. \A b \in S : Sparse(b)'
    BY <1>1 DEF Sparse, KeysOf
  <2> HIDE DEF S
  <2>5. o \in Seq(S) /\ \A i, j \in DOMAIN o : o[i] = o[j] => i = j
    BY <2>2, <2>3, PlaceInFinds
  <2>6. \A i \in DOMAIN o : o[i] \in S
    BY <2>5
  <2>7. \A i \in DOMAIN victims' : victims'[i] \in S
    BY <2>2, <2>6
  <2> QED BY <2>2, <2>4, <2>5, <2>7 DEF InQueue
<1>7. BudgetInv'
  BY <1>4 DEF BudgetInv
<1>8. CapInv'
  BY <1>4, <1>5, <1>6 DEF CapInv
<1>9. ErrorInv'
  BY <1>3, <1>4 DEF ErrorInv
<1> QED BY <1>7, <1>8, <1>9 DEF LimitsInv

(* The end-of-scan compaction never adds to the footprint. *)
LEMMA CompactSparseLimits ==
    ASSUME PlacesInv, PlacesInv', Counted, Counted', Queued, LimitsInv, CompactSparse
    PROVE  LimitsInv'
<1>0. /\ pc = "sparse" /\ pc' = pc /\ victims # << >>
      /\ victims' = Tail(victims) /\ UNCHANGED <<owned, error>>
  BY DEF CompactSparse, readVars
<1>1. PICK b \in Batches : b = Head(victims)
  BY <1>0, QueueHead
<1>2. /\ InQueue(b) /\ CompactBatch(b) /\ b = victims[1] /\ 1 \in DOMAIN victims
      /\ \A d : InQueue(d)' => d \in Batches
      /\ \A i \in DOMAIN victims' :
           i + 1 \in DOMAIN victims /\ victims'[i] = victims[i + 1] /\ i + 1 # 1
  <2>1. b = victims[1] /\ 1 \in DOMAIN victims
    BY <1>0, <1>1 DEF Queued
  <2> QED BY <1>0, <1>1, <2>1, QueueHead DEF CompactSparse
<1>3. /\ \A i, j \in DOMAIN victims : victims[i] = victims[j] => i = j
      /\ \A d \in Batches : InQueue(d) => Sparse(d)
      /\ HasCap => Retained <= PeakCap
  BY <1>0 DEF LimitsInv, CapInv
<1>4. PICK c \in Batches :
        /\ c # b /\ ~Held(c)
        /\ \A d \in Batches \ {b, c} : KeysOf(d)' = KeysOf(d)
        /\ \A d \in Batches \ {c} : Held(d)' => heap'[d] = heap[d]
  BY <1>2, CompactFacts
<1>5. ASSUME NEW d \in Batches, InQueue(d)'
      PROVE  Sparse(d)'
  <2>1. PICK i \in DOMAIN victims' : victims'[i] = d
    BY <1>5 DEF InQueue
  <2>2. i + 1 \in DOMAIN victims /\ d = victims[i + 1] /\ i + 1 # 1
    BY <1>2, <2>1
  <2>3. d # b /\ InQueue(d) /\ Sparse(d)
    BY <1>2, <1>3, <2>2 DEF InQueue
  <2>4. d # c
    BY <1>4, <2>3 DEF Held, InQueue
  <2>5. Held(d)'
    BY <1>5 DEF Held, InQueue
  <2>6. KeysOf(d)' = KeysOf(d) /\ heap'[d] = heap[d]
    BY <1>4, <2>3, <2>4, <2>5
  <2> QED BY <2>3, <2>6 DEF Sparse
<1>6. ASSUME NEW i \in DOMAIN victims', NEW j \in DOMAIN victims',
             victims'[i] = victims'[j]
      PROVE  i = j
  <2>1. /\ i + 1 \in DOMAIN victims /\ victims'[i] = victims[i + 1]
        /\ j + 1 \in DOMAIN victims /\ victims'[j] = victims[j + 1]
    BY <1>2
  <2>2. i + 1 = j + 1
    BY <1>3, <1>6, <2>1
  <2>3. i \in Nat /\ j \in Nat
    <3>1. victims' \in Seq(Batches)
      BY <1>0 DEF Queued
    <3> QED BY <3>1
  <2> QED BY <2>2, <2>3
<1>7. Retained' <= Retained
  <2>1. PICK x \in {y \in Batches : ~Held(y)}, ks \in SetToSeqs(KeysOf(b)) :
          CompactTo(b, x, ks)
    BY <1>2 DEF CompactBatch
  <2>2. pinned' = AddRefs(RemoveRefs(pinned, b, Len(ks)), x, Len(ks), CompactRows(ks))
    BY <2>1 DEF CompactTo
  <2>3. IsMap(mem, BufferedRecord) /\ heap \in [Batches -> Seq(Row)]
        /\ IsMap(mem', BufferedRecord)
    BY DEF PlacesInv, PlacesType
  <2>4. Undrained /\ Undrained'
    BY <1>0 DEF Undrained
  <2>5. Counts(pinned, owned, mem, heap) /\ Counts(pinned', owned', mem', heap')
    BY <2>4 DEF Counted, Counts
  <2>6. Held(b) /\ x # b /\ x \in Batches /\ RefKeys(mem, x) = {}
    BY <1>2, <2>1 DEF Held, InQueue, KeysOf, RefKeys
  <2>7. KeysOf(b) = RefKeys(mem, b) /\ IsFiniteSet(KeysOf(b))
    BY KeysOfProps DEF KeysOf, RefKeys
  <2>8. /\ Len(ks) = Cardinality(RefKeys(mem, b)) /\ Len(ks) \in Nat
        /\ DOMAIN ks = 1 .. Len(ks)
    BY <2>1, <2>7, PlaceInFinds
  <2>9. Len(CompactRows(ks)) = Len(ks)
    <3>1. CompactRows(ks) = [i \in 1 .. Len(ks) |-> GetRecord(mem[ks[i]])]
      BY <2>8 DEF CompactRows
    <3> QED BY <2>8, <3>1
  <2>10. Len(ks) <= Len(heap[b])
    <3>1. 2 * Len(ks) < Len(heap[b]) /\ Len(heap[b]) \in Nat
      BY <1>2, <1>3, <2>3, <2>7, <2>8 DEF Sparse
    <3> QED BY <2>8, <3>1
  <2>11. PinsExact(pinned, mem, heap)
    BY <2>5 DEF Counts
  <2>12. pinned'.total <= pinned.total
    BY <2>2, <2>3, <2>6, <2>8, <2>9, <2>10, <2>11, CompactShrinks
  <2>13. /\ pinned.total \in Nat /\ owned \in Nat
         /\ pinned'.total \in Nat /\ owned' \in Nat
    BY <2>3, <2>5, RetainedType
  <2> QED BY <1>0, <2>12, <2>13 DEF Retained
<1>8. HasCap => Retained' <= PeakCap
  <2>1. Undrained /\ Undrained' /\ PeakCap \in Nat
    BY <1>0, ConstantsAssumption DEF Undrained
  <2>2. Counts(pinned, owned, mem, heap) /\ Counts(pinned', owned', mem', heap')
    BY <2>1 DEF Counted, Counts
  <2>3. IsMap(mem, BufferedRecord) /\ IsMap(mem', BufferedRecord)
    BY DEF PlacesInv, PlacesType
  <2>4. Retained \in Nat /\ Retained' \in Nat
    BY <2>2, <2>3, RetainedType DEF Retained
  <2> QED BY <1>3, <1>7, <2>1, <2>4
<1>9. ~Between' /\ ~Passing' /\ pc' = "sparse" /\ error' # "limit"
  BY <1>0 DEF Between, Passing, LimitsInv, ErrorInv
<1>10. BudgetInv'
  BY <1>9 DEF BudgetInv
<1>11. CapInv'
  BY <1>5, <1>6, <1>8, <1>9 DEF CapInv
<1>12. ErrorInv'
  BY <1>9 DEF ErrorInv
<1> QED BY <1>10, <1>11, <1>12 DEF LimitsInv

(* A base row that takes its record leaves a smaller footprint. *)
LEMMA RemoveLimits ==
    ASSUME PlacesInv, PlacesInv', Counted, LimitsInv, RemoveMatched
    PROVE  LimitsInv'
<1>1. /\ pc = "base" /\ pc' = "base" /\ error' = error /\ Drop(heap) /\ Undrained
  BY DEF RemoveMatched, Undrained
<1>2. PICK k \in Keys : RemoveInMemory(k) \/ RemoveOnDisk(k)
  BY DEF RemoveMatched
<1>3. Counts(pinned, owned, mem, heap)
  BY <1>1 DEF Counted, Counts
<1>4. IsMap(mem, BufferedRecord) /\ heap \in [Batches -> Seq(Row)]
      /\ IsMap(mem', BufferedRecord)
  BY DEF PlacesInv, PlacesType
<1>5. pinned.total \in Nat /\ owned \in Nat
  BY <1>3, <1>4, RetainedType
<1>6. Retained \in Nat /\ Retained' \in Nat /\ Retained' <= Retained
  <2>1. CASE RemoveOnDisk(k)
    BY <1>5, <2>1 DEF RemoveOnDisk, Retained
  <2>2. CASE RemoveInMemory(k)
    <3>1. /\ k \in DOMAIN mem /\ pinned' = Unpinning(pinned, mem[k])
          /\ owned' = Monus(owned, EntryCharge(mem[k]))
          /\ mem' = Without(mem, {k})
      BY <2>2 DEF RemoveInMemory
    <3>2. /\ Counts(pinned', owned', mem', heap)
          /\ pinned'.total <= pinned.total /\ owned' <= owned
      BY <1>3, <1>4, <3>1, CountRemove
    <3>3. pinned'.total \in Nat /\ owned' \in Nat
      BY <1>4, <3>2, RetainedType
    <3> QED BY <1>5, <3>2, <3>3 DEF Retained
  <2> QED BY <1>2, <2>1, <2>2
<1>7. HasCap => Retained' <= PeakCap
  <2>1. HasCap => Retained <= PeakCap
    BY <1>1 DEF LimitsInv, CapInv
  <2> QED BY <1>6, <2>1, ConstantsAssumption
<1>8. ~Between' /\ ~Passing' /\ pc' = "base" /\ error' # "limit"
  BY <1>1 DEF Between, Passing, LimitsInv, ErrorInv
<1>9. BudgetInv'
  BY <1>8 DEF BudgetInv
<1>10. CapInv'
  BY <1>7, <1>8 DEF CapInv
<1>11. ErrorInv'
  BY <1>8 DEF ErrorInv
<1> QED BY <1>9, <1>10, <1>11 DEF LimitsInv

(* With nothing pinned the footprint is what the entries hold themselves. *)
LEMMA RejectLimits ==
    ASSUME PlacesInv, Counted, LimitsInv, RejectFootprint
    PROVE  LimitsInv'
<1>1. /\ pc = "capped" /\ OverCap /\ pc' = "failed" /\ error' = "limit"
      /\ mem' = mem
  BY DEF RejectFootprint, FailRead
<1>2. /\ IsMap(mem, BufferedRecord) /\ heap \in [Batches -> Seq(Row)]
      /\ Counts(pinned, owned, mem, heap)
  BY <1>1 DEF PlacesInv, PlacesType, Counted, Counts, Undrained
<1>3. pinned.total \in Nat /\ owned \in Nat /\ PeakCap \in Nat
  BY <1>2, RetainedType, ConstantsAssumption
<1>4. ASSUME Roomy PROVE SumOver(Charges(mem), OwnedKeys) > PeakCap
  <2>1. Retained > PeakCap /\ ~(Retained <= PeakCap)
    BY <1>1, <1>3 DEF OverCap, Retained
  <2>2. PinnedNow = {}
    BY <1>1, <1>4, <2>1 DEF LimitsInv, ErrorInv
  <2>3. Pins(mem) = {}
    BY <2>2 DEF Pins, RefKeys, PinnedNow, KeysOf
  <2>4. pinned.total = 0
    <3>1. SumOver(Sizes(heap), {}) = 0
      BY <1>2, SizesType, SumProps
    <3> QED BY <1>2, <2>3, <3>1 DEF Counts, PinsExact
  <2>5. OwnedKeys = DOMAIN mem
    <3>1. ASSUME NEW k \in DOMAIN mem PROVE mem[k].kind # "ref"
      <4>1. mem[k] \in BufferedRecord
        BY <1>2 DEF IsMap
      <4>2. CASE mem[k] \in RefRec
        <5>1. mem[k].batch \in Batches /\ mem[k].kind = "ref"
          BY <4>2 DEF RefRec
        <5>2. mem[k].batch \in PinnedNow
          BY <5>1 DEF PinnedNow, KeysOf, RefersTo
        <5> QED BY <2>2, <5>2
      <4>3. CASE mem[k] \in OwnedRec \cup DeleteRec
        BY <4>3 DEF OwnedRec, DeleteRec
      <4> QED BY <4>1, <4>2, <4>3 DEF BufferedRecord
    <3> QED BY <3>1 DEF OwnedKeys
  <2>6. owned = SumOver(Charges(mem), OwnedKeys)
    BY <1>2, <2>5 DEF Counts, OwnedExact
  <2> QED BY <1>3, <2>1, <2>4, <2>6 DEF Retained
<1>5. Charges(mem)' = Charges(mem) /\ OwnedKeys' = OwnedKeys
  BY <1>1 DEF Charges, OwnedKeys, EntryCharge, OwnedPayloadBytes
<1>6. SumOver(Charges(mem), OwnedKeys)' = SumOver(Charges(mem), OwnedKeys)
  BY <1>5
<1>7. Roomy' => Roomy
  BY DEF Roomy, MaxInMemory
<1>8. ~Between' /\ ~Passing' /\ pc' = "failed"
  BY <1>1 DEF Between, Passing
<1>9. BudgetInv' /\ CapInv'
  BY <1>8 DEF BudgetInv, CapInv
<1>10. ErrorInv'
  BY <1>4, <1>6, <1>7, <1>8 DEF ErrorInv
<1> QED BY <1>9, <1>10 DEF LimitsInv

(* A step that ends the scan, or the read, with nothing left to claim. *)
LEMMA EndLimits ==
    ASSUME PlacesInv, LimitsInv,
           \/ LookupFails \/ InsertFails \/ SpillFails \/ FlushFails
           \/ DrainFails \/ LastFlushFails \/ YieldInMemory \/ YieldOnDisk
           \/ DrainDone
    PROVE  LimitsInv'
<1>1. pc # "failed" /\ pc' \in {"failed", "drain", "done"}
      /\ (error' = "disk" \/ error' = error)
  BY DEF LookupFails, InsertFails, SpillFails, FlushFails, DrainFails,
         LastFlushFails, YieldInMemory, YieldOnDisk, DrainDone, Evicting,
         FailRead, readVars
<1>2. error' # "limit"
  BY <1>1 DEF LimitsInv, ErrorInv
<1>3. ~Between' /\ ~Passing' /\ pc' \notin {"cap", "capped", "sparse", "base"}
  BY <1>1 DEF Between, Passing
<1> QED BY <1>2, <1>3, Unclaimed

(* Nothing has been read yet. *)
LEMMA LimitsInit == Init => LimitsInv /\ PassTyped
<1> SUFFICES ASSUME Init PROVE LimitsInv /\ PassTyped
  OBVIOUS
<1>1. /\ pc = "scan" /\ error = "none" /\ DOMAIN mem = {} /\ Retained = 0
      /\ target \in Nat /\ pass = "soft"
  BY DEF Init, NoEntries, Retained
<1>2. PinnedNow = {}
  BY <1>1 DEF PinnedNow, KeysOf
<1>3. AllFresh
  BY <1>2 DEF AllFresh
<1>4. ~Passing /\ PeakCap \in Nat
  BY <1>1, ConstantsAssumption DEF Passing
<1>5. BudgetInv
  BY <1>3, <1>4 DEF BudgetInv, Within
<1>6. CapInv
  BY <1>1, <1>4 DEF CapInv
<1>7. ErrorInv
  BY <1>1, <1>4 DEF ErrorInv
<1> QED BY <1>1, <1>5, <1>6, <1>7 DEF LimitsInv, PassTyped

(* A step that changes nothing. *)
LEMMA StillLimits ==
    ASSUME LimitsInv, UNCHANGED vars
    PROVE  LimitsInv'
<1>1. UNCHANGED <<mem, disk, pinned, owned, heap, pc, after, pass, target,
                  victims, error>>
  BY DEF vars, bytesVars, evictVars, readVars
<1>2. /\ Retained' = Retained /\ Allowance' = Allowance /\ LowMark' = LowMark
      /\ (Roomy' <=> Roomy)
  BY <1>1 DEF Retained, Allowance, LowMark, LowWater, MaxInMemory, Roomy
<1>3. /\ \A b : KeysOf(b)' = KeysOf(b)
      /\ \A b : InQueue(b)' <=> InQueue(b)
  BY <1>1 DEF KeysOf, InQueue
<1>4. /\ PinnedNow' = PinnedNow /\ \A b : Fresh(b)' <=> Fresh(b)
      /\ \A b : Sparse(b)' <=> Sparse(b)
  BY <1>1, <1>3 DEF PinnedNow, Fresh, Sparse
<1>5. AllFresh' <=> AllFresh
  BY <1>1, <1>3, <1>4 DEF AllFresh
<1>6. /\ Between' <=> Between
      /\ Passing' <=> Passing
  BY <1>1 DEF Between, Passing
<1>7. BudgetInv'
  BY <1>1, <1>2, <1>3, <1>4, <1>5, <1>6 DEF LimitsInv, BudgetInv, Within
<1>8. CapInv'
  BY <1>1, <1>2, <1>3, <1>4, <1>6 DEF LimitsInv, CapInv
<1>9. SumOver(Charges(mem), OwnedKeys)' = SumOver(Charges(mem), OwnedKeys)
  <2>1. Charges(mem)' = Charges(mem) /\ OwnedKeys' = OwnedKeys
    BY <1>1 DEF Charges, OwnedKeys, EntryCharge, OwnedPayloadBytes
  <2> QED BY <2>1
<1>10. ErrorInv'
  BY <1>1, <1>2, <1>3, <1>4, <1>5, <1>6, <1>9 DEF LimitsInv, ErrorInv
<1> QED BY <1>7, <1>8, <1>10 DEF LimitsInv

(* Every step keeps the limits' invariant. *)
LEMMA LimitsStep ==
    /\ PlacesInv /\ PlacesInv' /\ Counted /\ Counted' /\ Queued /\ PassTyped
    /\ LimitsInv /\ [Next]_vars
    => LimitsInv'
<1> SUFFICES ASSUME PlacesInv, PlacesInv', Counted, Counted', Queued, PassTyped,
                    LimitsInv, [Next]_vars
             PROVE  LimitsInv'
  OBVIOUS
<1>1. CASE Scan
  BY <1>1, ScanIdleLimits, MergeLimits DEF Scan
<1>2. CASE LookupFails \/ InsertFails
  BY <1>2, EndLimits
<1>3. CASE EnforceLimits
  BY <1>3, CheckBudgetLimits, CheckCapLimits, ScanIdleLimits, RejectLimits,
     CompactLimits, SpillLimits, EndLimits, FlushLimits, EvictionDoneLimits
  DEF EnforceLimits
<1>4. CASE Flush
  BY <1>4, FlushLimits, EndLimits DEF Flush
<1>5. CASE CompactSparseBatches
  BY <1>5, EndScanLimits, CompactSparseLimits DEF CompactSparseBatches
<1>6. CASE RemoveMatched
  BY <1>6, RemoveLimits
<1>7. CASE Drain
  BY <1>7, ScanIdleLimits, EndLimits DEF Drain
<1>8. CASE Over \/ UNCHANGED vars
  BY <1>8, StillLimits DEF Over
<1> QED BY <1>1, <1>2, <1>3, <1>4, <1>5, <1>6, <1>7, <1>8 DEF Next

(* What the invariant says between two operations, and of the cap's error. *)
LEMMA LimitsExact ==
    PlacesInv /\ Counted /\ LimitsInv => LimitsKept /\ CapErrorIrreducible
<1> SUFFICES ASSUME PlacesInv, Counted, LimitsInv
             PROVE  LimitsKept /\ CapErrorIrreducible
  OBVIOUS
<1>1. IsMap(mem, BufferedRecord)
  BY DEF PlacesInv, PlacesType
<1>2. ASSUME pc = "scan", Retained >= Allowance, Retained > LowWater(MaxInMemory)
      PROVE  AllFresh
  <2>1. Counts(pinned, owned, mem, heap)
    BY <1>2 DEF Counted, Counts, Undrained
  <2>2. Retained \in Nat
    BY <1>1, <2>1, RetainedType DEF Retained
  <2>3. Within
    BY <1>2 DEF LimitsInv, BudgetInv, Between
  <2>4. /\ Allowance \in Nat /\ LowMark \in Nat
        /\ Retained >= Allowance /\ Retained > LowMark
    BY <1>2, AllowanceBound DEF LowMark
  <2>5. ~(Retained < Allowance) /\ ~(Retained <= LowMark)
    BY <2>2, <2>4
  <2> QED BY <2>3, <2>5 DEF Within
<1>3. ASSUME pc \in {"scan", "base"}, HasCap PROVE Retained <= PeakCap
  BY <1>3 DEF LimitsInv, CapInv, Between
<1>4. LimitsKept
  BY <1>2, <1>3 DEF LimitsKept
<1>5. MapThenSumSet(LAMBDA k : EntryCharge(mem[k]), OwnedKeys)
        = SumOver(Charges(mem), OwnedKeys)
  <2>1. OwnedKeys \in SUBSET DOMAIN mem
    BY DEF OwnedKeys
  <2> QED BY <1>1, <2>1, ChargesSum
<1>6. CapErrorIrreducible
  <2>1. error = "limit" /\ MaxInMemory <= PeakCap =>
          SumOver(Charges(mem), OwnedKeys) > PeakCap
    BY DEF LimitsInv, ErrorInv, Roomy
  <2> QED BY <1>5, <2>1 DEF CapErrorIrreducible, OwnedKeys
<1> QED BY <1>4, <1>6

(***************************************************************************)
(* enforce_memory_limits keeps its promise: between two operations the     *)
(* in-memory tier is under its allowance or the low-water mark of the      *)
(* budget, or evict_source_batches_until has left only batches without a   *)
(* dead row; and enforce_peak_cap lets no operation return, and no base    *)
(* row be taken, above the hard cap.                                       *)
(***************************************************************************)
THEOREM LimitsTheorem == Spec => []LimitsKept
BY LimitsInit, LimitsStep, PassTypedStep, LimitsExact, CountedInit, CountedStep,
   QueuedStep, PlacesTheorem, PTL DEF Spec

(***************************************************************************)
(* When enforce_peak_cap gives up with a footprint that "cannot be reduced *)
(* by spilling", nothing that could be spilled is left to blame: with a    *)
(* cap no smaller than the soft budget, the entries that own their bytes   *)
(* exceed the cap by themselves.                                           *)
(***************************************************************************)
THEOREM CapErrorTheorem == Spec => []CapErrorIrreducible
BY LimitsInit, LimitsStep, PassTypedStep, LimitsExact, CountedInit, CountedStep,
   QueuedStep, PlacesTheorem, PTL DEF Spec
=============================================================================
