------------------------ MODULE TableListing_proofs ------------------------
(***************************************************************************)
(* Theorems about the files a snapshot read merges, for any number of      *)
(* instants and any order in which writers, table services and the reader  *)
(* take their steps.                                                       *)
(***************************************************************************)
EXTENDS TableListing, FiniteLemmas

-----------------------------------------------------------------------------
(* What the writers keep true of the timeline and of storage. *)

Instant == [kind : {"none", "insert", "write", "compact", "rollback", "clean"},
            state : {"none", "open", "logged", "failed", "completed",
                     "archived", "gone"},
            done : Nat, over : SUBSET Times]

BaseFiles == OfKind({"insert", "compact"})
LogFiles == OfKind({"write"})
Files == OfKind(Commits)
RolledOff == InState({"failed", "gone"})

(* A later slice has all that is in the file. *)
Superfluous(f) ==
    IF IsBase(f) THEN f < cleaned ELSE f \in Committed /\ instants[f].done < cleaned

TypeInv ==
    /\ now \in 0 .. MaxTime /\ cleaned \in Nat
    /\ instants \in [Times -> Instant]
    /\ bases \in SUBSET Times /\ logs \in SUBSET Times

(* Requests and completions take their times from one clock. *)
ClockInv ==
    /\ \A t \in Times : instants[t].kind = "none" <=> instants[t].state = "none"
    /\ \A t \in Times : instants[t].kind # "none" => t <= now
    /\ \A t \in Files \cap Committed : instants[t].done \in t + 1 .. now
    /\ \A t, u \in Files \cap Committed :
         instants[t].done = instants[u].done => t = u
    /\ RolledOff \subseteq LogFiles

(* What an instant speaks of. *)
OverInv ==
    /\ \A t \in OfKind({"insert"}) : t = 1 /\ instants[t].over = {1}
    /\ \A i \in OfKind({"insert"}), t \in Files :
         t = i \/ (i \in Committed /\ instants[i].done < t)
    /\ \A c \in OfKind({"compact"}) :
         instants[c].over = {w \in Writes \cap Committed : instants[w].done < c}
    /\ \A r \in OfKind({"rollback"}) : instants[r].over \subseteq RolledOff
    /\ \A x \in OfKind({"clean"}) : \A f \in instants[x].over :
         f \in Files \cap Committed /\ Superfluous(f)

(* Only what was rolled back, or a later slice has, is missing on storage. *)
FilesInv ==
    /\ bases \subseteq BaseFiles /\ logs \subseteq LogFiles \ RolledOff
    /\ \A b \in BaseFiles : b \in bases \/ b < cleaned
    /\ \A l \in LogFiles \ RolledOff : l \in logs \/ Superfluous(l)
    /\ cleaned # 0 => cleaned \in bases \cap Committed \cap OfKind({"compact"})

(* The archive lies below the active timeline, and a completed commit lies *)
(* below every pending compaction.                                         *)
ArchiveInv ==
    /\ \A a \in InState({"archived"}), u \in Completed \cup Pending : a < u
    /\ Committed \cap Files # {} => Completed \cap Files # {}
    /\ \A c \in Pending \cap OfKind({"compact"}) : \E u \in Completed \cap Files : u < c

WritersInv == TypeInv /\ ClockInv /\ OverInv /\ FilesInv /\ ArchiveInv

-----------------------------------------------------------------------------
(* What the metadata table says of the files. *)

Record == UNION {[D -> BOOLEAN] : D \in SUBSET Times}
Metadata == [base : Record, blocks : Seq([at : Times, files : Record])]

Live(r, f) == f \in DOMAIN r /\ ~r[f]
Tomb(r, f) == f \in DOMAIN r /\ r[f]

(* A block adds the file of its instant, or removes what that speaks of. *)
BlocksFit(m) ==
    \A i \in DOMAIN m.blocks :
        LET t == m.blocks[i].at
            r == m.blocks[i].files
        IN  /\ instants[t].kind # "none"
            /\ \A f \in Times : Live(r, f) <=> f = t /\ t \in Files
            /\ t \in OfKind({"rollback"}) => \A f \in instants[t].over : Tomb(r, f)

LiveFit(m) == \A f \in Times : Live(m.base, f) => f \in Files \cap Committed

TombsFit(m) ==
    \A f \in Times :
        Tomb(m.base, f) \/ (\E i \in DOMAIN m.blocks : Tomb(m.blocks[i].files, f))
            => f \in RolledOff \/ (f \in Files \cap Committed /\ Superfluous(f))

Entered(m, t) == Live(m.base, t) \/ \E i \in DOMAIN m.blocks : m.blocks[i].at = t

(* The entry of a rolled back write is followed by its tombstone. *)
Buried(m, t) ==
    \A i \in DOMAIN m.blocks : m.blocks[i].at = t =>
        \E j \in DOMAIN m.blocks :
            i < j /\ Tomb(m.blocks[j].files, t) /\ m.blocks[j].at \in Committed

MetadataInv ==
    /\ mdt \in Metadata
    /\ \A i \in DOMAIN mdt.blocks : mdt.blocks[i].at \notin InState({"none", "open"})
    /\ BlocksFit(mdt) /\ LiveFit(mdt) /\ TombsFit(mdt)
    /\ \A t \in Files \cap InState({"logged", "completed", "archived"}) :
         Superfluous(t) \/ Entered(mdt, t)
    /\ \A t \in InState({"logged"}) :
         \E i \in DOMAIN mdt.blocks : mdt.blocks[i].at = t
    /\ \A i, j \in DOMAIN mdt.blocks :
         mdt.blocks[j].at \in OfKind({"rollback"})
           /\ mdt.blocks[i].at \in instants[mdt.blocks[j].at].over => i < j
    /\ \A t \in InState({"gone"}) : Buried(mdt, t)

-----------------------------------------------------------------------------
(* What the reader knows. *)

Reader == [pc : {"closed", "open", "mdt", "pending", "listed"},
           completed : SUBSET Times, boundary : Nat, asOf : Nat,
           seen : SUBSET Times, mdt : Metadata \cup {<< >>},
           pending : SUBSET Times, viaMdt : BOOLEAN,
           bases : SUBSET Times, logs : SUBSET Times]

(* The timeline as it was loaded: what was committed then is told from     *)
(* what was not, and is what a compaction committed then speaks of.        *)
LoadedInv ==
    /\ reader.completed \subseteq reader.seen \cap Files
    /\ reader.completed # {}
    /\ reader.seen \subseteq Committed
    /\ reader.boundary <= now
    /\ \A t \in reader.seen \cap Files :
         t \in reader.completed \/ (t < reader.boundary
                                    /\ \A u \in reader.completed : t < u)
    /\ \A t \in Files \ reader.seen :
         t >= reader.boundary \/ instants[t].state = "gone"
    /\ \A c \in reader.seen \cap OfKind({"compact"}) :
         instants[c].over \subseteq reader.seen
    /\ cleaned <= reader.asOf /\ (cleaned # 0 => cleaned \in reader.seen)

(* The copy of the metadata table it keeps. *)
CopyInv ==
    /\ reader.mdt \in Metadata
    /\ BlocksFit(reader.mdt) /\ LiveFit(reader.mdt) /\ TombsFit(reader.mdt)
    /\ \A t \in reader.seen \cap Files : Superfluous(t) \/ Entered(reader.mdt, t)
    /\ \A t \in Files \ reader.seen : t < reader.boundary => Buried(reader.mdt, t)

(* No committed block is taken for pending. *)
PendingInv ==
    /\ reader.pending \cap reader.seen = {}
    /\ \A t \in Files \ reader.seen : t < reader.boundary =>
         \A i \in DOMAIN reader.mdt.blocks : reader.mdt.blocks[i].at = t =>
             \E j \in DOMAIN reader.mdt.blocks :
                 /\ i < j /\ Tomb(reader.mdt.blocks[j].files, t)
                 /\ reader.mdt.blocks[j].at \notin reader.pending

(* Files of what was committed, all that any slice still to read has. *)
Enough(bs, ls) ==
    /\ bs \subseteq reader.seen \cap BaseFiles
    /\ ls \subseteq reader.seen \cap LogFiles
    /\ \A f \in reader.seen \cap Files : Superfluous(f) \/ f \in bs \cup ls

ReaderInv ==
    /\ reader \in Reader
    /\ reader.pc # "closed" => LoadedInv
    /\ reader.pc \in {"mdt", "pending"} \/ (reader.pc = "listed" /\ reader.viaMdt)
         => CopyInv
    /\ reader.pc = "pending" => PendingInv
    /\ reader.pc = "listed" => Enough(reader.bases, reader.logs)

IndInv == WritersInv /\ MetadataInv /\ ReaderInv

-----------------------------------------------------------------------------
(* The records of the metadata table. *)

LEMMA EmptyRecord == << >> \in Record
<1>1. << >> = [f \in {} |-> TRUE]
  OBVIOUS
<1> QED BY <1>1 DEF Record

LEMMA FoldRecordsProps ==
    ASSUME NEW older \in Record, NEW newer \in Record, NEW r,
           r = FoldRecords(older, newer)
    PROVE  /\ r \in Record
           /\ \A f \in Times :
                /\ Live(r, f) <=> \/ Live(newer, f)
                                  \/ f \notin DOMAIN newer /\ Live(older, f)
                /\ Tomb(r, f) => Tomb(newer, f) \/ Tomb(older, f)
<1>1. PICK D \in SUBSET Times, E \in SUBSET Times :
        older \in [D -> BOOLEAN] /\ newer \in [E -> BOOLEAN]
  BY DEF Record
<1>2. PICK c : c = {f \in E : newer[f] /\ f \in D /\ ~older[f]}
  OBVIOUS
<1>3. r = [f \in (D \cup E) \ c |-> IF f \in E THEN newer[f] ELSE older[f]]
  BY <1>1, <1>2 DEF FoldRecords
<1>4. r \in [(D \cup E) \ c -> BOOLEAN] /\ (D \cup E) \ c \in SUBSET Times
  BY <1>1, <1>3
<1>5. r \in Record
  BY <1>4 DEF Record
<1>6. ASSUME NEW f \in Times
      PROVE  /\ Live(r, f) <=> Live(newer, f) \/ (f \notin DOMAIN newer /\ Live(older, f))
             /\ Tomb(r, f) => Tomb(newer, f) \/ Tomb(older, f)
  BY <1>1, <1>2, <1>3 DEF Live, Tomb
<1> QED BY <1>5, <1>6

LEMMA SequenceElements ==
    ASSUME NEW S, NEW q \in Seq(S)
    PROVE  \A i \in DOMAIN q : q[i] \in S
OBVIOUS

LEMMA BlockProps ==
    ASSUME NEW m \in Metadata
    PROVE  /\ m.base \in Record
           /\ Len(m.blocks) \in Nat /\ DOMAIN m.blocks = 1 .. Len(m.blocks)
           /\ \A i \in DOMAIN m.blocks :
                m.blocks[i].at \in Times /\ m.blocks[i].files \in Record
<1>1. PICK S : S = [at : Times, files : Record]
  OBVIOUS
<1>2. m.base \in Record /\ m.blocks \in Seq(S)
  BY <1>1 DEF Metadata
<1>3. \A i \in DOMAIN m.blocks : m.blocks[i] \in S
  BY <1>2, SequenceElements
<1> QED BY <1>1, <1>2, <1>3

(* The last of some positions. *)
LEMMA LastPosition ==
    ASSUME NEW m \in Metadata, NEW s \in SUBSET DOMAIN m.blocks, s # {}
    PROVE  Max(s) \in s /\ \A i \in s : i <= Max(s)
<1>1. PICK n \in Nat : n = Len(m.blocks) /\ DOMAIN m.blocks = 1 .. n
  BY DEF Metadata
<1> QED BY <1>1, MaxProps

(* The log record is the fold over the positions, the last one folded last. *)
LEMMA LogRecordFold ==
    ASSUME NEW m \in Metadata, NEW ps \in SUBSET DOMAIN m.blocks
    PROVE  \E g \in [SUBSET ps -> Record] :
             /\ LogRecord(m, ps) = g[ps]
             /\ g[{}] = << >>
             /\ \A s \in SUBSET ps : s # {} =>
                  g[s] = FoldRecords(g[s \ {Max(s)}], m.blocks[Max(s)].files)
<1> DEFINE IsIter(g) == g = [s \in SUBSET ps |->
             IF s = {} THEN << >>
             ELSE FoldRecords(g[s \ {Max(s)}], m.blocks[Max(s)].files)]
           it == CHOOSE g : IsIter(g)
<1>1. LogRecord(m, ps) = it[ps]
  BY DEF LogRecord, MapThenFoldSet
<1>2. IsFiniteSet(ps)
  <2>1. PICK n \in Nat : DOMAIN m.blocks = 1 .. n
    BY DEF Metadata
  <2> QED BY <2>1, FS_Interval, FS_Subset
<1>3. \A i \in ps : m.blocks[i].files \in Record
  BY BlockProps
<1>4. \A s \in SUBSET ps : s # {} => Max(s) \in s
  BY LastPosition
<1>5. PICK step : step = [z \in ps \X Record |-> FoldRecords(z[2], m.blocks[z[1]].files)]
  OBVIOUS
<1>6. step \in [ps \X Record -> Record]
  <2>1. \A z \in ps \X Record : FoldRecords(z[2], m.blocks[z[1]].files) \in Record
    BY <1>3, FoldRecordsProps
  <2> QED BY <1>5, <2>1
<1>7. PICK pick : pick = [s \in SUBSET ps |-> Max(s)]
  OBVIOUS
<1>8. PICK h \in [SUBSET ps -> Record] : IsFold(step, << >>, pick, ps, h)
  <2>1. \A s \in SUBSET ps : s # {} => pick[s] \in s
    BY <1>4, <1>7
  <2> QED BY <1>2, <1>6, <2>1, EmptyRecord, FoldTyped
<1>9. ASSUME NEW s \in SUBSET ps, s # {}
      PROVE  h[s] = FoldRecords(h[s \ {Max(s)}], m.blocks[Max(s)].files)
  <2>1. PICK p : p = Max(s)
    OBVIOUS
  <2>2. p \in ps /\ s \ {p} \in SUBSET ps /\ pick[s] = p
    BY <1>4, <1>7, <1>9, <2>1
  <2>3. h[s] = step[<<p, h[s \ {p}]>>]
    BY <1>8, <1>9, <2>2 DEF IsFold
  <2>4. <<p, h[s \ {p}]>> \in ps \X Record
    BY <2>2
  <2>5. step[<<p, h[s \ {p}]>>] = FoldRecords(h[s \ {p}], m.blocks[p].files)
    BY <1>5, <2>4
  <2> QED BY <2>1, <2>3, <2>5
<1>10. h[{}] = << >>
  <2>1. {} \in SUBSET ps
    OBVIOUS
  <2> QED BY <1>8, <2>1 DEF IsFold
<1>11. IsIter(h)
  <2>1. \A s \in SUBSET ps : h[s] =
          IF s = {} THEN << >> ELSE FoldRecords(h[s \ {Max(s)}], m.blocks[Max(s)].files)
    BY <1>9, <1>10
  <2>2. h = [s \in SUBSET ps |-> h[s]]
    OBVIOUS
  <2> QED BY <2>1, <2>2
<1>12. IsIter(it)
  BY <1>11
<1> HIDE DEF it
<1>13. /\ it[{}] = << >>
       /\ \A s \in SUBSET ps : s # {} =>
            it[s] = FoldRecords(it[s \ {Max(s)}], m.blocks[Max(s)].files)
  <2>1. {} \in SUBSET ps
    OBVIOUS
  <2> QED BY <1>12, <2>1
<1>14. it \in [SUBSET ps -> Record]
  <2> DEFINE B == {s \in SUBSET ps : it[s] \notin Record}
  <2>1. SUFFICES ASSUME B # {} PROVE FALSE
    <3>1. it = [s \in SUBSET ps |-> it[s]]
      BY <1>12
    <3> QED BY <3>1
  <2>2. PICK s \in B : \A u \in B : u \subseteq s => u = s
    <3>1. B \in SUBSET (SUBSET ps)
      OBVIOUS
    <3> HIDE DEF B
    <3> QED BY <1>2, <2>1, <3>1, MinimalSubset
  <2>3. s # {}
    BY <1>13, EmptyRecord
  <2>4. PICK p : p = Max(s)
    OBVIOUS
  <2>5. p \in s /\ s \ {p} \in SUBSET ps /\ s \ {p} \notin B
    BY <1>4, <2>2, <2>3, <2>4
  <2>6. it[s \ {p}] \in Record /\ m.blocks[p].files \in Record
    BY <1>3, <2>5
  <2>7. PICK a, b : a = it[s \ {p}] /\ b = m.blocks[p].files
    OBVIOUS
  <2>8. FoldRecords(a, b) \in Record
    BY <2>6, <2>7, FoldRecordsProps
  <2>9. it[s] = FoldRecords(a, b)
    BY <1>13, <2>3, <2>4, <2>7
  <2> QED BY <2>8, <2>9
<1> QED BY <1>1, <1>13, <1>14

(* What the log record says of a file. *)
LEMMA LogRecordProps ==
    ASSUME NEW m \in Metadata, NEW ps \in SUBSET DOMAIN m.blocks, NEW f \in Times,
           NEW r, r = LogRecord(m, ps)
    PROVE  /\ r \in Record
           /\ Live(r, f) => \E i \in ps : /\ Live(m.blocks[i].files, f)
                                         /\ \A j \in ps : i < j => ~Tomb(m.blocks[j].files, f)
           /\ Tomb(r, f) => \E i \in ps : Tomb(m.blocks[i].files, f)
           /\ (/\ \A i \in ps : ~Tomb(m.blocks[i].files, f)
               /\ \E i \in ps : Live(m.blocks[i].files, f)) => Live(r, f)
<1>1. PICK g \in [SUBSET ps -> Record] :
             /\ LogRecord(m, ps) = g[ps]
             /\ g[{}] = << >>
             /\ \A s \in SUBSET ps : s # {} =>
                  g[s] = FoldRecords(g[s \ {Max(s)}], m.blocks[Max(s)].files)
  BY LogRecordFold
<1> DEFINE F(i) == m.blocks[i].files
           Lives(s) == Live(g[s], f) => \E i \in s : /\ Live(F(i), f)
                                                    /\ \A j \in s : i < j => ~Tomb(F(j), f)
           Tombs(s) == Tomb(g[s], f) => \E i \in s : Tomb(F(i), f)
           Kept(s) == (/\ \A i \in s : ~Tomb(F(i), f)
                       /\ \E i \in s : Live(F(i), f)) => Live(g[s], f)
           B == {s \in SUBSET ps : ~(Lives(s) /\ Tombs(s) /\ Kept(s))}
<1>2. SUFFICES ASSUME B # {} PROVE FALSE
  <2>1. ps \in SUBSET ps
    OBVIOUS
  <2> QED BY <1>1, <2>1
<1>3. PICK s \in B : \A u \in B : u \subseteq s => u = s
  <2>1. B \in SUBSET (SUBSET ps)
    OBVIOUS
  <2>2. PICK n \in Nat : DOMAIN m.blocks = 1 .. n
    BY BlockProps
  <2>3. IsFiniteSet(ps)
    BY <2>2, FS_Interval, FS_Subset
  <2> HIDE DEF B
  <2> QED BY <1>2, <2>1, <2>3, MinimalSubset
<1>4. s \in SUBSET ps /\ ~(Lives(s) /\ Tombs(s) /\ Kept(s))
  OBVIOUS
<1>5. s # {}
  <2>1. g[{}] = << >> /\ DOMAIN << >> = {}
    BY <1>1
  <2>2. ~Live(g[{}], f) /\ ~Tomb(g[{}], f)
    BY <2>1 DEF Live, Tomb
  <2> QED BY <1>4, <2>2
<1>6. PICK p : p = Max(s)
  OBVIOUS
<1>7. p \in s /\ p \in ps /\ \A i \in s : i <= p
  BY <1>4, <1>5, <1>6, LastPosition
<1>8. PICK u : u = s \ {p}
  OBVIOUS
<1>9. u \in SUBSET ps /\ u \notin B
  BY <1>3, <1>7, <1>8
<1>10. Lives(u) /\ Tombs(u) /\ Kept(u)
  BY <1>9
<1>11. PICK a, b, c : a = g[u] /\ b = F(p) /\ c = g[s]
  OBVIOUS
<1>11a. a \in Record /\ b \in Record /\ c = FoldRecords(a, b)
  BY <1>1, <1>4, <1>5, <1>6, <1>7, <1>8, <1>9, <1>11, BlockProps
<1>12. /\ Live(c, f) <=> Live(b, f) \/ (f \notin DOMAIN b /\ Live(a, f))
       /\ Tomb(c, f) => Tomb(b, f) \/ Tomb(a, f)
  BY <1>11a, FoldRecordsProps
<1>13. \A i \in s : i \in Int
  BY <1>4, BlockProps
<1> HIDE DEF F, B
<1>14. Lives(s)
  <2> SUFFICES ASSUME Live(c, f)
               PROVE  \E i \in s : /\ Live(F(i), f)
                                  /\ \A j \in s : i < j => ~Tomb(F(j), f)
    BY <1>11
  <2>1. CASE Live(b, f)
    BY <1>7, <1>11, <1>13, <2>1
  <2>2. CASE f \notin DOMAIN b /\ Live(a, f)
    <3>1. PICK i \in u : Live(F(i), f) /\ \A j \in u : i < j => ~Tomb(F(j), f)
      BY <1>10, <1>11, <2>2
    <3>2. ~Tomb(F(p), f)
      BY <1>11, <2>2 DEF Tomb
    <3> QED BY <1>8, <3>1, <3>2
  <2> QED BY <1>12, <2>1, <2>2
<1>15. Tombs(s)
  BY <1>7, <1>8, <1>10, <1>11, <1>12
<1>16. Kept(s)
  <2> SUFFICES ASSUME \A i \in s : ~Tomb(F(i), f), \E i \in s : Live(F(i), f)
               PROVE  Live(c, f)
    BY <1>11
  <2>1. CASE Live(F(p), f)
    BY <1>11, <1>12, <2>1
  <2>2. CASE ~Live(F(p), f)
    <3>1. f \notin DOMAIN b
      BY <1>7, <1>11, <2>2 DEF Live, Tomb
    <3>2. Live(a, f)
      BY <1>8, <1>10, <1>11, <2>2
    <3> QED BY <1>12, <3>1, <3>2
  <2> QED BY <2>1, <2>2
<1> QED BY <1>4, <1>14, <1>15, <1>16

(* And together with the base file. *)
LEMMA MergedRecordProps ==
    ASSUME NEW m \in Metadata, NEW ps \in SUBSET DOMAIN m.blocks,
           NEW r, r = MergedRecord(m, ps)
    PROVE  /\ r \in Record
           /\ \A f \in Times :
                /\ Live(r, f) =>
                     \/ Live(m.base, f)
                     \/ \E i \in ps : /\ Live(m.blocks[i].files, f)
                                     /\ \A j \in ps : i < j => ~Tomb(m.blocks[j].files, f)
                /\ Tomb(r, f) =>
                     Tomb(m.base, f) \/ \E i \in ps : Tomb(m.blocks[i].files, f)
                /\ (/\ \A i \in ps : ~Tomb(m.blocks[i].files, f)
                    /\ Live(m.base, f) \/ \E i \in ps : Live(m.blocks[i].files, f))
                     => Live(r, f)
<1>1. PICK a, b : a = m.base /\ b = LogRecord(m, ps)
  OBVIOUS
<1>2. a \in Record /\ r = FoldRecords(a, b)
  BY <1>1, BlockProps DEF MergedRecord
<1>3. b \in Record
  <2>1. 1 \in Times
    BY TableListingAssumption DEF Times
  <2> QED BY <1>1, <2>1, LogRecordProps
<1>4. r \in Record
  BY <1>2, <1>3, FoldRecordsProps
<1>5. ASSUME NEW f \in Times
      PROVE  /\ Live(r, f) =>
                  \/ Live(a, f)
                  \/ \E i \in ps : /\ Live(m.blocks[i].files, f)
                                  /\ \A j \in ps : i < j => ~Tomb(m.blocks[j].files, f)
             /\ Tomb(r, f) =>
                  Tomb(a, f) \/ \E i \in ps : Tomb(m.blocks[i].files, f)
             /\ (/\ \A i \in ps : ~Tomb(m.blocks[i].files, f)
                 /\ Live(a, f) \/ \E i \in ps : Live(m.blocks[i].files, f))
                  => Live(r, f)
  <2>1. /\ Live(r, f) <=> Live(b, f) \/ (f \notin DOMAIN b /\ Live(a, f))
        /\ Tomb(r, f) => Tomb(b, f) \/ Tomb(a, f)
    BY <1>2, <1>3, FoldRecordsProps
  <2>2. /\ Live(b, f) => \E i \in ps : /\ Live(m.blocks[i].files, f)
                                        /\ \A j \in ps : i < j => ~Tomb(m.blocks[j].files, f)
        /\ Tomb(b, f) => \E i \in ps : Tomb(m.blocks[i].files, f)
        /\ (/\ \A i \in ps : ~Tomb(m.blocks[i].files, f)
            /\ \E i \in ps : Live(m.blocks[i].files, f)) => Live(b, f)
    BY <1>1, LogRecordProps
  <2>3. ASSUME \A i \in ps : ~Tomb(m.blocks[i].files, f), Live(a, f)
        PROVE  Live(r, f)
    <3>1. ~Tomb(b, f)
      BY <2>2, <2>3
    <3> QED BY <2>1, <2>3, <3>1 DEF Live, Tomb
  <2> QED BY <2>1, <2>2, <2>3
<1> QED BY <1>1, <1>4, <1>5

-----------------------------------------------------------------------------
(* The file group that is put together from listed files. *)

Slices == [base : BOOLEAN, key : Times, logs : SUBSET Times]
Groups == UNION {[K -> Slices] : K \in SUBSET Times}

(* Completion times as a reader may know them: later than the request, and *)
(* no two the same.                                                        *)
KnownFor(comp, ls) ==
    /\ comp \in [Times -> Nat] /\ ls \in SUBSET Times
    /\ \A l \in ls : comp[l] # NoTime => l < comp[l]
    /\ \A l, k \in ls : comp[l] # NoTime /\ comp[l] = comp[k] => l = k

(* Log files older than every base file, and those of the slice of a base file. *)
Orphans(comp, bs, ls) == {l \in ls : \A b \in bs : ~(b <= CurrentWhen(comp, l))}

SliceLogs(comp, bs, ls, b) ==
    {l \in ls : /\ b <= CurrentWhen(comp, l)
                /\ \A c \in bs : b < c => ~(c <= CurrentWhen(comp, l))}

LEMMA MaxOfTimes ==
    ASSUME NEW S \in SUBSET Times, S # {}
    PROVE  Max(S) \in S /\ \A t \in S : t <= Max(S)
BY TableListingAssumption, MaxProps DEF Times

(* There is a last log file in the order of LogFile::cmp. *)
LEMMA LastLogProps ==
    ASSUME NEW comp, NEW ls, KnownFor(comp, ls), ls # {}
    PROVE  LastLog(comp, ls) \in ls
           /\ \A m \in ls \ {LastLog(comp, ls)} : LogBefore(comp, m, LastLog(comp, ls))
<1>1. SUFFICES \E l \in ls : \A m \in ls \ {l} : LogBefore(comp, m, l)
  BY DEF LastLog
<1>2. PICK u : u = {l \in ls : comp[l] = NoTime}
  OBVIOUS
<1>3. CASE u # {}
  <2>1. u \in SUBSET Times
    BY <1>2 DEF KnownFor
  <2>2. PICK l \in u : \A m \in u : m <= l
    BY <1>3, <2>1, MaxOfTimes
  <2>3. \A m \in ls \ {l} : LogBefore(comp, m, l)
    BY <1>2, <2>1, <2>2, TableListingAssumption DEF LogBefore, Times
  <2> QED BY <1>2, <2>3
<1>4. CASE u = {}
  <2>1. PICK f : f = [l \in ls |-> comp[l]]
    OBVIOUS
  <2>2. f \in [ls -> Nat] /\ IsFiniteSet(ls)
    <3>1. IsFiniteSet(Times)
      BY TableListingAssumption, FS_Interval DEF Times
    <3> QED BY <2>1, <3>1, FS_Subset DEF KnownFor
  <2>3. PICK l \in ls : \A m \in ls : f[m] <= f[l]
    BY <2>2, GreatestValue
  <2>4. \A m \in ls \ {l} : LogBefore(comp, m, l)
    BY <1>2, <1>4, <2>1, <2>2, <2>3 DEF LogBefore, KnownFor
  <2> QED BY <2>4
<1> QED BY <1>3, <1>4

WithLog(s, l) == [base |-> s.base, key |-> s.key, logs |-> s.logs \cup {l}]

(* r is g with a log file in the slice of the last of the keys in J, or in *)
(* a slice of its own.                                                     *)
Takes(g, J, l, r) ==
    /\ J # {} =>
         /\ Max(J) \in J /\ (\A k \in J : k <= Max(J)) /\ DOMAIN r = DOMAIN g
         /\ \A k \in DOMAIN g : r[k] = IF k = Max(J) THEN WithLog(g[k], l) ELSE g[k]
    /\ J = {} =>
         /\ DOMAIN r = DOMAIN g \cup {l}
         /\ \A k \in DOMAIN g : r[k] = g[k]
         /\ l \notin DOMAIN g => r[l] = [base |-> FALSE, key |-> l, logs |-> {l}]

(* A file group takes a log file. *)
LEMMA AddLogFileProps ==
    ASSUME NEW comp \in [Times -> Nat], NEW g \in Groups, NEW l \in Times
    PROVE  /\ AddLogFile(comp, g, l) \in Groups
           /\ Takes(g, KeysUpTo(g, CurrentWhen(comp, l)), l, AddLogFile(comp, g, l))
<1>1. PICK K \in SUBSET Times : g \in [K -> Slices] /\ DOMAIN g = K
  BY DEF Groups
<1>2. PICK J, r : J = KeysUpTo(g, CurrentWhen(comp, l)) /\ r = AddLogFile(comp, g, l)
  OBVIOUS
<1>3. J \in SUBSET K
  BY <1>1, <1>2 DEF KeysUpTo
<1>4. CASE J # {}
  <2>1. PICK x : x = Max(J)
    OBVIOUS
  <2>2. x \in J /\ \A k \in J : k <= x
    BY <1>3, <1>4, <2>1, MaxOfTimes
  <2>3. r = [g EXCEPT ![x].logs = @ \cup {l}]
    BY <1>2, <1>4, <2>1 DEF AddLogFile
  <2>4. ASSUME NEW k \in K
        PROVE  r[k] = IF k = x THEN WithLog(g[k], l) ELSE g[k]
    <3>1. r[k] = IF k = x THEN [g[k] EXCEPT !.logs = @ \cup {l}] ELSE g[k]
      BY <1>1, <2>3
    <3>2. g[k] \in Slices
      BY <1>1
    <3>3. [g[k] EXCEPT !.logs = @ \cup {l}] = WithLog(g[k], l)
      BY <3>2 DEF WithLog, Slices
    <3> QED BY <3>1, <3>3
  <2>5. DOMAIN r = K
    BY <1>1, <2>3
  <2>6. \A k \in K : WithLog(g[k], l) \in Slices
    BY <1>1 DEF WithLog, Slices
  <2>7. r \in [K -> Slices]
    <3>1. \A k \in K : r[k] \in Slices
      BY <1>1, <2>4, <2>6
    <3>2. r = [k \in K |-> r[k]]
      BY <1>1, <2>3
    <3> QED BY <3>1, <3>2
  <2>8. r \in Groups
    BY <2>7 DEF Groups
  <2> QED BY <1>1, <1>2, <1>4, <2>1, <2>2, <2>4, <2>5, <2>8 DEF Takes
<1>5. CASE J = {}
  <2>1. PICK s : s = [base |-> FALSE, key |-> l, logs |-> {l}]
    OBVIOUS
  <2>2. r = [k \in K \cup {l} |-> IF k \in K THEN g[k] ELSE s]
    BY <1>1, <1>2, <1>5, <2>1 DEF AddLogFile
  <2>3. s \in Slices
    BY <2>1 DEF Slices
  <2>4. r \in [K \cup {l} -> Slices] /\ K \cup {l} \in SUBSET Times
    BY <1>1, <2>2, <2>3
  <2>5. r \in Groups
    BY <2>4 DEF Groups
  <2> QED BY <1>1, <1>2, <1>5, <2>1, <2>2, <2>5 DEF Takes
<1> QED BY <1>4, <1>5

(* A log file looks for its slice no earlier than it was requested. *)
LEMMA WhenProps ==
    ASSUME NEW comp, NEW ls, KnownFor(comp, ls), NEW l \in ls
    PROVE  l \in Nat /\ CurrentWhen(comp, l) \in Nat /\ l <= CurrentWhen(comp, l)
BY DEF KnownFor, CurrentWhen, Times

IsGroupFold(comp, bs, ls, h) ==
    /\ h[{}] = AddBaseFiles(bs)
    /\ \A s \in SUBSET ls : s # {} =>
         h[s] = AddLogFile(comp, h[s \ {LastLog(comp, s)}], LastLog(comp, s))

(* The group is the fold over the log files, the last one added last. *)
LEMMA FileGroupFold ==
    ASSUME NEW comp, NEW bs \in SUBSET Times, NEW ls, KnownFor(comp, ls)
    PROVE  \E h \in [SUBSET ls -> Groups] :
             FileGroup(comp, bs, ls) = h[ls] /\ IsGroupFold(comp, bs, ls, h)
<1> DEFINE IsIter(g) == g = [s \in SUBSET ls |->
             IF s = {} THEN AddBaseFiles(bs)
             ELSE AddLogFile(comp, g[s \ {LastLog(comp, s)}], LastLog(comp, s))]
           it == CHOOSE g : IsIter(g)
<1>1. FileGroup(comp, bs, ls) = it[ls]
  BY DEF FileGroup, AddLogFiles, MapThenFoldSet
<1>2. IsFiniteSet(ls) /\ ls \in SUBSET Times
  <2>1. IsFiniteSet(Times)
    BY TableListingAssumption, FS_Interval DEF Times
  <2> QED BY <2>1, FS_Subset DEF KnownFor
<1>3. AddBaseFiles(bs) \in Groups
  <2>1. AddBaseFiles(bs) \in [bs -> Slices]
    BY DEF AddBaseFiles, Slices
  <2> QED BY <2>1 DEF Groups
<1>4. \A s \in SUBSET ls : s # {} => LastLog(comp, s) \in s
  <2>1. \A s \in SUBSET ls : KnownFor(comp, s)
    BY DEF KnownFor
  <2> QED BY <2>1, LastLogProps
<1>5. ASSUME NEW g \in Groups, NEW l \in Times
      PROVE  AddLogFile(comp, g, l) \in Groups
  <2>1. comp \in [Times -> Nat]
    BY DEF KnownFor
  <2> QED BY <2>1, AddLogFileProps
<1>6. PICK step : step = [z \in ls \X Groups |-> AddLogFile(comp, z[2], z[1])]
  OBVIOUS
<1>7. step \in [ls \X Groups -> Groups]
  <2>1. \A z \in ls \X Groups : AddLogFile(comp, z[2], z[1]) \in Groups
    BY <1>2, <1>5
  <2> QED BY <1>6, <2>1
<1>8. PICK pick : pick = [s \in SUBSET ls |-> LastLog(comp, s)]
  OBVIOUS
<1>9. PICK base : base = AddBaseFiles(bs)
  OBVIOUS
<1>10. PICK h \in [SUBSET ls -> Groups] : IsFold(step, base, pick, ls, h)
  <2>1. \A s \in SUBSET ls : s # {} => pick[s] \in s
    BY <1>4, <1>8
  <2> QED BY <1>2, <1>3, <1>7, <1>9, <2>1, FoldTyped
<1>11. ASSUME NEW s \in SUBSET ls, s # {}
       PROVE  h[s] = AddLogFile(comp, h[s \ {LastLog(comp, s)}], LastLog(comp, s))
  <2>1. PICK p : p = LastLog(comp, s)
    OBVIOUS
  <2>2. p \in ls /\ s \ {p} \in SUBSET ls /\ pick[s] = p
    BY <1>4, <1>8, <1>11, <2>1
  <2>3. h[s] = step[<<p, h[s \ {p}]>>]
    BY <1>10, <1>11, <2>2 DEF IsFold
  <2>4. <<p, h[s \ {p}]>> \in ls \X Groups
    BY <2>2
  <2>5. step[<<p, h[s \ {p}]>>] = AddLogFile(comp, h[s \ {p}], p)
    BY <1>6, <2>4
  <2> QED BY <2>1, <2>3, <2>5
<1>12. h[{}] = AddBaseFiles(bs)
  <2>1. {} \in SUBSET ls
    OBVIOUS
  <2> QED BY <1>9, <1>10, <2>1 DEF IsFold
<1>13. IsIter(h)
  <2>1. \A s \in SUBSET ls : h[s] =
          IF s = {} THEN AddBaseFiles(bs)
          ELSE AddLogFile(comp, h[s \ {LastLog(comp, s)}], LastLog(comp, s))
    BY <1>11, <1>12
  <2>2. h = [s \in SUBSET ls |-> h[s]]
    OBVIOUS
  <2> QED BY <2>1, <2>2
<1>14. IsIter(it)
  BY <1>13
<1> HIDE DEF it
<1>15. /\ it[{}] = AddBaseFiles(bs)
       /\ \A s \in SUBSET ls : s # {} =>
            it[s] = AddLogFile(comp, it[s \ {LastLog(comp, s)}], LastLog(comp, s))
  <2>1. {} \in SUBSET ls
    OBVIOUS
  <2> QED BY <1>14, <2>1
<1>16. it \in [SUBSET ls -> Groups]
  <2> DEFINE B == {s \in SUBSET ls : it[s] \notin Groups}
  <2>1. SUFFICES ASSUME B # {} PROVE FALSE
    <3>1. it = [s \in SUBSET ls |-> it[s]]
      BY <1>14
    <3> QED BY <3>1
  <2>2. PICK s \in B : \A u \in B : u \subseteq s => u = s
    <3>1. B \in SUBSET (SUBSET ls)
      OBVIOUS
    <3> HIDE DEF B
    <3> QED BY <1>2, <2>1, <3>1, MinimalSubset
  <2>3. s # {}
    BY <1>3, <1>15
  <2>4. PICK p : p = LastLog(comp, s)
    OBVIOUS
  <2>5. p \in s /\ s \ {p} \in SUBSET ls /\ s \ {p} \notin B
    BY <1>4, <2>2, <2>3, <2>4
  <2>6. it[s \ {p}] \in Groups /\ p \in Times
    BY <1>2, <2>5
  <2>7. AddLogFile(comp, it[s \ {p}], p) \in Groups
    BY <1>5, <2>6
  <2> QED BY <1>15, <2>3, <2>4, <2>7
<1> QED BY <1>1, <1>15, <1>16 DEF IsGroupFold

(* What a group holds once some log files have been added. *)
Placed(comp, bs, s, g) ==
    /\ bs \subseteq DOMAIN g /\ DOMAIN g \ bs \subseteq Orphans(comp, bs, s)
    /\ \A b \in bs : g[b] = [base |-> TRUE, key |-> b, logs |-> SliceLogs(comp, bs, s, b)]
    /\ (\A o \in Orphans(comp, bs, s) : comp[o] # NoTime) =>
         /\ \A x \in DOMAIN g \ bs :
              /\ g[x] = [base |-> FALSE, key |-> x, logs |-> Orphans(comp, bs, s)]
              /\ \A o \in Orphans(comp, bs, s) : comp[x] <= comp[o]
         /\ Orphans(comp, bs, s) # {} => DOMAIN g \ bs # {}

(* One more, that is last in the order. *)
LEMMA PlaceOne ==
    ASSUME NEW comp, NEW bs \in SUBSET Times, NEW s, KnownFor(comp, s), bs \cap s = {},
           NEW l \in s, \A m \in s \ {l} : LogBefore(comp, m, l),
           NEW g \in Groups, Placed(comp, bs, s \ {l}, g),
           NEW r, r = AddLogFile(comp, g, l)
    PROVE  Placed(comp, bs, s, r)
<1>1. PICK K \in SUBSET Times : g \in [K -> Slices] /\ DOMAIN g = K
  BY DEF Groups
<1>2. PICK w : w = CurrentWhen(comp, l)
  OBVIOUS
<1>3. PICK J : J = KeysUpTo(g, CurrentWhen(comp, l))
  OBVIOUS
<1>4. l \in Times /\ comp \in [Times -> Nat] /\ s \in SUBSET Times
      /\ Times \in SUBSET Nat
  BY DEF KnownFor, Times
<1>5. Takes(g, J, l, r)
  BY <1>3, <1>4, AddLogFileProps
<1>5a. J = {k \in K : k <= w}
  BY <1>1, <1>2, <1>3 DEF KeysUpTo
<1>6. PICK o, p : o = Orphans(comp, bs, s \ {l}) /\ p = Orphans(comp, bs, s)
  OBVIOUS
<1>7. \A k \in s : k \in Nat /\ CurrentWhen(comp, k) \in Nat /\ k <= CurrentWhen(comp, k)
  BY WhenProps
<1>8. \A x \in p, b \in bs : x < b
  BY <1>4, <1>6, <1>7 DEF Orphans
<1>9. o = p \ {l} /\ l \notin o /\ (l \in p <=> \A b \in bs : ~(b <= w))
  BY <1>2, <1>6 DEF Orphans
<1>10. /\ bs \subseteq K /\ K \ bs \subseteq o /\ l \notin K
       /\ \A b \in bs : g[b] = [base |-> TRUE, key |-> b,
                                logs |-> SliceLogs(comp, bs, s \ {l}, b)]
  BY <1>1, <1>6, <1>9 DEF Placed
<1>11. ASSUME NEW b \in bs
       PROVE  SliceLogs(comp, bs, s, b) =
                IF b \in J /\ \A c \in bs : b < c => c \notin J
                THEN SliceLogs(comp, bs, s \ {l}, b) \cup {l}
                ELSE SliceLogs(comp, bs, s \ {l}, b)
  BY <1>2, <1>5a, <1>10 DEF SliceLogs
<1>12. CASE l \in p
  <2>1. \A k \in J : k \in K \ bs
    BY <1>5a, <1>9, <1>12
  <2>2. \A b \in bs : SliceLogs(comp, bs, s, b) = SliceLogs(comp, bs, s \ {l}, b)
    BY <1>11, <2>1
  <2>3. CASE J = {}
    <3>1. DOMAIN r = K \cup {l} /\ (\A k \in K : r[k] = g[k])
          /\ r[l] = [base |-> FALSE, key |-> l, logs |-> {l}]
      BY <1>1, <1>5, <1>10, <2>3 DEF Takes
    <3>2. bs \subseteq DOMAIN r /\ DOMAIN r \ bs \subseteq p
      BY <1>9, <1>10, <1>12, <3>1
    <3>3. \A b \in bs : r[b] = [base |-> TRUE, key |-> b, logs |-> SliceLogs(comp, bs, s, b)]
      BY <1>10, <2>2, <3>1
    <3>4. ASSUME \A x \in p : comp[x] # NoTime
          PROVE  /\ \A x \in DOMAIN r \ bs :
                      /\ r[x] = [base |-> FALSE, key |-> x, logs |-> p]
                      /\ \A z \in p : comp[x] <= comp[z]
                 /\ DOMAIN r \ bs # {}
      <4>1. o = {}
        <5>1. SUFFICES ASSUME o # {} PROVE FALSE
          OBVIOUS
        <5>2. PICK x : x \in K \ bs
          BY <1>1, <1>6, <1>9, <3>4, <5>1 DEF Placed
        <5>3. x \in o /\ x \in s \ {l} /\ LogBefore(comp, x, l)
          BY <1>6, <1>10, <5>2 DEF Orphans
        <5>4. comp[x] # NoTime /\ comp[l] # NoTime /\ x < comp[x] /\ w = comp[l]
          BY <1>2, <1>9, <1>12, <3>4, <5>3 DEF KnownFor, CurrentWhen
        <5>5. x <= w
          BY <1>4, <5>3, <5>4 DEF LogBefore
        <5> QED BY <1>5a, <2>3, <5>2, <5>5
      <4>2. p = {l} /\ DOMAIN r \ bs = {l}
        BY <1>6, <1>9, <1>10, <1>12, <3>1, <4>1
      <4>3. comp[l] <= comp[l]
        BY <1>4
      <4>4. r[l] = [base |-> FALSE, key |-> l, logs |-> p]
        BY <3>1, <4>2
      <4> QED BY <4>2, <4>3, <4>4
    <3> QED BY <1>6, <3>2, <3>3, <3>4 DEF Placed
  <2>4. CASE J # {}
    <3>1. PICK y : y = Max(J)
      OBVIOUS
    <3>2. /\ y \in J /\ DOMAIN r = K
          /\ \A k \in K : r[k] = IF k = y THEN WithLog(g[k], l) ELSE g[k]
      BY <1>1, <1>5, <2>4, <3>1 DEF Takes
    <3>3. bs \subseteq DOMAIN r /\ DOMAIN r \ bs \subseteq p
      BY <1>9, <1>10, <3>2
    <3>4. \A b \in bs : r[b] = [base |-> TRUE, key |-> b, logs |-> SliceLogs(comp, bs, s, b)]
      BY <1>10, <2>1, <2>2, <3>2
    <3>5. ASSUME \A x \in p : comp[x] # NoTime
          PROVE  /\ \A x \in DOMAIN r \ bs :
                      /\ r[x] = [base |-> FALSE, key |-> x, logs |-> p]
                      /\ \A z \in p : comp[x] <= comp[z]
                 /\ DOMAIN r \ bs # {}
      <4>1. \A x \in K \ bs : g[x] = [base |-> FALSE, key |-> x, logs |-> o]
        BY <1>1, <1>6, <1>9, <3>5 DEF Placed
      <4>1a. \A x \in K \ bs : \A z \in o : comp[x] <= comp[z]
        BY <1>1, <1>6, <1>9, <3>5 DEF Placed
      <4>2. y \in K \ bs /\ y \in o
        BY <1>10, <2>1, <3>2
      <4>3. \A x \in K \ bs : x = y
        <5>1. \A x \in K \ bs : x \in o /\ x \in s /\ comp[x] # NoTime /\ comp[x] \in Nat
          BY <1>4, <1>6, <1>9, <1>10, <3>5 DEF Orphans
        <5>2. \A x \in K \ bs : comp[x] = comp[y]
          BY <4>1a, <4>2, <5>1
        <5> QED BY <4>2, <5>1, <5>2 DEF KnownFor
      <4>4. comp[y] <= comp[l]
        <5>1. y \in s \ {l} /\ LogBefore(comp, y, l)
          BY <1>6, <4>2 DEF Orphans
        <5>2. comp[y] # NoTime /\ comp[l] # NoTime /\ comp[y] \in Nat /\ comp[l] \in Nat
          BY <1>4, <1>9, <1>12, <3>5, <4>2, <5>1
        <5> QED BY <5>1, <5>2 DEF LogBefore
      <4>5. r[y] = [base |-> FALSE, key |-> y, logs |-> p]
        <5>1. p = o \cup {l}
          BY <1>9, <1>12
        <5>2. g[y] = [base |-> FALSE, key |-> y, logs |-> o]
          BY <4>1, <4>2
        <5>3. WithLog(g[y], l) = [base |-> FALSE, key |-> y, logs |-> o \cup {l}]
          BY <5>2 DEF WithLog
        <5>4. r[y] = WithLog(g[y], l)
          BY <3>2, <4>2
        <5> QED BY <5>1, <5>3, <5>4
      <4>7. \A x \in DOMAIN r \ bs : x = y
        BY <3>2, <4>3
      <4>8. \A z \in p : comp[y] <= comp[z]
        BY <1>9, <4>2, <4>4, <4>1a
      <4>9. y \in DOMAIN r \ bs
        BY <3>2, <4>2
      <4> QED BY <4>5, <4>7, <4>8, <4>9
    <3> QED BY <1>6, <3>3, <3>4, <3>5 DEF Placed
  <2> QED BY <2>3, <2>4
<1>13. CASE l \notin p
  <2>1. o = p
    BY <1>9, <1>13
  <2>2. PICK b0 \in bs : b0 <= w
    BY <1>9, <1>13
  <2>3. b0 \in J
    BY <1>5a, <1>10, <2>2
  <2>4. PICK y : y = Max(J)
    OBVIOUS
  <2>5. /\ y \in J /\ (\A k \in J : k <= y) /\ DOMAIN r = K
        /\ \A k \in K : r[k] = IF k = y THEN WithLog(g[k], l) ELSE g[k]
    BY <1>1, <1>5, <2>3, <2>4 DEF Takes
  <2>6. y \in bs
    <3>1. SUFFICES ASSUME y \in K \ bs PROVE FALSE
      BY <1>5a, <2>5
    <3>2. y < b0 /\ b0 <= y
      BY <1>8, <1>10, <2>1, <2>3, <2>5, <3>1
    <3>3. y \in Nat /\ b0 \in Nat
      BY <1>4, <3>1
    <3> QED BY <3>2, <3>3
  <2>7. bs \subseteq DOMAIN r /\ DOMAIN r \ bs \subseteq p
    BY <1>10, <2>1, <2>5
  <2>8. ASSUME NEW b \in bs
        PROVE  r[b] = [base |-> TRUE, key |-> b, logs |-> SliceLogs(comp, bs, s, b)]
    <3>1. (b \in J /\ \A c \in bs : b < c => c \notin J) <=> b = y
      BY <1>4, <2>5, <2>6
    <3>2. PICK a, c : a = SliceLogs(comp, bs, s \ {l}, b) /\ c = SliceLogs(comp, bs, s, b)
      OBVIOUS
    <3>3. g[b] = [base |-> TRUE, key |-> b, logs |-> a] /\ b \in K
      BY <1>10, <3>2
    <3>4. c = IF b = y THEN a \cup {l} ELSE a
      BY <1>11, <3>1, <3>2
    <3>5. WithLog(g[b], l) = [base |-> TRUE, key |-> b, logs |-> a \cup {l}]
      BY <3>3 DEF WithLog
    <3>6. r[b] = IF b = y THEN WithLog(g[b], l) ELSE g[b]
      BY <2>5, <3>3
    <3>7. r[b] = [base |-> TRUE, key |-> b, logs |-> c]
      BY <3>3, <3>4, <3>5, <3>6
    <3> QED BY <3>2, <3>7
  <2>9. \A x \in DOMAIN r \ bs : r[x] = g[x]
    BY <2>5, <2>6
  <2>10. Placed(comp, bs, s \ {l}, g) /\ DOMAIN r = DOMAIN g
    BY <1>1, <2>5
  <2> QED BY <1>6, <2>1, <2>7, <2>8, <2>9, <2>10 DEF Placed
<1> QED BY <1>12, <1>13

(* So it is for all of them. *)
LEMMA FileGroupProps ==
    ASSUME NEW comp, NEW bs \in SUBSET Times, NEW ls, KnownFor(comp, ls), bs \cap ls = {},
           NEW g, g = FileGroup(comp, bs, ls)
    PROVE  g \in Groups /\ Placed(comp, bs, ls, g)
<1>1. PICK h \in [SUBSET ls -> Groups] :
             FileGroup(comp, bs, ls) = h[ls] /\ IsGroupFold(comp, bs, ls, h)
  BY ONLY bs \in SUBSET Times, KnownFor(comp, ls), FileGroupFold
<1> DEFINE B == {s \in SUBSET ls : ~Placed(comp, bs, s, h[s])}
<1>2. SUFFICES ASSUME B # {} PROVE FALSE
  <2>1. ls \in SUBSET ls
    OBVIOUS
  <2> QED BY <1>1, <2>1
<1>3. PICK s \in B : \A u \in B : u \subseteq s => u = s
  <2>1. B \in SUBSET (SUBSET ls)
    OBVIOUS
  <2>2. IsFiniteSet(ls)
    <3>1. IsFiniteSet(Times)
      BY TableListingAssumption, FS_Interval DEF Times
    <3> QED BY <3>1, FS_Subset DEF KnownFor
  <2> HIDE DEF B
  <2> QED BY <1>2, <2>1, <2>2, MinimalSubset
<1>4. s \in SUBSET ls /\ KnownFor(comp, s) /\ bs \cap s = {} /\ ~Placed(comp, bs, s, h[s])
  BY DEF KnownFor
<1>5. CASE s = {}
  <2>1. PICK a : a = h[{}]
    OBVIOUS
  <2>2. a = [b \in bs |-> [base |-> TRUE, key |-> b, logs |-> {}]]
    BY <1>1, <2>1 DEF IsGroupFold, AddBaseFiles
  <2>3. Orphans(comp, bs, {}) = {} /\ \A b \in bs : SliceLogs(comp, bs, {}, b) = {}
    BY DEF Orphans, SliceLogs
  <2>4. Placed(comp, bs, {}, a)
    BY <2>2, <2>3 DEF Placed
  <2> QED BY <1>4, <1>5, <2>1, <2>4
<1>6. CASE s # {}
  <2>1. PICK l : l = LastLog(comp, s)
    OBVIOUS
  <2>2. l \in s /\ \A m \in s \ {l} : LogBefore(comp, m, l)
    BY <1>4, <1>6, <2>1, LastLogProps
  <2>3. s \ {l} \in SUBSET ls /\ s \ {l} \notin B
    BY <1>3, <1>4, <2>2
  <2>4. PICK a, r : a = h[s \ {l}] /\ r = h[s]
    OBVIOUS
  <2>5. a \in Groups /\ Placed(comp, bs, s \ {l}, a)
    BY <2>3, <2>4
  <2>6. r = AddLogFile(comp, a, l)
    BY <1>1, <1>4, <1>6, <2>1, <2>4 DEF IsGroupFold
  <2>7. Placed(comp, bs, s, r)
    BY <1>4, <2>2, <2>5, <2>6, PlaceOne
  <2> QED BY <1>4, <2>4, <2>7
<1> QED BY <1>5, <1>6

-----------------------------------------------------------------------------
(* What every step of a writer or of a table service keeps: an instant     *)
(* keeps what it is and what it speaks of, what is committed stays         *)
(* committed, what is rolled back stays so, and new instants are later     *)
(* than all others.                                                        *)
Evolves ==
    /\ now' \in Nat /\ now <= now' /\ cleaned' \in Nat /\ cleaned <= cleaned'
    /\ \A t \in Times :
         /\ instants[t].kind # "none" => /\ instants'[t].kind = instants[t].kind
                                         /\ instants'[t].over = instants[t].over
         /\ instants[t].kind = "none" /\ instants'[t].kind # "none"
              => now < t /\ instants'[t].state = "open"
         /\ instants[t].state \in {"completed", "archived"}
              => /\ instants'[t].state \in {"completed", "archived"}
                 /\ instants'[t].done = instants[t].done
         /\ instants[t].state \in {"failed", "gone"}
              => instants'[t].state \in {"failed", "gone"}
         /\ instants[t].state = "gone" => instants'[t].state = "gone"
         /\ instants'[t].state \in {"none", "open"}
              => instants[t].state \in {"none", "open"}
    /\ reader' = reader
    /\ reader.pc # "closed" => \/ cleaned' = cleaned
                               \/ cleaned' \in reader.seen /\ cleaned' <= reader.asOf

LEMMA TimesAreNumbers == Times \in SUBSET Nat /\ 0 \notin Times /\ 1 \in Times
BY TableListingAssumption DEF Times

(* What is of a kind stays of it, and a file that is new is a late one. *)
LEMMA EvolvesSets ==
    ASSUME TypeInv, ClockInv, Evolves
    PROVE  /\ Files \subseteq Files' /\ \A t \in Files' \ Files : now < t
           /\ BaseFiles \subseteq BaseFiles' /\ LogFiles \subseteq LogFiles'
           /\ Committed \subseteq Committed' /\ RolledOff \subseteq RolledOff'
           /\ Committed \cap Files' \subseteq Files
           /\ \A f \in Files : Superfluous(f) => Superfluous(f)'
<1> USE DEF Files, BaseFiles, LogFiles, Committed, RolledOff, OfKind, InState, Commits
<1>1. Files \subseteq Files' /\ \A t \in Files' \ Files : now < t
  BY DEF Evolves
<1>2. BaseFiles \subseteq BaseFiles' /\ LogFiles \subseteq LogFiles'
  BY DEF Evolves
<1>3. Committed \subseteq Committed' /\ RolledOff \subseteq RolledOff'
  BY DEF Evolves
<1>4. Committed \cap Files' \subseteq Files
  BY DEF Evolves, ClockInv
<1>5. ASSUME NEW f \in Files, Superfluous(f)
      PROVE  Superfluous(f)'
  <2>1. f \in Times /\ f \in Nat /\ instants[f].done \in Nat
        /\ cleaned \in Nat /\ cleaned' \in Nat /\ cleaned <= cleaned'
    BY TimesAreNumbers DEF TypeInv, Instant, Evolves
  <2>2. IsBase(f)' <=> IsBase(f)
    BY <1>5 DEF IsBase, Evolves
  <2>3. CASE IsBase(f)
    BY <1>5, <2>1, <2>2, <2>3 DEF Superfluous
  <2>4. CASE ~IsBase(f)
    <3>1. f \in Committed /\ instants[f].done < cleaned
      BY <1>5, <2>4 DEF Superfluous
    <3>2. f \in Committed' /\ instants'[f].done = instants[f].done
      BY <2>1, <3>1 DEF Evolves
    <3>3. instants'[f].done < cleaned'
      BY <2>1, <3>1, <3>2
    <3> QED BY <2>2, <2>4, <3>2, <3>3 DEF Superfluous
  <2> QED BY <2>3, <2>4
<1> QED BY <1>1, <1>2, <1>3, <1>4, <1>5

(* A metadata table that fits the instants goes on fitting them. *)
LEMMA EvolvesMetadata ==
    ASSUME TypeInv, ClockInv, Evolves, NEW m \in Metadata
    PROVE  /\ BlocksFit(m) => BlocksFit(m)'
           /\ LiveFit(m) => LiveFit(m)'
           /\ TombsFit(m) => TombsFit(m)'
           /\ \A t \in Times : Buried(m, t) => Buried(m, t)'
<1>1. \A i \in DOMAIN m.blocks : m.blocks[i].at \in Times
  BY BlockProps
<1>2. ASSUME BlocksFit(m) PROVE BlocksFit(m)'
  <2>1. SUFFICES ASSUME NEW i \in DOMAIN m.blocks, NEW t, t = m.blocks[i].at,
                        NEW r, r = m.blocks[i].files
                 PROVE  /\ instants'[t].kind # "none"
                        /\ \A f \in Times : Live(r, f) <=> f = t /\ t \in Files'
                        /\ t \in OfKind({"rollback"})' => \A f \in instants'[t].over : Tomb(r, f)
    BY DEF BlocksFit
  <2>2. /\ instants[t].kind # "none"
        /\ \A f \in Times : Live(r, f) <=> f = t /\ t \in Files
        /\ t \in OfKind({"rollback"}) => \A f \in instants[t].over : Tomb(r, f)
    BY <1>2, <2>1 DEF BlocksFit
  <2>3. t \in Times /\ instants'[t].kind = instants[t].kind
        /\ instants'[t].over = instants[t].over
    BY <1>1, <2>1, <2>2 DEF Evolves
  <2>4. (t \in Files' <=> t \in Files) /\ (t \in OfKind({"rollback"})' <=> t \in OfKind({"rollback"}))
    BY <2>3 DEF Files, OfKind
  <2> QED BY <2>2, <2>3, <2>4
<1>3. LiveFit(m) => LiveFit(m)'
  BY EvolvesSets DEF LiveFit
<1>4. TombsFit(m) => TombsFit(m)'
  BY EvolvesSets DEF TombsFit
<1>5. \A t \in Times : Buried(m, t) => Buried(m, t)'
  BY EvolvesSets DEF Buried
<1> QED BY <1>2, <1>3, <1>4, <1>5

(* So a reader loses nothing while others take their steps. *)
LEMMA EvolvesReader ==
    ASSUME TypeInv, ClockInv, Evolves, ReaderInv
    PROVE  ReaderInv'
<1>1. reader' = reader /\ reader \in Reader
  BY DEF Evolves, ReaderInv
<1>2. PICK rd : rd = reader
  OBVIOUS
<1>3. rd \in Reader /\ reader = rd /\ reader' = rd
  BY <1>1, <1>2
<1>4. ASSUME LoadedInv, rd.pc # "closed" PROVE LoadedInv'
  <2>1. /\ rd.completed \subseteq rd.seen \cap Files /\ rd.completed # {}
        /\ rd.seen \subseteq Committed /\ rd.boundary <= now
    BY <1>3, <1>4 DEF LoadedInv
  <2>2. /\ rd.completed \subseteq rd.seen \cap Files' /\ rd.completed # {}
        /\ rd.seen \subseteq Committed'
    BY <2>1, EvolvesSets
  <2>3. rd.boundary <= now'
    BY <1>3, <2>1 DEF Evolves, TypeInv, Reader
  <2>4. \A t \in rd.seen \cap Files' :
          t \in rd.completed \/ (t < rd.boundary /\ \A u \in rd.completed : t < u)
    BY <1>3, <1>4, <2>1, EvolvesSets DEF LoadedInv
  <2>5. ASSUME NEW t \in Files' \ rd.seen
        PROVE  t >= rd.boundary \/ instants'[t].state = "gone"
    <3>1. t \in Times
      BY DEF Files, OfKind
    <3>2. CASE t \in Files
      BY <1>3, <1>4, <2>5, <3>1, <3>2 DEF LoadedInv, Evolves
    <3>3. CASE t \notin Files
      BY <1>3, <2>1, <2>5, <3>1, <3>3, EvolvesSets, TimesAreNumbers DEF TypeInv, Reader
    <3> QED BY <3>2, <3>3
  <2>6. ASSUME NEW c \in rd.seen \cap OfKind({"compact"})'
        PROVE  instants'[c].over \subseteq rd.seen
    <3>1. c \in Times /\ c \in Committed
      BY <2>1, <2>6 DEF OfKind
    <3>2. instants[c].kind # "none"
      BY <3>1 DEF ClockInv, Committed, InState
    <3>3. instants'[c].kind = instants[c].kind /\ instants'[c].over = instants[c].over
      BY <3>1, <3>2 DEF Evolves
    <3>4. c \in rd.seen \cap OfKind({"compact"})
      BY <2>6, <3>3 DEF OfKind
    <3> QED BY <1>3, <1>4, <3>3, <3>4 DEF LoadedInv
  <2>7. cleaned' <= rd.asOf /\ (cleaned' # 0 => cleaned' \in rd.seen)
    BY <1>3, <1>4 DEF LoadedInv, Evolves
  <2> QED BY <1>3, <2>2, <2>3, <2>4, <2>5, <2>6, <2>7 DEF LoadedInv
<1>5. ASSUME LoadedInv, CopyInv PROVE CopyInv'
  <2>1. PICK m : m = rd.mdt
    OBVIOUS
  <2>2. /\ m \in Metadata /\ BlocksFit(m) /\ LiveFit(m) /\ TombsFit(m)
        /\ \A t \in rd.seen \cap Files : Superfluous(t) \/ Entered(m, t)
        /\ \A t \in Files \ rd.seen : t < rd.boundary => Buried(m, t)
    BY <1>3, <1>5, <2>1 DEF CopyInv
  <2>3. BlocksFit(m)' /\ LiveFit(m)' /\ TombsFit(m)'
    BY <2>2, EvolvesMetadata
  <2>4. \A t \in rd.seen \cap Files' : Superfluous(t)' \/ Entered(m, t)
    BY <1>3, <1>5, <2>2, EvolvesSets DEF LoadedInv
  <2>5. ASSUME NEW t \in Files' \ rd.seen, t < rd.boundary
        PROVE  Buried(m, t)'
    <3>1. t \in Times /\ rd.boundary <= now
      BY <1>3, <1>5 DEF Files, OfKind, LoadedInv
    <3>2. t \in Files
      BY <1>3, <2>5, <3>1, EvolvesSets, TimesAreNumbers DEF TypeInv, Reader
    <3>3. Buried(m, t)
      BY <2>2, <2>5, <3>2
    <3> QED BY <2>2, <3>1, <3>3, EvolvesMetadata
  <2>6. reader.mdt' = m /\ reader.seen' = rd.seen /\ reader.boundary' = rd.boundary
    BY <1>3, <2>1
  <2>7. BlocksFit(reader.mdt)' /\ LiveFit(reader.mdt)' /\ TombsFit(reader.mdt)'
    BY <2>3, <2>6 DEF BlocksFit, LiveFit, TombsFit
  <2>8. \A t \in (reader.seen \cap Files)' : Superfluous(t)' \/ Entered(reader.mdt, t)'
    BY <2>4, <2>6 DEF Entered
  <2>9. \A t \in (Files \ reader.seen)' : t < reader.boundary' => Buried(reader.mdt, t)'
    BY <2>5, <2>6 DEF Buried
  <2> QED BY <2>2, <2>6, <2>7, <2>8, <2>9 DEF CopyInv
<1>6. ASSUME LoadedInv, PendingInv PROVE PendingInv'
  <2>1. ASSUME NEW t \in Files' \ rd.seen, t < rd.boundary
        PROVE  t \in Files
    <3>1. t \in Times /\ rd.boundary <= now
      BY <1>3, <1>6 DEF Files, OfKind, LoadedInv
    <3> QED BY <1>3, <2>1, <3>1, EvolvesSets, TimesAreNumbers DEF TypeInv, Reader
  <2> QED BY <1>3, <1>6, <2>1 DEF PendingInv
<1>7. ASSUME LoadedInv, Enough(rd.bases, rd.logs) PROVE Enough(rd.bases, rd.logs)'
  <2>1. rd.bases \subseteq rd.seen \cap BaseFiles' /\ rd.logs \subseteq rd.seen \cap LogFiles'
    BY <1>3, <1>7, EvolvesSets DEF Enough
  <2>2. \A f \in rd.seen \cap Files' : Superfluous(f)' \/ f \in rd.bases \cup rd.logs
    BY <1>3, <1>7, EvolvesSets DEF Enough, LoadedInv
  <2> QED BY <1>3, <2>1, <2>2 DEF Enough
<1>8. Enough(reader.bases, reader.logs)' <=> Enough(rd.bases, rd.logs)'
  BY <1>3 DEF Enough
<1> QED BY <1>3, <1>4, <1>5, <1>6, <1>7, <1>8 DEF ReaderInv

(* The metadata table while nothing is written to it. *)
LEMMA EvolvesTable ==
    ASSUME TypeInv, ClockInv, Evolves, MetadataInv, mdt' = mdt,
           \A t \in Times : instants'[t].state = "logged" => instants[t].state = "logged",
           \A t \in Files' \cap InState({"logged", "completed", "archived"})' :
               t \in Files \cap InState({"logged", "completed", "archived"}),
           \A t \in Times : instants'[t].state = "gone" =>
               instants[t].state = "gone" \/ Buried(mdt, t)'
    PROVE  MetadataInv'
<1>1. PICK m : m = mdt
  OBVIOUS
<1>2. m \in Metadata /\ mdt = m /\ mdt' = m
  BY <1>1 DEF MetadataInv
<1>3. \A i \in DOMAIN m.blocks : m.blocks[i].at \in Times
  BY <1>2, BlockProps
<1>4. /\ \A i \in DOMAIN m.blocks : m.blocks[i].at \notin InState({"none", "open"})
      /\ BlocksFit(m) /\ LiveFit(m) /\ TombsFit(m)
      /\ \A t \in Files \cap InState({"logged", "completed", "archived"}) :
           Superfluous(t) \/ Entered(m, t)
      /\ \A t \in InState({"logged"}) : \E i \in DOMAIN m.blocks : m.blocks[i].at = t
      /\ \A i, j \in DOMAIN m.blocks :
           m.blocks[j].at \in OfKind({"rollback"})
             /\ m.blocks[i].at \in instants[m.blocks[j].at].over => i < j
      /\ \A t \in InState({"gone"}) : Buried(m, t)
  BY <1>2 DEF MetadataInv
<1>5. \A i \in DOMAIN m.blocks : m.blocks[i].at \notin InState({"none", "open"})'
  BY <1>3, <1>4 DEF InState, Evolves
<1>6. BlocksFit(m)' /\ LiveFit(m)' /\ TombsFit(m)'
  BY <1>2, <1>4, EvolvesMetadata
<1>7. \A t \in Files' \cap InState({"logged", "completed", "archived"})' :
        Superfluous(t)' \/ Entered(m, t)
  BY <1>4, EvolvesSets
<1>8. \A t \in InState({"logged"})' : \E i \in DOMAIN m.blocks : m.blocks[i].at = t
  BY <1>4 DEF InState
<1>9. ASSUME NEW i \in DOMAIN m.blocks, NEW j \in DOMAIN m.blocks,
             m.blocks[j].at \in OfKind({"rollback"})',
             m.blocks[i].at \in instants'[m.blocks[j].at].over
      PROVE  i < j
  <2>1. PICK t : t = m.blocks[j].at
    OBVIOUS
  <2>2. t \in Times /\ instants[t].kind # "none"
    BY <1>3, <1>4, <2>1 DEF BlocksFit
  <2>3. instants'[t].kind = instants[t].kind /\ instants'[t].over = instants[t].over
    BY <2>2 DEF Evolves
  <2>4. t \in OfKind({"rollback"}) /\ m.blocks[i].at \in instants[t].over
    BY <1>9, <2>1, <2>2, <2>3 DEF OfKind
  <2> QED BY <1>4, <2>1, <2>4
<1>10. \A t \in InState({"gone"})' : Buried(mdt, t)'
  <2>1. ASSUME NEW t \in Times, instants'[t].state = "gone"
        PROVE  Buried(mdt, t)'
    <3>1. CASE instants[t].state = "gone"
      <4>1. Buried(m, t)'
        BY <1>2, <1>4, <2>1, <3>1, EvolvesMetadata DEF InState
      <4> QED BY <1>2, <4>1 DEF Buried
    <3> QED BY <2>1, <3>1
  <2> QED BY <2>1 DEF InState
<1>11. BlocksFit(mdt)' /\ LiveFit(mdt)' /\ TombsFit(mdt)'
  BY <1>2, <1>6 DEF BlocksFit, LiveFit, TombsFit
<1>12. \A t \in Files' \cap InState({"logged", "completed", "archived"})' :
        Superfluous(t)' \/ Entered(mdt, t)'
  BY <1>2, <1>7 DEF Entered
<1> QED BY <1>2, <1>5, <1>8, <1>9, <1>10, <1>11, <1>12 DEF MetadataInv

-----------------------------------------------------------------------------
(* Requests.  That of a rollback fails the write it speaks of. *)

Kinds == {"insert", "write", "compact", "rollback", "clean"}

Requested(k, o, F) ==
    /\ now + 1 \in Times /\ now' = now + 1
    /\ instants[now + 1].kind = "none" /\ instants[now + 1].state = "none"
    /\ instants'[now + 1] = [kind |-> k, state |-> "open", done |-> 0, over |-> o]
    /\ \A u \in Times : u # now + 1 /\ u \notin F => instants'[u] = instants[u]
    /\ \A u \in F : /\ u \in LogFiles \cap Running
                    /\ instants'[u] = [instants[u] EXCEPT !.state = "failed"]
    /\ instants' \in [Times -> Instant]

LEMMA RequestProps ==
    ASSUME TypeInv, ClockInv, NEW k \in Kinds, NEW o \in SUBSET Times,
           MayRequest, Request(k, o)
    PROVE  Requested(k, o, {})
<1>1. now + 1 \in Times /\ now' = now + 1
  BY TableListingAssumption DEF MayRequest, Request, TypeInv, Times
<1>2. instants[now + 1].kind = "none"
  BY <1>1 DEF ClockInv, TypeInv
<1>3. instants[now + 1].state = "none"
  BY <1>1, <1>2 DEF ClockInv
<1>4. instants' = [instants EXCEPT ![now + 1] =
                     [kind |-> k, state |-> "open", done |-> 0, over |-> o]]
  BY DEF Request, Requesting, NoTime
<1>5. [kind |-> k, state |-> "open", done |-> 0, over |-> o] \in Instant
  BY DEF Instant, Kinds
<1>6. instants \in [Times -> Instant]
  BY DEF TypeInv
<1> QED BY <1>1, <1>2, <1>3, <1>4, <1>5, <1>6 DEF Requested

(* What becomes of one instant. *)
Became(k, o, F, t) ==
    /\ t = now + 1 => /\ instants[t].kind = "none" /\ instants[t].state = "none"
                      /\ instants'[t].kind = k /\ instants'[t].state = "open"
                      /\ instants'[t].over = o
    /\ t # now + 1 => /\ instants'[t].kind = instants[t].kind
                      /\ instants'[t].over = instants[t].over
                      /\ instants'[t].done = instants[t].done
                      /\ instants'[t].state =
                           IF t \in F THEN "failed" ELSE instants[t].state
    /\ t \in F => /\ instants[t].kind = "write" /\ t # now + 1
                  /\ instants[t].state \in {"open", "logged"}

LEMMA RequestOne ==
    ASSUME TypeInv, ClockInv, NEW k \in Kinds, NEW o \in SUBSET Times, NEW F,
           Requested(k, o, F), NEW t \in Times
    PROVE  Became(k, o, F, t)
<1>1. instants[t] \in Instant
  BY DEF TypeInv
<1>2. t \in F => /\ instants[t].kind = "write"
                 /\ instants[t].state \in {"open", "logged"}
  BY DEF Requested, LogFiles, Running, OfKind, InState
<1>3. t \in F => t # now + 1
  BY <1>2 DEF Requested
<1>4. CASE t = now + 1
  BY <1>2, <1>3, <1>4 DEF Requested, Became
<1>5. CASE t # now + 1 /\ t \in F
  BY <1>1, <1>2, <1>5 DEF Requested, Instant, Became
<1>6. CASE t # now + 1 /\ t \notin F
  BY <1>2, <1>3, <1>6 DEF Requested, Became
<1> QED BY <1>4, <1>5, <1>6

SetsAfter(k, F) ==
    /\ Committed' = Committed /\ Completed' = Completed
    /\ RolledOff' = RolledOff \cup F /\ F \subseteq LogFiles /\ now + 1 \in Times
    /\ InState({"archived"})' = InState({"archived"})
    /\ Pending' = Pending \cup {now + 1} /\ now + 1 \notin Committed
    /\ now + 1 \notin Files /\ now + 1 \notin RolledOff'
    /\ Files' = Files \cup (IF k \in Commits THEN {now + 1} ELSE {})
    /\ BaseFiles' = BaseFiles \cup (IF k \in {"insert", "compact"} THEN {now + 1} ELSE {})
    /\ LogFiles' = LogFiles \cup (IF k = "write" THEN {now + 1} ELSE {})
    /\ Writes' = Writes \cup (IF k \in {"insert", "write"} THEN {now + 1} ELSE {})
    /\ \A c \in Commits \cup {"rollback", "clean"} :
         OfKind({c})' = OfKind({c}) \cup (IF k = c THEN {now + 1} ELSE {})

LEMMA RequestSets ==
    ASSUME TypeInv, ClockInv, NEW k \in Kinds, NEW o \in SUBSET Times, NEW F,
           Requested(k, o, F)
    PROVE  SetsAfter(k, F)
<1>0. \A t \in Times : Became(k, o, F, t)
  BY RequestOne
<1> USE <1>0 DEF Became, InState, OfKind
<1>1. now + 1 \in Times /\ F \in SUBSET Times
  BY DEF Requested, LogFiles
<1>2. Committed' = Committed /\ Completed' = Completed
      /\ InState({"archived"})' = InState({"archived"})
      /\ now + 1 \notin Committed
  BY <1>1 DEF Committed, Completed
<1>3. RolledOff' = RolledOff \cup F /\ F \subseteq LogFiles /\ now + 1 \notin RolledOff'
  BY <1>1 DEF RolledOff, LogFiles
<1>4. Pending' = Pending \cup {now + 1}
  BY <1>1 DEF Pending
<1>5. now + 1 \notin Files
      /\ Files' = Files \cup (IF k \in Commits THEN {now + 1} ELSE {})
      /\ BaseFiles' = BaseFiles \cup (IF k \in {"insert", "compact"} THEN {now + 1} ELSE {})
      /\ LogFiles' = LogFiles \cup (IF k = "write" THEN {now + 1} ELSE {})
      /\ Writes' = Writes \cup (IF k \in {"insert", "write"} THEN {now + 1} ELSE {})
  BY <1>1 DEF Files, BaseFiles, LogFiles, Writes, Commits
<1>6. \A c \in Commits \cup {"rollback", "clean"} :
        OfKind({c})' = OfKind({c}) \cup (IF k = c THEN {now + 1} ELSE {})
  BY <1>1 DEF Commits
<1> QED BY <1>1, <1>2, <1>3, <1>4, <1>5, <1>6 DEF SetsAfter

(* A request leaves the other instants there are alone. *)
LEMMA RequestKeeps ==
    ASSUME TypeInv, ClockInv, ArchiveInv, NEW k \in Kinds, NEW o \in SUBSET Times, NEW F,
           Requested(k, o, F), cleaned' \in Nat, cleaned <= cleaned', reader' = reader,
           reader.pc # "closed" => \/ cleaned' = cleaned
                                   \/ cleaned' \in reader.seen /\ cleaned' <= reader.asOf,
           k = "compact" => Committed \cap Files # {}
    PROVE  Evolves /\ ClockInv' /\ ArchiveInv'
<1>0. (\A t \in Times : Became(k, o, F, t)) /\ SetsAfter(k, F)
  BY RequestOne, RequestSets
<1>1. now \in Nat /\ now + 1 \in Times /\ now' = now + 1
  BY DEF TypeInv, Requested
<1>2. Evolves
  BY <1>0, <1>1 DEF Became, Evolves
<1>3. ClockInv'
  <2>1. \A t \in Times : instants'[t].kind = "none" <=> instants'[t].state = "none"
    BY <1>0 DEF Became, ClockInv, Kinds
  <2>2. \A t \in Times : instants'[t].kind # "none" => t <= now'
    BY <1>0, <1>1, TimesAreNumbers DEF Became, ClockInv
  <2>3. \A t \in (Files \cap Committed)' :
          t \in Files \cap Committed /\ t \in Nat /\ instants'[t].done = instants[t].done
    <3>1. Files' \cap Committed' \subseteq Files \cap Committed
      BY <1>0 DEF SetsAfter
    <3>2. \A t \in Files \cap Committed : t \in Times /\ t \in Nat /\ t # now + 1
      BY <1>0, TimesAreNumbers DEF SetsAfter, Files, OfKind
    <3> QED BY <1>0, <3>1, <3>2 DEF Became
  <2>4. \A t \in (Files \cap Committed)' : instants'[t].done \in t + 1 .. now'
    <3>1. \A t \in Files \cap Committed : instants[t].done \in t + 1 .. now
      BY DEF ClockInv
    <3> QED BY <1>1, <2>3, <3>1
  <2>5. \A t, u \in (Files \cap Committed)' : instants'[t].done = instants'[u].done => t = u
    BY <2>3 DEF ClockInv
  <2>6. RolledOff' \subseteq LogFiles'
    BY <1>0 DEF SetsAfter, ClockInv
  <2> QED BY <2>1, <2>2, <2>4, <2>5, <2>6 DEF ClockInv
<1>4. ArchiveInv'
  <2>1. \A a \in InState({"archived"}) : a < now + 1
    BY <1>1, TimesAreNumbers DEF InState, ClockInv
  <2>2. \A a \in InState({"archived"})', u \in (Completed \cup Pending)' : a < u
    BY <1>0, <2>1 DEF SetsAfter, ArchiveInv
  <2>3. (Committed \cap Files # {})' => (Completed \cap Files # {})'
    BY <1>0 DEF SetsAfter, ArchiveInv
  <2>4. ASSUME NEW c \in (Pending \cap OfKind({"compact"}))'
        PROVE  \E u \in (Completed \cap Files)' : u < c
    <3>1. CASE c = now + 1
      <4>1. k = "compact"
        BY <1>0, <1>1, <2>4, <3>1 DEF Became, OfKind
      <4>2. PICK u \in Completed \cap Files : TRUE
        BY <4>1 DEF ArchiveInv
      <4>3. u < now + 1
        <5>1. u \in Times /\ instants[u].kind # "none"
          BY <4>2 DEF Files, OfKind, Commits
        <5>2. u <= now /\ u \in Nat
          BY <5>1, TimesAreNumbers DEF ClockInv
        <5> QED BY <1>1, <5>2
      <4> QED BY <1>0, <3>1, <4>2, <4>3 DEF SetsAfter
    <3>2. CASE c # now + 1
      <4>1. c \in Pending \cap OfKind({"compact"})
        BY <1>0, <2>4, <3>2 DEF SetsAfter, Commits
      <4>2. PICK u \in Completed \cap Files : u < c
        BY <4>1 DEF ArchiveInv
      <4> QED BY <1>0, <4>2 DEF SetsAfter
    <3> QED BY <3>1, <3>2
  <2> QED BY <2>2, <2>3, <2>4 DEF ArchiveInv
<1> QED BY <1>2, <1>3, <1>4

LEMMA RequestTable ==
    ASSUME TypeInv, ClockInv, Evolves, MetadataInv, mdt' = mdt,
           NEW k \in Kinds, NEW o \in SUBSET Times, NEW F, Requested(k, o, F)
    PROVE  MetadataInv'
<1>0. (\A t \in Times : Became(k, o, F, t)) /\ SetsAfter(k, F)
  BY RequestOne, RequestSets
<1>1. \A t \in Times : instants'[t].state = "logged" => instants[t].state = "logged"
  BY <1>0 DEF Became
<1>2. \A t \in Files' \cap InState({"logged", "completed", "archived"})' :
               t \in Files \cap InState({"logged", "completed", "archived"})
  BY <1>0 DEF Became, Files, OfKind, InState
<1>3. \A t \in Times : instants'[t].state = "gone" => instants[t].state = "gone"
  BY <1>0 DEF Became
<1> QED BY <1>1, <1>2, <1>3, EvolvesTable

(* What the new instant speaks of is the only thing that can go wrong. *)
LEMMA RequestOver ==
    ASSUME TypeInv, ClockInv, OverInv, Evolves,
           NEW k \in Kinds, NEW o \in SUBSET Times, NEW F, Requested(k, o, F),
           k = "insert" => now = 0 /\ o = {1},
           k \in Commits => OfKind({"insert"}) \subseteq Committed,
           k = "compact" => o = Writes \cap Committed,
           k = "rollback" => o \subseteq RolledOff',
           k = "clean" => \A f \in o : f \in Files \cap Committed /\ Superfluous(f)'
    PROVE  OverInv'
<1>0. (\A t \in Times : Became(k, o, F, t)) /\ SetsAfter(k, F)
  BY RequestOne, RequestSets
<1>1. now \in Nat /\ now + 1 \in Times /\ now' = now + 1
  BY DEF TypeInv, Requested
<1>2. \A t \in Files \cap Committed : t \in Times /\ t \in Nat
        /\ instants'[t].done = instants[t].done /\ instants[t].done \in t + 1 .. now
  BY <1>0, TimesAreNumbers DEF Became, SetsAfter, ClockInv, Files, OfKind
<1>3. \A t \in OfKind({"insert"})' : t = 1 /\ instants'[t].over = {1}
  <2>1. ASSUME NEW t \in OfKind({"insert"})'
        PROVE  t = 1 /\ instants'[t].over = {1}
    <3>1. t \in Times
      BY DEF OfKind
    <3>2. CASE t = now + 1
      BY <1>0, <2>1, <3>1, <3>2 DEF Became, OfKind
    <3>3. CASE t # now + 1
      BY <1>0, <2>1, <3>1, <3>3 DEF Became, OfKind, OverInv
    <3> QED BY <3>2, <3>3
  <2> QED BY <2>1
<1>4. ASSUME NEW i \in OfKind({"insert"})', NEW t \in Files'
      PROVE  t = i \/ (i \in Committed' /\ instants'[i].done < t)
  <2>1. i \in Times /\ t \in Times
    BY DEF OfKind, Files
  <2>2. CASE t # now + 1 /\ i # now + 1
    <3>1. i \in OfKind({"insert"}) /\ t \in Files
      BY <1>0, <2>1, <2>2 DEF Became, OfKind, Files
    <3>2. instants'[i].done = instants[i].done
      BY <1>0, <2>1, <2>2 DEF Became
    <3> QED BY <1>0, <3>1, <3>2 DEF SetsAfter, OverInv
  <2>3. CASE i = now + 1
    <3>1. k = "insert"
      BY <1>0, <2>1, <2>3 DEF Became, OfKind
    <3>2. t = now + 1
      <4>1. SUFFICES ASSUME t # now + 1 PROVE FALSE
        OBVIOUS
      <4>2. instants[t].kind # "none"
        BY <1>0, <2>1, <4>1 DEF Became, Files, OfKind, Commits
      <4>3. t <= 0
        BY <2>1, <3>1, <4>2 DEF ClockInv
      <4> QED BY <2>1, <4>3, TimesAreNumbers
    <3> QED BY <2>3, <3>2
  <2>4. CASE t = now + 1 /\ i # now + 1
    <3>1. i \in OfKind({"insert"}) /\ k \in Commits
      BY <1>0, <2>1, <2>4 DEF Became, OfKind, Files
    <3>2. i \in Committed /\ i \in Files
      BY <3>1 DEF Files, OfKind, Commits
    <3>3. instants'[i].done = instants[i].done /\ instants[i].done \in i + 1 .. now /\ i \in Nat
      BY <1>2, <3>2
    <3>4. instants[i].done < now + 1
      BY <1>1, <3>3
    <3> QED BY <1>0, <2>4, <3>2, <3>3, <3>4 DEF SetsAfter
  <2> QED BY <2>2, <2>3, <2>4
<1>5. ASSUME NEW c \in OfKind({"compact"})'
      PROVE  instants'[c].over = {w \in (Writes \cap Committed)' : instants'[w].done < c}
  <2>1. c \in Times
    BY DEF OfKind
  <2>2. (Writes \cap Committed)' = Writes \cap Committed
    BY <1>0 DEF SetsAfter
  <2>3. Writes \cap Committed \subseteq Files \cap Committed
    BY DEF Writes, Files, OfKind, Commits
  <2>4. CASE c = now + 1
    <3>1. instants'[c].over = Writes \cap Committed
      BY <1>0, <2>1, <2>4, <1>5 DEF Became, OfKind
    <3>2. \A w \in Writes \cap Committed : instants'[w].done < c
      BY <1>1, <1>2, <2>3, <2>4
    <3> QED BY <2>2, <3>1, <3>2
  <2>5. CASE c # now + 1
    <3>1. c \in OfKind({"compact"}) /\ instants'[c].over = instants[c].over
      BY <1>0, <1>5, <2>1, <2>5 DEF Became, OfKind
    <3>2. instants[c].over = {w \in Writes \cap Committed : instants[w].done < c}
      BY <3>1 DEF OverInv
    <3> QED BY <1>2, <2>2, <2>3, <3>1, <3>2
  <2> QED BY <2>4, <2>5
<1>6. ASSUME NEW r \in OfKind({"rollback"})'
      PROVE  instants'[r].over \subseteq RolledOff'
  <2>1. r \in Times
    BY DEF OfKind
  <2>2. CASE r = now + 1
    BY <1>0, <1>6, <2>1, <2>2 DEF Became, OfKind
  <2>3. CASE r # now + 1
    BY <1>0, <1>6, <2>1, <2>3 DEF Became, SetsAfter, OfKind, OverInv
  <2> QED BY <2>2, <2>3
<1>7. ASSUME NEW x \in OfKind({"clean"})', NEW f \in instants'[x].over
      PROVE  f \in (Files \cap Committed)' /\ Superfluous(f)'
  <2>1. x \in Times
    BY DEF OfKind
  <2>2. CASE x = now + 1
    BY <1>0, <1>7, <2>1, <2>2 DEF Became, SetsAfter, OfKind
  <2>3. CASE x # now + 1
    <3>1. f \in Files \cap Committed /\ Superfluous(f)
      BY <1>0, <1>7, <2>1, <2>3 DEF Became, OfKind, OverInv
    <3> QED BY <3>1, EvolvesSets
  <2> QED BY <2>2, <2>3
<1> QED BY <1>3, <1>4, <1>5, <1>6, <1>7 DEF OverInv

(* What is left to show of a request. *)
LEMMA RequestInv ==
    ASSUME IndInv, NEW k \in Kinds, NEW o \in SUBSET Times, NEW F,
           Requested(k, o, F), mdt' = mdt, reader' = reader,
           cleaned' \in Nat, cleaned <= cleaned',
           reader.pc # "closed" => \/ cleaned' = cleaned
                                   \/ cleaned' \in reader.seen /\ cleaned' <= reader.asOf,
           k = "insert" => now = 0 /\ o = {1},
           k \in Commits => OfKind({"insert"}) \subseteq Committed,
           k = "compact" => o = Writes \cap Committed /\ Committed \cap Files # {},
           k = "rollback" => o \subseteq RolledOff',
           k = "clean" => \A f \in o : f \in Files \cap Committed /\ Superfluous(f)',
           bases' \in SUBSET Times, logs' \in SUBSET Times, Evolves => FilesInv'
    PROVE  IndInv'
<1>1. TypeInv /\ ClockInv /\ OverInv /\ ArchiveInv /\ MetadataInv /\ ReaderInv
  BY DEF IndInv, WritersInv
<1>2. Evolves /\ ClockInv' /\ ArchiveInv'
  BY <1>1, RequestKeeps
<1>3. MetadataInv'
  BY <1>1, <1>2, RequestTable
<1>4. OverInv'
  BY <1>1, <1>2, RequestOver
<1>5. ReaderInv'
  BY <1>1, <1>2, EvolvesReader
<1>6. TypeInv'
  BY DEF TypeInv, Requested, Times
<1> QED BY <1>2, <1>3, <1>4, <1>5, <1>6 DEF IndInv, WritersInv

LEMMA InsertInv ==
    ASSUME IndInv, Insert
    PROVE  IndInv'
<1>1. TypeInv /\ ClockInv /\ FilesInv
  BY DEF IndInv, WritersInv
<1>2. PICK k, o, F : k = "insert" /\ o = {1} /\ F = {}
  OBVIOUS
<1>3. k \in Kinds /\ o \in SUBSET Times /\ Requested(k, o, F)
  <2>1. k \in Kinds /\ o \in SUBSET Times /\ MayRequest /\ Request(k, o)
    BY <1>2, TimesAreNumbers DEF Insert, Kinds
  <2> QED BY <1>1, <1>2, <2>1, RequestProps
<1>4. now = 0 /\ bases' = {1} /\ logs' = logs /\ cleaned' = cleaned
      /\ mdt' = mdt /\ reader' = reader
  BY DEF Insert
<1>5. ASSUME NEW t \in Times PROVE instants[t].kind = "none"
  BY <1>1, <1>4, TimesAreNumbers DEF ClockInv
<1>6. Files = {} /\ BaseFiles = {} /\ LogFiles = {} /\ OfKind({"insert"}) = {}
  BY <1>5 DEF Files, BaseFiles, LogFiles, OfKind, Commits
<1>7. bases = {} /\ logs = {} /\ cleaned = 0
  BY <1>1, <1>6 DEF FilesInv
<1>8. SetsAfter(k, F)
  BY <1>1, <1>3, RequestSets
<1>9. BaseFiles' = {1} /\ LogFiles' = {}
  BY <1>2, <1>4, <1>6, <1>8 DEF SetsAfter
<1>10. FilesInv'
  BY <1>4, <1>7, <1>9 DEF FilesInv
<1>11. bases' \in SUBSET Times /\ logs' \in SUBSET Times /\ cleaned' \in Nat /\ cleaned <= cleaned'
  BY <1>1, <1>4, TimesAreNumbers DEF TypeInv
<1> QED BY <1>2, <1>3, <1>4, <1>6, <1>10, <1>11, RequestInv

LEMMA WriteInv ==
    ASSUME IndInv, Write
    PROVE  IndInv'
<1>1. TypeInv /\ ClockInv /\ FilesInv
  BY DEF IndInv, WritersInv
<1>2. PICK k, o, F : k = "write" /\ o = {now + 1} /\ F = {}
  OBVIOUS
<1>3. k \in Kinds /\ o \in SUBSET Times /\ Requested(k, o, F)
  <2>1. k \in Kinds /\ now < MaxTime /\ MayRequest /\ Request(k, o)
    BY <1>2 DEF Write, Kinds, MayRequest
  <2>2. o \in SUBSET Times
    BY <1>1, <1>2, <2>1, TableListingAssumption DEF TypeInv, Times
  <2> QED BY <1>1, <1>2, <2>1, <2>2, RequestProps
<1>4. logs' = logs \cup {now + 1} /\ bases' = bases /\ cleaned' = cleaned
      /\ mdt' = mdt /\ reader' = reader
  BY DEF Write
<1>5. OfKind({"insert"}) \subseteq Committed
  <2>1. ASSUME NEW i \in OfKind({"insert"}) PROVE i \in Committed
    <3>1. i \in Times /\ instants[i].kind = "insert" /\ instants[i] \in Instant
      BY <1>1 DEF OfKind, TypeInv
    <3>2. i \notin Pending /\ i \notin RolledOff /\ instants[i].state # "none"
      BY <1>1, <3>1 DEF Write, ClockInv, LogFiles, OfKind
    <3> QED BY <3>1, <3>2 DEF Pending, Committed, RolledOff, InState, Instant
  <2> QED BY <2>1
<1>6. SetsAfter(k, F)
  BY <1>1, <1>3, RequestSets
<1>7. ASSUME Evolves PROVE FilesInv'
  <2>1. /\ BaseFiles' = BaseFiles /\ LogFiles' = LogFiles \cup {now + 1}
        /\ RolledOff' = RolledOff /\ now + 1 \notin RolledOff /\ Committed' = Committed
        /\ OfKind({"compact"})' = OfKind({"compact"})
    BY <1>2, <1>6 DEF SetsAfter, Commits
  <2>2. \A l \in LogFiles \ RolledOff : l \in logs \/ Superfluous(l)'
    BY <1>1, <1>7, EvolvesSets DEF FilesInv, LogFiles, Files, OfKind, Commits
  <2> QED BY <1>1, <1>4, <2>1, <2>2 DEF FilesInv
<1>8. bases' \in SUBSET Times /\ logs' \in SUBSET Times /\ cleaned' \in Nat /\ cleaned <= cleaned'
  BY <1>1, <1>2, <1>3, <1>4 DEF TypeInv
<1> QED BY <1>2, <1>3, <1>4, <1>5, <1>7, <1>8, RequestInv

LEMMA CompactInv ==
    ASSUME IndInv, Compact
    PROVE  IndInv'
<1>1. TypeInv /\ ClockInv /\ FilesInv /\ OverInv
  BY DEF IndInv, WritersInv
<1>2. PICK k, o, F : k = "compact" /\ o = Writes \cap Committed /\ F = {}
  OBVIOUS
<1>3. k \in Kinds /\ o \in SUBSET Times /\ Requested(k, o, F)
  <2>1. k \in Kinds /\ o \in SUBSET Times /\ MayRequest /\ Request(k, o)
    BY <1>2 DEF Compact, Kinds, Writes, OfKind
  <2> QED BY <1>1, <1>2, <2>1, RequestProps
<1>4. logs' = logs /\ bases' = bases \cup {now + 1} /\ cleaned' = cleaned
      /\ mdt' = mdt /\ reader' = reader
  BY DEF Compact
<1>5. PICK w : w \in Writes \cap Committed
  BY DEF Compact
<1>6. w \in Committed \cap Files
  BY <1>5 DEF Writes, Files, OfKind, Commits
<1>7. OfKind({"insert"}) \subseteq Committed
  BY <1>1, <1>6 DEF OverInv
<1>8. SetsAfter(k, F)
  BY <1>1, <1>3, RequestSets
<1>9. ASSUME Evolves PROVE FilesInv'
  <2>1. /\ BaseFiles' = BaseFiles \cup {now + 1} /\ LogFiles' = LogFiles
        /\ RolledOff' = RolledOff /\ Committed' = Committed
        /\ OfKind({"compact"}) \subseteq OfKind({"compact"})'
    BY <1>2, <1>8 DEF SetsAfter, Commits
  <2>2. \A l \in LogFiles \ RolledOff : l \in logs \/ Superfluous(l)'
    BY <1>1, <1>9, EvolvesSets DEF FilesInv, LogFiles, Files, OfKind, Commits
  <2> QED BY <1>1, <1>4, <2>1, <2>2 DEF FilesInv
<1>10. bases' \in SUBSET Times /\ logs' \in SUBSET Times /\ cleaned' \in Nat /\ cleaned <= cleaned'
  BY <1>1, <1>3, <1>4 DEF TypeInv, Requested
<1> QED BY <1>2, <1>3, <1>4, <1>6, <1>7, <1>9, <1>10, RequestInv

LEMMA GreaterOfTwo ==
    ASSUME NEW a \in Nat, NEW b \in Nat
    PROVE  Max({a, b}) = IF a <= b THEN b ELSE a
<1>1. \E x \in {a, b} : \A y \in {a, b} : x >= y
  OBVIOUS
<1>2. Max({a, b}) \in {a, b} /\ \A y \in {a, b} : Max({a, b}) >= y
  BY <1>1 DEF Max
<1> QED BY <1>2

LEMMA CleanInv ==
    ASSUME IndInv, Clean
    PROVE  IndInv'
<1>1. TypeInv /\ ClockInv /\ FilesInv /\ OverInv
  BY DEF IndInv, WritersInv
<1>2. PICK c \in Committed \cap OfKind({"compact"}) :
        /\ reader.pc # "closed" => c \in reader.seen /\ c <= reader.asOf
        /\ MayRequest /\ Request("clean", Superseded(c) \cap Committed)
        /\ bases' = bases \ Superseded(c) /\ logs' = logs \ Superseded(c)
        /\ cleaned' = Max({cleaned, c})
        /\ mdt' = mdt /\ reader' = reader
  BY DEF Clean
<1>3. PICK S, k, o, F : S = Superseded(c) /\ k = "clean" /\ o = S \cap Committed /\ F = {}
  OBVIOUS
<1>4. k \in Kinds /\ o \in SUBSET Times /\ Requested(k, o, F)
  <2>1. k \in Kinds /\ o \in SUBSET Times /\ MayRequest /\ Request(k, o)
    BY <1>2, <1>3 DEF Kinds, Committed, InState
  <2> QED BY <1>1, <1>3, <2>1, RequestProps
<1>5. c \in Times /\ c \in Nat /\ cleaned \in Nat
  BY <1>1, TimesAreNumbers DEF OfKind, TypeInv
<1>6. cleaned' = (IF cleaned <= c THEN c ELSE cleaned)
  BY <1>2, <1>5, GreaterOfTwo
<1>7. cleaned' \in Nat /\ cleaned <= cleaned' /\ c <= cleaned'
  BY <1>5, <1>6
<1>8. SetsAfter(k, F)
  BY <1>1, <1>4, RequestSets
<1>9. reader.pc # "closed" => \/ cleaned' = cleaned
                              \/ cleaned' \in reader.seen /\ cleaned' <= reader.asOf
  BY <1>2, <1>6
<1>10. \A f \in S : \/ f \in bases /\ f \in BaseFiles /\ f < c
                    \/ f \in logs \cap LogFiles \cap Committed /\ instants[f].done < c
  BY <1>1, <1>3 DEF Superseded, FilesInv
<1>11. BaseFiles \subseteq Times /\ LogFiles \subseteq Times
       /\ BaseFiles \subseteq Files /\ LogFiles \subseteq Files
       /\ \A b \in BaseFiles : b \in Nat /\ instants[b].kind \in {"insert", "compact"}
       /\ \A l \in LogFiles : instants[l].kind = "write" /\ instants[l].done \in Nat
  BY <1>1, TimesAreNumbers DEF BaseFiles, LogFiles, Files, OfKind, Commits, TypeInv, Instant
<1>12. \A f \in BaseFiles \cup LogFiles : f \in Times /\ f # now + 1
  BY <1>8, <1>11 DEF SetsAfter
<1>13. \A f \in BaseFiles \cup LogFiles : /\ instants'[f].kind = instants[f].kind
                                           /\ instants'[f].done = instants[f].done
  <2>1. \A f \in Times : Became(k, o, F, f)
    BY <1>1, <1>4, RequestOne
  <2> QED BY <1>12, <2>1 DEF Became
<1>14. Committed' = Committed
  BY <1>8 DEF SetsAfter
<1>15. \A b \in BaseFiles : b < c => Superfluous(b)' /\ b < cleaned'
  BY <1>5, <1>7, <1>11, <1>13 DEF Superfluous, IsBase
<1>16. \A l \in LogFiles \cap Committed : instants[l].done < c => Superfluous(l)'
  <2>1. SUFFICES ASSUME NEW l \in LogFiles \cap Committed, instants[l].done < c
                 PROVE  Superfluous(l)'
    OBVIOUS
  <2>5. l \in LogFiles /\ l \in Committed
    BY <2>1
  <2>6. instants[l].kind = "write" /\ instants[l].done \in Nat
    BY <1>1, <2>5 DEF LogFiles, OfKind, TypeInv, Instant
  <2>7. instants'[l].kind = instants[l].kind /\ instants'[l].done = instants[l].done
    BY ONLY <1>13, <2>5
  <2>2. instants'[l].kind = "write" /\ instants'[l].done = instants[l].done /\ l \in Committed'
    BY <1>14, <2>5, <2>6, <2>7
  <2>8. PICK d : d = instants[l].done
    OBVIOUS
  <2>9. d \in Nat /\ d < c /\ c \in Nat /\ cleaned' \in Nat /\ c <= cleaned'
    BY <1>5, <1>7, <2>1, <2>6, <2>8
  <2>3. instants'[l].done < cleaned'
    BY <2>7, <2>8, <2>9
  <2>4. ~IsBase(l)'
    BY <2>2 DEF IsBase
  <2> QED BY <2>2, <2>3, <2>4 DEF Superfluous
<1>17. \A f \in o : f \in Files \cap Committed /\ Superfluous(f)'
  BY <1>3, <1>10, <1>11, <1>15, <1>16
<1>18. ASSUME Evolves PROVE FilesInv'
  <2>1. /\ BaseFiles' = BaseFiles /\ LogFiles' = LogFiles /\ RolledOff' = RolledOff
        /\ OfKind({"compact"})' = OfKind({"compact"})
    BY <1>3, <1>8 DEF SetsAfter, Commits
  <2>2. \A b \in BaseFiles : b \in bases' \/ b < cleaned'
    <3>1. ASSUME NEW b \in BaseFiles, b \notin bases' PROVE b < cleaned'
      <4>1. CASE b \in bases
        <5>1. b \in S
          BY <1>2, <1>3, <3>1, <4>1
        <5>2. b < c
          BY <1>10, <1>11, <5>1
        <5> QED BY <1>15, <5>2
      <4>2. CASE b \notin bases
        BY <1>1, <1>5, <1>7, <1>11, <4>2 DEF FilesInv
      <4> QED BY <4>1, <4>2
    <3> QED BY <3>1
  <2>3. \A l \in LogFiles \ RolledOff : l \in logs' \/ Superfluous(l)'
    <3>1. ASSUME NEW l \in LogFiles \ RolledOff, l \notin logs' PROVE Superfluous(l)'
      <4>1. CASE l \in logs
        <5>1. l \in S
          BY <1>2, <1>3, <3>1, <4>1
        <5>2. l \in Committed /\ instants[l].done < c
          BY <1>10, <1>11, <5>1
        <5> QED BY <1>16, <5>2
      <4>2. CASE l \notin logs
        BY <1>1, <1>11, <1>18, <4>2, EvolvesSets DEF FilesInv
      <4> QED BY <4>1, <4>2
    <3> QED BY <3>1
  <2>4. bases' \subseteq BaseFiles /\ logs' \subseteq LogFiles \ RolledOff
    BY <1>1, <1>2 DEF FilesInv
  <2>5. cleaned' # 0 => cleaned' \in bases' \cap Committed \cap OfKind({"compact"})
    <3>1. c \in BaseFiles /\ c \notin LogFiles
      BY DEF BaseFiles, LogFiles, OfKind
    <3>2. CASE cleaned <= c
      <4>1. c \in bases
        BY <1>1, <1>5, <3>1, <3>2 DEF FilesInv
      <4>2. c \notin S
        BY <1>5, <1>10, <3>1
      <4> QED BY <1>2, <1>3, <1>6, <3>2, <4>1, <4>2
    <3>3. CASE ~(cleaned <= c)
      <4>1. cleaned \in bases \cap Committed \cap OfKind({"compact"})
        BY <1>1, <1>5, <3>3 DEF FilesInv
      <4>2. cleaned \notin LogFiles
        BY <4>1 DEF LogFiles, OfKind
      <4>3. cleaned \notin S
        BY <1>5, <1>10, <3>3, <4>2
      <4> QED BY <1>2, <1>3, <1>6, <3>3, <4>1, <4>3
    <3> QED BY <3>2, <3>3
  <2> QED BY <1>14, <2>1, <2>2, <2>3, <2>4, <2>5 DEF FilesInv
<1>19. bases' \in SUBSET Times /\ logs' \in SUBSET Times
  BY <1>1, <1>2 DEF TypeInv
<1>20. k \notin Commits /\ k # "rollback" /\ k # "insert" /\ k # "compact"
  BY <1>3 DEF Commits
<1>21. mdt' = mdt /\ reader' = reader
  BY <1>2
<1> QED BY <1>4, <1>7, <1>9, <1>17, <1>18, <1>19, <1>20, <1>21, RequestInv

LEMMA RollbackInv ==
    ASSUME IndInv, Rollback
    PROVE  IndInv'
<1>1. TypeInv /\ ClockInv /\ FilesInv
  BY DEF IndInv, WritersInv
<1>2. PICK t \in Running \cap OfKind({"write"}) :
        /\ now < MaxTime /\ now' = now + 1
        /\ instants' = [instants EXCEPT ![t].state = "failed",
                                        ![now + 1] = Requesting("rollback", {t})]
        /\ logs' = logs \ {t}
        /\ cleaned' = cleaned /\ bases' = bases /\ mdt' = mdt /\ reader' = reader
  BY DEF Rollback, MayRequest
<1>3. PICK k, o, F : k = "rollback" /\ o = {t} /\ F = {t}
  OBVIOUS
<1>4. t \in Times /\ t \in LogFiles /\ t \in Running /\ instants[t].kind = "write"
      /\ instants[t].state \in {"open", "logged"}
  BY DEF Running, InState, OfKind, LogFiles
<1>5. now + 1 \in Times /\ instants[now + 1].kind = "none" /\ instants[now + 1].state = "none"
  <2>1. now + 1 \in Times
    BY <1>1, <1>2, TableListingAssumption DEF TypeInv, Times
  <2>2. instants[now + 1].kind = "none"
    BY <1>1, <2>1 DEF ClockInv, TypeInv
  <2> QED BY <1>1, <2>1, <2>2 DEF ClockInv
<1>6. k \in Kinds /\ o \in SUBSET Times /\ Requested(k, o, F)
  <2>1. t # now + 1
    BY <1>4, <1>5
  <2>2. PICK q : q = [kind |-> k, state |-> "open", done |-> 0, over |-> o]
    OBVIOUS
  <2>3. q = Requesting("rollback", {t}) /\ q \in Instant
    BY <1>3, <1>4, <2>2 DEF Requesting, NoTime, Instant
  <2>4. PICK p : p = [instants[t] EXCEPT !.state = "failed"]
    OBVIOUS
  <2>5. instants[t] \in Instant /\ instants \in [Times -> Instant]
    BY <1>1, <1>4 DEF TypeInv
  <2>6. p \in Instant
    BY <2>4, <2>5 DEF Instant
  <2>7. instants' = [[instants EXCEPT ![t] = p] EXCEPT ![now + 1] = q]
    BY <1>2, <2>3, <2>4
  <2>8. instants' \in [Times -> Instant]
    BY <1>4, <1>5, <2>3, <2>5, <2>6, <2>7
  <2>9. instants'[now + 1] = q /\ instants'[t] = p
        /\ \A u \in Times : u # now + 1 /\ u \notin F => instants'[u] = instants[u]
    BY <1>3, <1>4, <1>5, <2>1, <2>5, <2>7
  <2>10. k \in Kinds /\ o \in SUBSET Times
    BY <1>3, <1>4 DEF Kinds
  <2> QED BY <1>2, <1>3, <1>4, <1>5, <2>2, <2>4, <2>8, <2>9, <2>10 DEF Requested
<1>7. SetsAfter(k, F)
  BY <1>1, <1>6, RequestSets
<1>8. o \subseteq RolledOff'
  BY <1>3, <1>7 DEF SetsAfter
<1>9. ASSUME Evolves PROVE FilesInv'
  <2>1. /\ BaseFiles' = BaseFiles /\ LogFiles' = LogFiles
        /\ RolledOff' = RolledOff \cup {t} /\ Committed' = Committed
        /\ OfKind({"compact"})' = OfKind({"compact"})
    BY <1>3, <1>7 DEF SetsAfter, Commits
  <2>2. \A l \in LogFiles \ RolledOff : l \in logs \/ Superfluous(l)'
    BY <1>1, <1>9, EvolvesSets DEF FilesInv, LogFiles, Files, OfKind, Commits
  <2> QED BY <1>1, <1>2, <2>1, <2>2 DEF FilesInv
<1>10. bases' \in SUBSET Times /\ logs' \in SUBSET Times /\ cleaned' \in Nat /\ cleaned <= cleaned'
  BY <1>1, <1>2 DEF TypeInv
<1>11. k \notin Commits /\ k # "clean" /\ k # "insert" /\ k # "compact"
  BY <1>3 DEF Commits
<1>12. mdt' = mdt /\ reader' = reader /\ cleaned' = cleaned
  BY <1>2
<1> QED BY <1>6, <1>8, <1>9, <1>10, <1>11, <1>12, RequestInv

-----------------------------------------------------------------------------
(* Steps of an instant that has been requested. *)

(* Only states change, and completion times of what was not committed. *)
StateStep ==
    /\ now' \in Nat /\ now <= now' /\ now' <= MaxTime
    /\ instants' \in [Times -> Instant]
    /\ \A t \in Times : /\ instants'[t].kind = instants[t].kind
                        /\ instants'[t].over = instants[t].over
    /\ cleaned' = cleaned /\ bases' = bases /\ logs' = logs /\ reader' = reader

(* The kinds are as they were. *)
LEMMA StateStepKinds ==
    ASSUME StateStep
    PROVE  /\ Files' = Files /\ BaseFiles' = BaseFiles /\ LogFiles' = LogFiles
           /\ Writes' = Writes
           /\ \A c \in Commits \cup {"rollback", "clean"} : OfKind({c})' = OfKind({c})
           /\ \A t \in Times : IsBase(t)' <=> IsBase(t)
<1> USE DEF StateStep, OfKind
<1>1. Files' = Files
  BY DEF Files
<1>2. BaseFiles' = BaseFiles /\ LogFiles' = LogFiles /\ Writes' = Writes
  BY DEF BaseFiles, LogFiles, Writes
<1>3. \A c \in Commits \cup {"rollback", "clean"} : OfKind({c})' = OfKind({c})
  OBVIOUS
<1>4. \A t \in Times : IsBase(t)' <=> IsBase(t)
  BY DEF IsBase
<1> QED BY <1>1, <1>2, <1>3, <1>4

(* What is left to show of such a step. *)
LEMMA StateStepInv ==
    ASSUME IndInv, StateStep, Evolves, ClockInv', ArchiveInv', MetadataInv',
           RolledOff' = RolledOff,
           \A t \in Committed' \cap Files : t \notin Committed => instants'[t].done > now
    PROVE  IndInv'
<1>1. TypeInv /\ ClockInv /\ OverInv /\ FilesInv /\ ReaderInv
  BY DEF IndInv, WritersInv
<1>2. TypeInv'
  BY <1>1 DEF TypeInv, StateStep
<1>3. ReaderInv'
  BY <1>1, EvolvesReader
<1>4. \A f \in Files : Superfluous(f) => Superfluous(f)'
  BY <1>1, EvolvesSets
<1>5. Committed \subseteq Committed'
  BY <1>1, EvolvesSets
<1>6. /\ Files' = Files /\ BaseFiles' = BaseFiles /\ LogFiles' = LogFiles
      /\ Writes' = Writes
      /\ OfKind({"insert"})' = OfKind({"insert"}) /\ OfKind({"compact"})' = OfKind({"compact"})
      /\ OfKind({"rollback"})' = OfKind({"rollback"}) /\ OfKind({"clean"})' = OfKind({"clean"})
  BY StateStepKinds DEF Commits
<1>7. \A t \in Times : instants'[t].over = instants[t].over
  BY DEF StateStep
<1>8. \A t \in Committed : instants'[t].done = instants[t].done
  BY DEF Committed, InState, Evolves
<1>9. FilesInv'
  <2>1. cleaned' = cleaned /\ bases' = bases /\ logs' = logs
    BY DEF StateStep
  <2>2. \A l \in LogFiles \ RolledOff : l \in logs \/ Superfluous(l)'
    BY <1>1, <1>4 DEF FilesInv, LogFiles, Files, OfKind, Commits
  <2> QED BY <1>1, <1>5, <1>6, <2>1, <2>2 DEF FilesInv
<1>10. OverInv'
  <2>1. \A t \in OfKind({"insert"})' : t = 1 /\ instants'[t].over = {1}
    BY <1>1, <1>6, <1>7 DEF OverInv, OfKind
  <2>2. \A i \in OfKind({"insert"})', t \in Files' :
          t = i \/ (i \in Committed' /\ instants'[i].done < t)
    BY <1>1, <1>5, <1>6, <1>8 DEF OverInv
  <2>3. ASSUME NEW c \in OfKind({"compact"})'
        PROVE  instants'[c].over = {w \in (Writes \cap Committed)' : instants'[w].done < c}
    <3>1. c \in Times /\ c \in OfKind({"compact"}) /\ instants[c].kind # "none"
      BY <1>6 DEF OfKind
    <3>2. instants'[c].over = {w \in Writes \cap Committed : instants[w].done < c}
      BY <1>1, <1>7, <3>1 DEF OverInv
    <3>3. c <= now /\ c \in Nat /\ now \in Nat
      BY <1>1, <3>1, TimesAreNumbers DEF ClockInv, TypeInv
    <3>4. \A w \in Writes \cap Committed' :
            w \notin Committed => ~(instants'[w].done < c)
      <4>1. ASSUME NEW w \in Writes \cap Committed', w \notin Committed
            PROVE  ~(instants'[w].done < c)
        <5>1. w \in Files /\ w \in Times
          BY DEF Writes, Files, OfKind, Commits
        <5>2. instants'[w].done > now
          BY <4>1, <5>1
        <5>3. instants'[w].done \in Nat
          BY <5>1 DEF StateStep, Instant
        <5> QED BY <3>3, <5>2, <5>3
      <4> QED BY <4>1
    <3> QED BY <1>5, <1>6, <1>8, <3>2, <3>4
  <2>4. \A r \in OfKind({"rollback"})' : instants'[r].over \subseteq RolledOff'
    BY <1>1, <1>6, <1>7 DEF OverInv, OfKind
  <2>5. ASSUME NEW x \in OfKind({"clean"})', NEW f \in instants'[x].over
        PROVE  f \in (Files \cap Committed)' /\ Superfluous(f)'
    <3>1. x \in OfKind({"clean"}) /\ f \in instants[x].over
      BY <1>6, <1>7, <2>5 DEF OfKind
    <3>2. f \in Files \cap Committed /\ Superfluous(f)
      BY <1>1, <3>1 DEF OverInv
    <3> QED BY <1>4, <1>5, <1>6, <3>2
  <2> QED BY <2>1, <2>2, <2>3, <2>4, <2>5 DEF OverInv
<1> QED BY <1>2, <1>3, <1>9, <1>10 DEF IndInv, WritersInv

LEMMA CompleteCommitInv ==
    ASSUME IndInv, NEW t \in Times, CompleteCommit(t)
    PROVE  IndInv'
<1>1. TypeInv /\ ClockInv /\ ArchiveInv /\ MetadataInv
  BY DEF IndInv, WritersInv
<1>2. /\ instants[t].kind \in Commits /\ instants[t].state = "logged" /\ now < MaxTime
      /\ now' = now + 1
      /\ instants' = [instants EXCEPT ![t].state = "completed", ![t].done = now + 1]
      /\ cleaned' = cleaned /\ bases' = bases /\ logs' = logs /\ mdt' = mdt /\ reader' = reader
  BY DEF CompleteCommit
<1>3. now \in Nat /\ instants \in [Times -> Instant] /\ instants[t] \in Instant
      /\ Times \in SUBSET Nat
  BY <1>1, TimesAreNumbers DEF TypeInv
<1>4. /\ instants'[t].kind = instants[t].kind /\ instants'[t].over = instants[t].over
      /\ instants'[t].state = "completed" /\ instants'[t].done = now + 1
      /\ \A u \in Times : u # t => instants'[u] = instants[u]
      /\ instants' \in [Times -> Instant]
  <2>1. PICK p : p = [instants[t] EXCEPT !.state = "completed"]
    OBVIOUS
  <2>2. p \in Instant /\ p.kind = instants[t].kind /\ p.over = instants[t].over
        /\ p.state = "completed"
    BY <1>3, <2>1 DEF Instant
  <2>3. PICK q : q = [p EXCEPT !.done = now + 1]
    OBVIOUS
  <2>4. q \in Instant /\ q.kind = p.kind /\ q.over = p.over /\ q.state = p.state
        /\ q.done = now + 1
    BY <1>3, <2>2, <2>3 DEF Instant
  <2>5. PICK j : j = [instants EXCEPT ![t] = p]
    OBVIOUS
  <2>6. j \in [Times -> Instant] /\ j[t] = p /\ \A u \in Times : u # t => j[u] = instants[u]
    BY <1>3, <2>2, <2>5
  <2>7. instants' = [j EXCEPT ![t].done = now + 1]
    BY <1>2, <2>1, <2>5
  <2>8. instants' = [j EXCEPT ![t] = q]
    BY <2>3, <2>6, <2>7
  <2>9. instants'[t] = q /\ instants' \in [Times -> Instant]
        /\ \A u \in Times : u # t => instants'[u] = instants[u]
    BY <2>4, <2>6, <2>8
  <2> QED BY <2>2, <2>4, <2>9
<1>5. StateStep
  BY <1>2, <1>3, <1>4, TableListingAssumption DEF StateStep
<1>6. Evolves
  BY <1>1, <1>2, <1>3, <1>4 DEF Evolves, TypeInv
<1>7. Files' = Files /\ LogFiles' = LogFiles /\ OfKind({"compact"})' = OfKind({"compact"})
  BY <1>5, StateStepKinds DEF Commits
<1>8. /\ Committed' = Committed \cup {t} /\ Completed' = Completed \cup {t}
      /\ Pending' = Pending \ {t} /\ t \in Pending /\ t \in Files /\ t \notin Committed
      /\ RolledOff' = RolledOff /\ InState({"archived"})' = InState({"archived"})
  BY <1>2, <1>4 DEF Committed, Completed, Pending, RolledOff, InState, Files, OfKind
<1>9. ClockInv'
  <2>1. \A u \in Times : instants'[u].kind = "none" <=> instants'[u].state = "none"
    BY <1>1, <1>2, <1>4 DEF ClockInv, Commits
  <2>2. \A u \in Times : instants'[u].kind # "none" => u <= now /\ u <= now'
    BY <1>1, <1>2, <1>3, <1>4 DEF ClockInv, Commits
  <2>3. \A u \in Files \cap Committed : u \in Times /\ u # t
          /\ instants'[u].done = instants[u].done /\ instants[u].done \in u + 1 .. now
    BY <1>1, <1>4, <1>8 DEF ClockInv, Files, OfKind
  <2>4. t <= now
    BY <1>2, <1>4, <2>2 DEF Commits
  <2>5. \A u \in Files' \cap Committed' : instants'[u].done \in u + 1 .. now'
    <3>1. ASSUME NEW u \in Files \cap Committed PROVE instants'[u].done \in u + 1 .. now'
      BY <1>2, <1>3, <2>3
    <3>2. instants'[t].done \in t + 1 .. now'
      BY <1>2, <1>3, <1>4, <2>4
    <3> QED BY <1>7, <1>8, <3>1, <3>2
  <2>6. \A u, v \in Files' \cap Committed' : instants'[u].done = instants'[v].done => u = v
    <3>1. \A u \in Files \cap Committed : instants'[u].done # instants'[t].done
      BY <1>3, <1>4, <2>3
    <3>2. \A u, v \in Files \cap Committed : instants'[u].done = instants'[v].done => u = v
      BY <1>1, <2>3 DEF ClockInv
    <3> QED BY <1>7, <1>8, <3>1, <3>2
  <2> QED BY <1>1, <1>7, <1>8, <2>1, <2>2, <2>5, <2>6 DEF ClockInv
<1>10. ArchiveInv'
  BY <1>1, <1>7, <1>8 DEF ArchiveInv
<1>11. MetadataInv'
  <2>1. \A u \in Times : instants'[u].state = "logged" => instants[u].state = "logged"
    BY <1>4
  <2>2. \A u \in Files' \cap InState({"logged", "completed", "archived"})' :
               u \in Files \cap InState({"logged", "completed", "archived"})
    BY <1>2, <1>4, <1>7 DEF InState
  <2>3. \A u \in Times : instants'[u].state = "gone" => instants[u].state = "gone"
    BY <1>4
  <2> QED BY <1>1, <1>2, <1>6, <2>1, <2>2, <2>3, EvolvesTable
<1>12. \A u \in Committed' \cap Files : u \notin Committed => instants'[u].done > now
  BY <1>3, <1>4, <1>8
<1> QED BY <1>5, <1>6, <1>8, <1>9, <1>10, <1>11, <1>12, StateStepInv

LEMMA CompleteServiceInv ==
    ASSUME IndInv, NEW t \in Times, CompleteService(t)
    PROVE  IndInv'
<1>1. TypeInv /\ ClockInv /\ OverInv /\ ArchiveInv /\ MetadataInv
  BY DEF IndInv, WritersInv
<1>2. /\ instants[t].kind \in {"clean", "rollback"} /\ instants[t].state = "logged"
      /\ now' = now
      /\ cleaned' = cleaned /\ bases' = bases /\ logs' = logs /\ mdt' = mdt /\ reader' = reader
  BY DEF CompleteService
<1>3. now \in Nat /\ now <= MaxTime /\ instants \in [Times -> Instant] /\ Times \in SUBSET Nat
  BY <1>1, TableListingAssumption, TimesAreNumbers DEF TypeInv
<1>4. PICK G : G = IF instants[t].kind = "rollback" THEN instants[t].over ELSE {}
  OBVIOUS
<1>5. G \subseteq RolledOff /\ t \notin G
  <2>1. instants[t].kind = "rollback" => instants[t].over \subseteq RolledOff
    BY <1>1 DEF OverInv, OfKind
  <2> QED BY <1>2, <1>4, <2>1 DEF RolledOff, InState
<1>6. \A u \in Times :
        instants'[u] = IF u = t THEN [instants[u] EXCEPT !.state = "completed"]
                       ELSE IF u \in G THEN [instants[u] EXCEPT !.state = "gone"]
                       ELSE instants[u]
  BY <1>4 DEF CompleteService
<1>7. \A u \in Times :
        /\ instants'[u] \in Instant
        /\ instants'[u].kind = instants[u].kind /\ instants'[u].over = instants[u].over
        /\ instants'[u].done = instants[u].done
        /\ instants'[u].state = IF u = t THEN "completed"
                                ELSE IF u \in G THEN "gone" ELSE instants[u].state
  <2>1. ASSUME NEW u \in Times
        PROVE  /\ instants'[u] \in Instant
               /\ instants'[u].kind = instants[u].kind /\ instants'[u].over = instants[u].over
               /\ instants'[u].done = instants[u].done
               /\ instants'[u].state = IF u = t THEN "completed"
                                ELSE IF u \in G THEN "gone" ELSE instants[u].state
    <3>1. instants[u] \in Instant
      BY <1>3
    <3>2. CASE u = t
      BY <1>6, <3>1, <3>2 DEF Instant
    <3>3. CASE u # t /\ u \in G
      BY <1>6, <3>1, <3>3 DEF Instant
    <3>4. CASE u # t /\ u \notin G
      BY <1>6, <3>1, <3>4
    <3> QED BY <3>2, <3>3, <3>4
  <2> QED BY <2>1
<1>8. instants' \in [Times -> Instant]
  <2>1. instants' = [u \in Times |-> instants'[u]]
    BY DEF CompleteService
  <2> QED BY <1>7, <2>1
<1>9. StateStep
  BY <1>2, <1>3, <1>7, <1>8 DEF StateStep
<1>10. \A u \in G : u \in Times /\ instants[u].state \in {"failed", "gone"}
  BY <1>5 DEF RolledOff, InState
<1>11. Evolves
  BY <1>1, <1>2, <1>3, <1>7, <1>10 DEF Evolves, TypeInv
<1>12. Files' = Files /\ LogFiles' = LogFiles /\ OfKind({"compact"})' = OfKind({"compact"})
  BY <1>9, StateStepKinds DEF Commits
<1>13. t \notin Files /\ t \notin OfKind({"compact"})
  BY <1>2 DEF Files, OfKind, Commits
<1>14. Committed' = Committed \cup {t} /\ Completed' = Completed \cup {t}
  BY <1>7, <1>10 DEF Committed, Completed, InState
<1>15. Pending' \subseteq Pending /\ t \in Pending
  BY <1>2, <1>7, <1>10 DEF Pending, InState
<1>16. RolledOff' = RolledOff /\ InState({"archived"})' = InState({"archived"})
  BY <1>2, <1>7, <1>10 DEF RolledOff, InState
<1>17. Files' \cap Committed' = Files \cap Committed
  BY <1>12, <1>13, <1>14
<1>18. ClockInv'
  <2>1. \A u \in Times : instants'[u].kind = "none" <=> instants'[u].state = "none"
    BY <1>1, <1>2, <1>7, <1>10 DEF ClockInv
  <2>2. \A u \in Times : instants'[u].kind # "none" => u <= now'
    BY <1>1, <1>2, <1>7 DEF ClockInv
  <2>3. \A u \in Files \cap Committed : instants'[u].done = instants[u].done
    BY <1>7 DEF Files, OfKind
  <2>4. \A u \in Files' \cap Committed' : instants'[u].done \in u + 1 .. now'
    BY <1>1, <1>2, <1>17, <2>3 DEF ClockInv
  <2>5. \A u, v \in Files' \cap Committed' : instants'[u].done = instants'[v].done => u = v
    BY <1>1, <1>17, <2>3 DEF ClockInv
  <2> QED BY <1>1, <1>12, <1>16, <2>1, <2>2, <2>4, <2>5 DEF ClockInv
<1>19. ArchiveInv'
  <2>1. \A a \in InState({"archived"})', u \in (Completed \cup Pending)' : a < u
    BY <1>1, <1>14, <1>15, <1>16 DEF ArchiveInv
  <2>2. (Committed \cap Files # {})' => (Completed \cap Files # {})'
    BY <1>1, <1>12, <1>14, <1>17 DEF ArchiveInv
  <2>3. \A c \in (Pending \cap OfKind({"compact"}))' : \E u \in (Completed \cap Files)' : u < c
    BY <1>1, <1>12, <1>14, <1>15 DEF ArchiveInv
  <2> QED BY <2>1, <2>2, <2>3 DEF ArchiveInv
<1>20. MetadataInv'
  <2>1. \A u \in Times : instants'[u].state = "logged" => instants[u].state = "logged"
    BY <1>7, <1>10
  <2>2. \A u \in Files' \cap InState({"logged", "completed", "archived"})' :
               u \in Files \cap InState({"logged", "completed", "archived"})
    BY <1>7, <1>10, <1>12, <1>13 DEF InState
  <2>3. ASSUME NEW u \in Times, instants'[u].state = "gone", instants[u].state # "gone"
        PROVE  Buried(mdt, u)'
    <3>1. u \in G
      BY <1>7, <2>3
    <3>2. instants[t].kind = "rollback" /\ u \in instants[t].over
      BY <1>4, <3>1
    <3>3. PICK j \in DOMAIN mdt.blocks : mdt.blocks[j].at = t
      BY <1>1, <1>2 DEF MetadataInv, InState
    <3>4. t \in OfKind({"rollback"})
      BY <3>2 DEF OfKind
    <3>5. Tomb(mdt.blocks[j].files, u)
      BY <1>1, <3>2, <3>3, <3>4 DEF MetadataInv, BlocksFit
    <3>6. \A i \in DOMAIN mdt.blocks : mdt.blocks[i].at = u => i < j
      BY <1>1, <3>2, <3>3, <3>4 DEF MetadataInv
    <3>7. mdt.blocks[j].at \in Committed'
      BY <1>14, <3>3
    <3> QED BY <1>2, <3>5, <3>6, <3>7 DEF Buried
  <2> QED BY <1>1, <1>2, <1>11, <2>1, <2>2, <2>3, EvolvesTable
<1>21. \A u \in Committed' \cap Files : u \notin Committed => instants'[u].done > now
  BY <1>13, <1>14
<1> QED BY <1>9, <1>11, <1>16, <1>18, <1>19, <1>20, <1>21, StateStepInv

LEMMA ArchiveStepInv ==
    ASSUME IndInv, NEW t \in Times, Archive(t)
    PROVE  IndInv'
<1>1. TypeInv /\ ClockInv /\ ArchiveInv /\ MetadataInv
  BY DEF IndInv, WritersInv
<1>2. PICK kept : kept = (Completed \cup Pending) \ {t}
  OBVIOUS
<1>3. /\ t \in Completed /\ (\A u \in kept : t < u)
      /\ kept \cap Completed \cap Files # {}
      /\ \A c \in Pending \cap OfKind({"compact"}) :
           \E u \in kept \cap Completed \cap Files : u < c
      /\ instants' = [instants EXCEPT ![t].state = "archived"]
      /\ now' = now
      /\ cleaned' = cleaned /\ bases' = bases /\ logs' = logs /\ mdt' = mdt /\ reader' = reader
  BY <1>2 DEF Archive, Files, Completed, InState
<1>4. now \in Nat /\ now <= MaxTime /\ instants \in [Times -> Instant] /\ Times \in SUBSET Nat
      /\ instants[t].state = "completed"
  BY <1>1, <1>3, TableListingAssumption, TimesAreNumbers DEF TypeInv, Completed, InState
<1>5. instants' \in [Times -> Instant]
      /\ (\A u \in Times : u # t => instants'[u] = instants[u])
      /\ instants'[t] = [instants[t] EXCEPT !.state = "archived"]
  BY <1>3, <1>4 DEF Instant
<1>6. /\ instants'[t].kind = instants[t].kind /\ instants'[t].over = instants[t].over
      /\ instants'[t].done = instants[t].done /\ instants'[t].state = "archived"
  BY <1>4, <1>5 DEF Instant
<1>7. StateStep
  BY <1>3, <1>4, <1>5, <1>6 DEF StateStep
<1>8. Evolves
  BY <1>1, <1>3, <1>4, <1>5, <1>6 DEF Evolves, TypeInv
<1>9. Files' = Files /\ LogFiles' = LogFiles /\ OfKind({"compact"})' = OfKind({"compact"})
  BY <1>7, StateStepKinds DEF Commits
<1>10. /\ Committed' = Committed /\ Completed' = Completed \ {t} /\ Pending' = Pending
       /\ RolledOff' = RolledOff
       /\ InState({"archived"})' = InState({"archived"}) \cup {t}
  BY <1>4, <1>5, <1>6 DEF Committed, Completed, Pending, RolledOff, InState
<1>11. ClockInv'
  <2>1. \A u \in Times : instants'[u].kind = "none" <=> instants'[u].state = "none"
    BY <1>1, <1>4, <1>5, <1>6 DEF ClockInv
  <2>2. \A u \in Times : instants'[u].kind # "none" => u <= now'
    BY <1>1, <1>3, <1>5, <1>6 DEF ClockInv
  <2>3. \A u \in Files \cap Committed : instants'[u].done = instants[u].done
    BY <1>5, <1>6 DEF Files, OfKind
  <2>4. \A u \in Files' \cap Committed' : instants'[u].done \in u + 1 .. now'
    BY <1>1, <1>3, <1>9, <1>10, <2>3 DEF ClockInv
  <2>5. \A u, v \in Files' \cap Committed' : instants'[u].done = instants'[v].done => u = v
    BY <1>1, <1>9, <1>10, <2>3 DEF ClockInv
  <2> QED BY <1>1, <1>9, <1>10, <2>1, <2>2, <2>4, <2>5 DEF ClockInv
<1>12. ArchiveInv'
  <2>1. kept = Completed' \cup Pending'
    <3>1. t \notin Pending
      BY <1>4 DEF Pending, InState
    <3> QED BY <1>2, <1>10, <3>1
  <2>2. \A a \in InState({"archived"})', u \in (Completed \cup Pending)' : a < u
    BY <1>1, <1>3, <1>10, <2>1 DEF ArchiveInv
  <2>3. (Completed \cap Files # {})'
    BY <1>2, <1>3, <1>9, <1>10
  <2>4. \A c \in (Pending \cap OfKind({"compact"}))' : \E u \in (Completed \cap Files)' : u < c
    BY <1>2, <1>3, <1>9, <1>10
  <2> QED BY <2>2, <2>3, <2>4 DEF ArchiveInv
<1>13. MetadataInv'
  <2>1. \A u \in Times : instants'[u].state = "logged" => instants[u].state = "logged"
    BY <1>5, <1>6
  <2>2. \A u \in Files' \cap InState({"logged", "completed", "archived"})' :
               u \in Files \cap InState({"logged", "completed", "archived"})
    BY <1>4, <1>5, <1>9 DEF InState
  <2>3. \A u \in Times : instants'[u].state = "gone" => instants[u].state = "gone"
    BY <1>5, <1>6
  <2> QED BY <1>1, <1>3, <1>8, <2>1, <2>2, <2>3, EvolvesTable
<1> QED BY <1>7, <1>8, <1>10, <1>11, <1>12, <1>13, StateStepInv

LEMMA LogToMetadataInv ==
    ASSUME IndInv, NEW t \in Times, LogToMetadata(t)
    PROVE  IndInv'
<1>1. TypeInv /\ ClockInv /\ OverInv /\ ArchiveInv /\ MetadataInv
  BY DEF IndInv, WritersInv
<1>2. PICK r : r = IF instants[t].kind \in Commits THEN [f \in {t} |-> FALSE]
                   ELSE [f \in instants[t].over |-> TRUE]
  OBVIOUS
<1>3. /\ instants[t].state = "open"
      /\ instants' = [instants EXCEPT ![t].state = "logged"]
      /\ mdt' = [mdt EXCEPT !.blocks = Append(@, [at |-> t, files |-> r])]
      /\ now' = now
      /\ cleaned' = cleaned /\ bases' = bases /\ logs' = logs /\ reader' = reader
  BY <1>2 DEF LogToMetadata
<1>4. now \in Nat /\ now <= MaxTime /\ instants \in [Times -> Instant] /\ Times \in SUBSET Nat
  BY <1>1, TableListingAssumption, TimesAreNumbers DEF TypeInv
<1>5. instants' \in [Times -> Instant]
      /\ (\A u \in Times : u # t => instants'[u] = instants[u])
      /\ instants'[t] = [instants[t] EXCEPT !.state = "logged"]
  BY <1>3, <1>4 DEF Instant
<1>6. /\ instants'[t].kind = instants[t].kind /\ instants'[t].over = instants[t].over
      /\ instants'[t].done = instants[t].done /\ instants'[t].state = "logged"
  BY <1>4, <1>5 DEF Instant
<1>7. StateStep
  BY <1>3, <1>4, <1>5, <1>6 DEF StateStep
<1>8. Evolves
  BY <1>1, <1>3, <1>4, <1>5, <1>6 DEF Evolves, TypeInv
<1>9. Files' = Files /\ LogFiles' = LogFiles /\ OfKind({"compact"})' = OfKind({"compact"})
      /\ OfKind({"rollback"})' = OfKind({"rollback"})
  BY <1>7, StateStepKinds DEF Commits
<1>10. /\ Committed' = Committed /\ Completed' = Completed /\ Pending' = Pending
       /\ RolledOff' = RolledOff
       /\ InState({"archived"})' = InState({"archived"})
       /\ t \notin Committed /\ t \notin RolledOff /\ instants[t].kind # "none"
  BY <1>1, <1>3, <1>4, <1>5, <1>6 DEF Committed, Completed, Pending, RolledOff, InState, ClockInv
<1>11. ClockInv'
  <2>1. \A u \in Times : instants'[u].kind = "none" <=> instants'[u].state = "none"
    BY <1>1, <1>3, <1>5, <1>6 DEF ClockInv
  <2>2. \A u \in Times : instants'[u].kind # "none" => u <= now'
    BY <1>1, <1>3, <1>5, <1>6 DEF ClockInv
  <2>3. \A u \in Files \cap Committed : instants'[u].done = instants[u].done
    BY <1>5, <1>6 DEF Files, OfKind
  <2>4. \A u \in Files' \cap Committed' : instants'[u].done \in u + 1 .. now'
    BY <1>1, <1>3, <1>9, <1>10, <2>3 DEF ClockInv
  <2>5. \A u, v \in Files' \cap Committed' : instants'[u].done = instants'[v].done => u = v
    BY <1>1, <1>9, <1>10, <2>3 DEF ClockInv
  <2> QED BY <1>1, <1>9, <1>10, <2>1, <2>2, <2>4, <2>5 DEF ClockInv
<1>12. ArchiveInv'
  BY <1>1, <1>9, <1>10 DEF ArchiveInv
<1>13. r \in Record
  <2>1. instants[t].over \in SUBSET Times
    BY <1>4 DEF Instant
  <2>2. CASE instants[t].kind \in Commits
    <3>1. r \in [{t} -> BOOLEAN] /\ {t} \in SUBSET Times
      BY <1>2, <2>2
    <3> QED BY <3>1 DEF Record
  <2>3. CASE instants[t].kind \notin Commits
    <3>1. r \in [instants[t].over -> BOOLEAN]
      BY <1>2, <2>3
    <3> QED BY <2>1, <3>1 DEF Record
  <2> QED BY <2>2, <2>3
<1>14. PICK m, p, n : m = mdt /\ p = mdt' /\ n = Len(m.blocks)
  OBVIOUS
<1>15. m \in Metadata /\ mdt = m /\ mdt' = p
  BY <1>1, <1>14 DEF MetadataInv
<1>16. /\ p \in Metadata /\ p.base = m.base
       /\ n \in Nat /\ DOMAIN m.blocks = 1 .. n /\ DOMAIN p.blocks = 1 .. (n + 1)
       /\ \A i \in 1 .. n : p.blocks[i] = m.blocks[i]
       /\ p.blocks[n + 1].at = t /\ p.blocks[n + 1].files = r
  <2>1. PICK b : b = [at |-> t, files |-> r]
    OBVIOUS
  <2>2. PICK S : S = [at : Times, files : Record]
    OBVIOUS
  <2>3. b \in S
    BY <1>13, <2>1, <2>2
  <2>4. m.blocks \in Seq(S) /\ m.base \in Record /\ m = [base |-> m.base, blocks |-> m.blocks]
    BY <1>15, <2>2 DEF Metadata
  <2>5. p = [m EXCEPT !.blocks = Append(m.blocks, b)]
    BY <1>3, <1>14, <2>1
  <2>6. p = [base |-> m.base, blocks |-> Append(m.blocks, b)]
    BY <1>15, <2>5 DEF Metadata
  <2>7. Append(m.blocks, b) \in Seq(S)
    BY <2>3, <2>4
  <2>8. p \in Metadata /\ p.base = m.base /\ p.blocks = Append(m.blocks, b)
    BY <2>2, <2>4, <2>6, <2>7 DEF Metadata
  <2>9. PICK q : q = m.blocks
    OBVIOUS
  <2>10. n \in Nat /\ n = Len(q) /\ DOMAIN q = 1 .. n /\ q \in Seq(S)
    BY <1>14, <2>4, <2>9
  <2>11. DOMAIN Append(q, b) = 1 .. (n + 1) /\ Append(q, b)[n + 1] = b
         /\ \A i \in 1 .. n : Append(q, b)[i] = q[i]
    BY ONLY <2>10, <2>3
  <2> QED BY <2>1, <2>8, <2>9, <2>10, <2>11
<1>17. \A f \in Times : Live(r, f) <=> f = t /\ t \in Files
  <2>1. CASE instants[t].kind \in Commits
    <3>1. r = [f \in {t} |-> FALSE] /\ t \in Files
      BY <1>2, <2>1 DEF Files, OfKind
    <3> QED BY <3>1 DEF Live
  <2>2. CASE instants[t].kind \notin Commits
    <3>1. r = [f \in instants[t].over |-> TRUE] /\ t \notin Files
      BY <1>2, <2>2 DEF Files, OfKind
    <3> QED BY <3>1 DEF Live
  <2> QED BY <2>1, <2>2
<1>18. t \in OfKind({"rollback"}) => \A f \in instants[t].over : Tomb(r, f)
  BY <1>2 DEF OfKind, Commits, Tomb
<1>19. \A f \in Times : Tomb(r, f) => f \in RolledOff \/ (f \in Files \cap Committed /\ Superfluous(f))
  <2>1. SUFFICES ASSUME NEW f \in Times, Tomb(r, f)
                 PROVE  f \in RolledOff \/ (f \in Files \cap Committed /\ Superfluous(f))
    OBVIOUS
  <2>2. instants[t].kind \notin Commits /\ f \in instants[t].over
    BY <1>2, <2>1 DEF Tomb
  <2>3. instants[t].kind \in {"rollback", "clean"}
    BY <1>4, <1>10, <2>2 DEF Instant, Commits
  <2>4. CASE instants[t].kind = "rollback"
    BY <1>1, <2>2, <2>4 DEF OverInv, OfKind
  <2>5. CASE instants[t].kind = "clean"
    BY <1>1, <2>2, <2>5 DEF OverInv, OfKind
  <2> QED BY <2>3, <2>4, <2>5
<1>20. /\ \A i \in 1 .. n : m.blocks[i].at \in Times
       /\ \A i \in 1 .. n : m.blocks[i].at \notin InState({"none", "open"})
       /\ BlocksFit(m) /\ LiveFit(m) /\ TombsFit(m)
       /\ \A u \in Files \cap InState({"logged", "completed", "archived"}) :
            Superfluous(u) \/ Entered(m, u)
       /\ \A u \in InState({"logged"}) : \E i \in 1 .. n : m.blocks[i].at = u
       /\ \A u \in InState({"gone"}) : Buried(m, u)
  <2>1. \A i \in 1 .. n : m.blocks[i].at \in Times
    BY <1>15, <1>16, BlockProps
  <2> QED BY <1>1, <1>15, <1>16, <2>1 DEF MetadataInv
<1>21. \A i, j \in 1 .. n : m.blocks[j].at \in OfKind({"rollback"})
           /\ m.blocks[i].at \in instants[m.blocks[j].at].over => i < j
  BY <1>1, <1>15, <1>16 DEF MetadataInv
<1>22. BlocksFit(m)' /\ LiveFit(m)' /\ TombsFit(m)'
  BY <1>1, <1>8, <1>15, <1>20, EvolvesMetadata
<1>23. \A f \in Files : Superfluous(f) => Superfluous(f)'
  BY <1>1, <1>8, EvolvesSets
<1>24. \A i \in 1 .. (n + 1) : i \in 1 .. n \/ i = n + 1
  BY <1>16
<1>25. \A i \in 1 .. (n + 1) : p.blocks[i].at \notin InState({"none", "open"})'
  <2>1. \A i \in 1 .. n : m.blocks[i].at \notin InState({"none", "open"})'
    BY <1>5, <1>6, <1>20 DEF InState
  <2>2. t \notin InState({"none", "open"})'
    BY <1>6 DEF InState
  <2> QED BY <1>16, <1>24, <2>1, <2>2
<1>26. BlocksFit(p)'
  <2>1. SUFFICES ASSUME NEW i \in 1 .. (n + 1), NEW u, u = p.blocks[i].at,
                        NEW s, s = p.blocks[i].files
                 PROVE  /\ instants'[u].kind # "none"
                        /\ \A f \in Times : Live(s, f) <=> f = u /\ u \in Files'
                        /\ u \in OfKind({"rollback"})' => \A f \in instants'[u].over : Tomb(s, f)
    BY <1>16 DEF BlocksFit
  <2>2. CASE i \in 1 .. n
    <3>1. u = m.blocks[i].at /\ s = m.blocks[i].files /\ i \in DOMAIN m.blocks
      BY <1>16, <2>1, <2>2
    <3> QED BY <1>22, <3>1 DEF BlocksFit
  <2>3. CASE i = n + 1
    <3>1. u = t /\ s = r
      BY <1>16, <2>1, <2>3
    <3> QED BY <1>6, <1>9, <1>10, <1>17, <1>18, <3>1
  <2> QED BY <1>24, <2>2, <2>3
<1>27. LiveFit(p)'
  BY <1>16, <1>22 DEF LiveFit
<1>28. TombsFit(p)'
  <2>1. SUFFICES ASSUME NEW f \in Times,
                        Tomb(p.base, f) \/ \E i \in 1 .. (n + 1) : Tomb(p.blocks[i].files, f)
                 PROVE  f \in RolledOff' \/ (f \in (Files \cap Committed)' /\ Superfluous(f)')
    BY <1>16 DEF TombsFit
  <2>2. CASE Tomb(r, f)
    BY <1>9, <1>10, <1>19, <1>23, <2>2
  <2>3. CASE ~Tomb(r, f)
    <3>1. Tomb(m.base, f) \/ \E i \in DOMAIN m.blocks : Tomb(m.blocks[i].files, f)
      BY <1>16, <1>24, <2>1, <2>3
    <3> QED BY <1>22, <3>1 DEF TombsFit
  <2> QED BY <2>2, <2>3
<1>29. \A u \in (Files \cap InState({"logged", "completed", "archived"}))' :
         Superfluous(u)' \/ Entered(p, u)
  <2>1. ASSUME NEW u \in (Files \cap InState({"logged", "completed", "archived"}))'
        PROVE  Superfluous(u)' \/ Entered(p, u)
    <3>1. n + 1 \in DOMAIN p.blocks /\ \A i \in DOMAIN m.blocks : i \in DOMAIN p.blocks
                                          /\ p.blocks[i] = m.blocks[i]
      BY <1>16
    <3>2. CASE u = t
      BY <1>16, <3>1, <3>2 DEF Entered
    <3>3. CASE u # t
      <4>1. u \in Files \cap InState({"logged", "completed", "archived"})
        BY <1>5, <1>9, <2>1, <3>3 DEF InState
      <4>2. Entered(m, u) => Entered(p, u)
        BY <1>16, <3>1 DEF Entered
      <4> QED BY <1>20, <1>23, <4>1, <4>2
    <3> QED BY <3>2, <3>3
  <2> QED BY <2>1
<1>30. \A u \in InState({"logged"})' : \E i \in 1 .. (n + 1) : p.blocks[i].at = u
  <2>1. n + 1 \in 1 .. (n + 1) /\ \A i \in 1 .. n : i \in 1 .. (n + 1)
    BY <1>16
  <2>2. \A u \in InState({"logged"})' : u = t \/ u \in InState({"logged"})
    BY <1>5 DEF InState
  <2> QED BY <1>16, <1>20, <2>1, <2>2
<1>31. ASSUME NEW i \in 1 .. (n + 1), NEW j \in 1 .. (n + 1),
              p.blocks[j].at \in OfKind({"rollback"}),
              p.blocks[i].at \in instants[p.blocks[j].at].over
       PROVE  i < j
  <2>1. p.blocks[j].at \in Times /\ p.blocks[i].at \in RolledOff
    BY <1>1, <1>31 DEF OverInv, OfKind
  <2>2. i # n + 1
    BY <1>10, <1>16, <2>1
  <2>3. i \in 1 .. n /\ i \in Nat
    BY <1>24, <2>2
  <2>4. CASE j = n + 1
    BY <1>16, <2>3, <2>4
  <2>5. CASE j \in 1 .. n
    BY <1>16, <1>21, <1>31, <2>3, <2>5
  <2> QED BY <1>24, <2>4, <2>5
<1>32. \A u \in InState({"gone"})' : Buried(p, u)'
  <2>1. ASSUME NEW u \in InState({"gone"})' PROVE Buried(p, u)'
    <3>1. u \in Times /\ u # t /\ u \in InState({"gone"})
      BY <1>5, <1>6 DEF InState
    <3>2. Buried(m, u)'
      BY <1>1, <1>8, <1>15, <1>20, <3>1, EvolvesMetadata
    <3>3. SUFFICES ASSUME NEW i \in 1 .. (n + 1), p.blocks[i].at = u
                   PROVE  \E j \in 1 .. (n + 1) : /\ i < j /\ Tomb(p.blocks[j].files, u)
                                                  /\ p.blocks[j].at \in Committed'
      BY <1>16 DEF Buried
    <3>4. i \in 1 .. n
      BY <1>16, <1>24, <3>1, <3>3
    <3>5. PICK j \in 1 .. n : /\ i < j /\ Tomb(m.blocks[j].files, u)
                              /\ m.blocks[j].at \in Committed'
      BY <1>16, <3>2, <3>3, <3>4 DEF Buried
    <3>6. j \in 1 .. (n + 1)
      BY <1>16
    <3> QED BY <1>16, <3>5, <3>6
  <2> QED BY <2>1
<1>33. MetadataInv'
  <2>1. \A i \in DOMAIN mdt'.blocks : mdt'.blocks[i].at \notin InState({"none", "open"})'
    BY <1>15, <1>16, <1>25
  <2>2. BlocksFit(mdt)' /\ LiveFit(mdt)' /\ TombsFit(mdt)'
    BY <1>15, <1>26, <1>27, <1>28 DEF BlocksFit, LiveFit, TombsFit
  <2>3. \A u \in (Files \cap InState({"logged", "completed", "archived"}))' :
         Superfluous(u)' \/ Entered(mdt, u)'
    BY <1>15, <1>29 DEF Entered
  <2>4. \A u \in InState({"logged"})' : \E i \in DOMAIN mdt'.blocks : mdt'.blocks[i].at = u
    BY <1>15, <1>16, <1>30
  <2>5. ASSUME NEW i \in DOMAIN mdt'.blocks, NEW j \in DOMAIN mdt'.blocks,
               mdt'.blocks[j].at \in OfKind({"rollback"})',
               mdt'.blocks[i].at \in instants'[mdt'.blocks[j].at].over
        PROVE  i < j
    <3>1. i \in 1 .. (n + 1) /\ j \in 1 .. (n + 1)
          /\ p.blocks[j].at \in OfKind({"rollback"})
          /\ p.blocks[i].at \in instants'[p.blocks[j].at].over
      BY <1>9, <1>15, <1>16, <2>5
    <3>2. p.blocks[j].at \in Times
      BY <3>1 DEF OfKind
    <3>3. instants'[p.blocks[j].at].over = instants[p.blocks[j].at].over
      BY <1>7, <3>2 DEF StateStep
    <3> QED BY <1>31, <3>1, <3>3
  <2>6. \A u \in InState({"gone"})' : Buried(mdt, u)'
    BY <1>15, <1>32 DEF Buried
  <2> QED BY <1>15, <1>16, <2>1, <2>2, <2>3, <2>4, <2>5, <2>6 DEF MetadataInv
<1>34. \A u \in Committed' \cap Files : u \notin Committed => instants'[u].done > now
  BY <1>10
<1> QED BY <1>7, <1>8, <1>10, <1>11, <1>12, <1>33, <1>34, StateStepInv

-----------------------------------------------------------------------------
(* Steps that leave the timeline and storage alone. *)

LEMMA WritersStay ==
    ASSUME WritersInv, UNCHANGED <<now, instants, cleaned, bases, logs>>
    PROVE  WritersInv'
<1>1. TypeInv'
  BY DEF WritersInv, TypeInv
<1>2. ClockInv'
  BY DEF WritersInv, ClockInv, InState, OfKind, Files, Committed, RolledOff, LogFiles
<1>3. \A f \in Times : Superfluous(f)' <=> Superfluous(f)
  BY DEF Superfluous, IsBase, Committed, InState
<1>4. OverInv'
  BY <1>3 DEF WritersInv, OverInv, InState, OfKind, Files, Committed, RolledOff, Writes
<1>5. FilesInv'
  BY <1>3 DEF WritersInv, FilesInv, InState, OfKind, BaseFiles, LogFiles, Committed, RolledOff
<1>6. ArchiveInv'
  BY DEF WritersInv, ArchiveInv, InState, OfKind, Completed, Pending, Committed, Files
<1> QED BY <1>1, <1>2, <1>4, <1>5, <1>6 DEF WritersInv

LEMMA TableStays ==
    ASSUME MetadataInv, UNCHANGED <<now, instants, cleaned, mdt>>
    PROVE  MetadataInv'
<1>1. \A f \in Times : Superfluous(f)' <=> Superfluous(f)
  BY DEF Superfluous, IsBase, Committed, InState
<1>2. BlocksFit(mdt)' /\ LiveFit(mdt)' /\ TombsFit(mdt)'
  BY <1>1 DEF MetadataInv, BlocksFit, LiveFit, TombsFit, Files, OfKind, Committed,
              InState, RolledOff
<1>3. \A t \in (Files \cap InState({"logged", "completed", "archived"}))' :
         Superfluous(t)' \/ Entered(mdt, t)'
  BY <1>1 DEF MetadataInv, Entered, Files, OfKind, InState
<1>4. \A t \in InState({"gone"})' : Buried(mdt, t)'
  BY DEF MetadataInv, Buried, InState, Committed
<1> QED BY <1>2, <1>3, <1>4 DEF MetadataInv, InState, OfKind

(* The metadata table is compacted: its log is merged into its base file. *)
LEMMA CompactMetadataInv ==
    ASSUME IndInv, CompactMetadata
    PROVE  IndInv'
<1>1. WritersInv /\ TypeInv /\ ClockInv /\ OverInv /\ MetadataInv /\ ReaderInv
  BY DEF IndInv, WritersInv
<1>2. /\ Pending = {}
      /\ mdt' = [base |-> MergedRecord(mdt, DOMAIN mdt.blocks), blocks |-> << >>]
      /\ now' = now /\ instants' = instants
      /\ cleaned' = cleaned /\ bases' = bases /\ logs' = logs /\ reader' = reader
  BY DEF CompactMetadata
<1>3. WritersInv'
  BY <1>1, <1>2, WritersStay
<1>4. Evolves
  BY <1>1, <1>2 DEF Evolves, TypeInv
<1>5. ReaderInv'
  BY <1>1, <1>4, EvolvesReader
<1>6. PICK m, ps, r : m = mdt /\ ps = DOMAIN m.blocks /\ r = MergedRecord(m, ps)
  OBVIOUS
<1>7. m \in Metadata /\ mdt = m
  BY <1>1, <1>6 DEF MetadataInv
<1>8. /\ r \in Record
      /\ \A f \in Times :
           /\ Live(r, f) =>
                \/ Live(m.base, f)
                \/ \E i \in ps : /\ Live(m.blocks[i].files, f)
                                /\ \A j \in ps : i < j => ~Tomb(m.blocks[j].files, f)
           /\ Tomb(r, f) =>
                Tomb(m.base, f) \/ \E i \in ps : Tomb(m.blocks[i].files, f)
           /\ (/\ \A i \in ps : ~Tomb(m.blocks[i].files, f)
               /\ Live(m.base, f) \/ \E i \in ps : Live(m.blocks[i].files, f))
                => Live(r, f)
  BY <1>6, <1>7, MergedRecordProps
<1>9. /\ \A i \in ps : m.blocks[i].at \in Times /\ m.blocks[i].at \notin InState({"none", "open"})
      /\ BlocksFit(m) /\ LiveFit(m) /\ TombsFit(m)
      /\ \A t \in Files \cap InState({"logged", "completed", "archived"}) :
           Superfluous(t) \/ Entered(m, t)
      /\ \A t \in InState({"gone"}) : Buried(m, t)
  <2>1. \A i \in ps : m.blocks[i].at \in Times
    BY <1>6, <1>7, BlockProps
  <2> QED BY <1>1, <1>6, <1>7, <2>1 DEF MetadataInv
<1>10. \A t \in Times : instants[t].state \in {"none", "completed", "archived", "gone"}
  <2>1. ASSUME NEW t \in Times
        PROVE  instants[t].state \in {"none", "completed", "archived", "gone"}
    <3>1. instants[t] \in Instant
      BY <1>1 DEF TypeInv
    <3>2. t \notin Pending
      BY <1>2
    <3> QED BY <3>1, <3>2 DEF Instant, Pending, InState
  <2> QED BY <2>1
<1>11. ASSUME NEW f \in Times, Live(r, f) PROVE f \in Files \cap Committed
  <2>1. CASE Live(m.base, f)
    BY <1>9, <2>1 DEF LiveFit
  <2>2. CASE \E i \in ps : /\ Live(m.blocks[i].files, f)
                          /\ \A j \in ps : i < j => ~Tomb(m.blocks[j].files, f)
    <3>1. PICK i \in ps : /\ Live(m.blocks[i].files, f)
                          /\ \A j \in ps : i < j => ~Tomb(m.blocks[j].files, f)
      BY <2>2
    <3>2. f = m.blocks[i].at /\ f \in Files
      BY <1>6, <1>9, <3>1 DEF BlocksFit
    <3>3. instants[f].state # "gone"
      BY <1>6, <1>9, <3>1, <3>2 DEF Buried, InState
    <3>4. instants[f].state # "none"
      BY <1>9, <3>1, <3>2 DEF InState
    <3> QED BY <1>10, <3>2, <3>3, <3>4 DEF Committed, InState
  <2> QED BY <1>8, <1>11, <2>1, <2>2
<1>12. ASSUME NEW f \in Times, Tomb(r, f)
       PROVE  f \in RolledOff \/ (f \in Files \cap Committed /\ Superfluous(f))
  BY <1>6, <1>8, <1>9, <1>12 DEF TombsFit
<1>13. ASSUME NEW t \in Files \cap InState({"logged", "completed", "archived"}),
              ~Superfluous(t)
       PROVE  Live(r, t)
  <2>1. t \in Times /\ t \notin RolledOff
    BY DEF InState, RolledOff
  <2>2. ~Tomb(m.base, t) /\ \A i \in ps : ~Tomb(m.blocks[i].files, t)
    BY <1>6, <1>9, <1>13, <2>1 DEF TombsFit
  <2>3. Entered(m, t)
    BY <1>9, <1>13
  <2>4. Live(m.base, t) \/ \E i \in ps : Live(m.blocks[i].files, t)
    <3>1. ASSUME NEW i \in ps, m.blocks[i].at = t PROVE Live(m.blocks[i].files, t)
      BY <1>6, <1>9, <2>1, <3>1 DEF BlocksFit
    <3> QED BY <1>6, <2>3, <3>1 DEF Entered
  <2> QED BY <1>8, <2>1, <2>2, <2>4
<1>14. mdt' = [base |-> r, blocks |-> << >>]
  BY <1>2, <1>6
<1>15. mdt'.base = r /\ DOMAIN mdt'.blocks = {} /\ mdt' \in Metadata
  <2>1. << >> \in Seq([at : Times, files : Record]) /\ DOMAIN << >> = {}
    OBVIOUS
  <2> QED BY <1>8, <1>14, <2>1 DEF Metadata
<1>16. MetadataInv'
  <2>1. \A f \in Times : Superfluous(f)' <=> Superfluous(f)
    BY <1>2 DEF Superfluous, IsBase, Committed, InState
  <2>2. /\ Files' = Files /\ Committed' = Committed /\ RolledOff' = RolledOff
        /\ InState({"logged", "completed", "archived"})' = InState({"logged", "completed", "archived"})
        /\ InState({"logged"})' = {} /\ InState({"gone"})' = InState({"gone"})
    BY <1>2, <1>10 DEF Files, OfKind, Committed, RolledOff, InState
  <2>3. BlocksFit(mdt)' /\ LiveFit(mdt)' /\ TombsFit(mdt)'
    BY <1>11, <1>12, <1>15, <2>1, <2>2 DEF BlocksFit, LiveFit, TombsFit
  <2>4. \A t \in (Files \cap InState({"logged", "completed", "archived"}))' :
         Superfluous(t)' \/ Entered(mdt, t)'
    <3>1. \A t \in Files \cap InState({"logged", "completed", "archived"}) :
            t \in Times
      BY DEF InState
    <3> QED BY <1>13, <1>15, <2>1, <2>2, <3>1 DEF Entered
  <2>5. \A t \in InState({"gone"})' : Buried(mdt, t)'
    BY <1>15 DEF Buried
  <2> QED BY <1>15, <2>2, <2>3, <2>4, <2>5 DEF MetadataInv
<1> QED BY <1>3, <1>5, <1>16 DEF IndInv

-----------------------------------------------------------------------------
(* The reader's steps. *)

LEMMA ReaderStepInv ==
    ASSUME IndInv, UNCHANGED <<now, instants, cleaned, bases, logs, mdt>>, ReaderInv'
    PROVE  IndInv'
BY WritersStay, TableStays DEF IndInv

(* What a reader's step leaves as it was. *)
LEMMA SameSets ==
    ASSUME instants' = instants, cleaned' = cleaned
    PROVE  /\ Files' = Files /\ BaseFiles' = BaseFiles /\ LogFiles' = LogFiles
           /\ Committed' = Committed /\ RolledOff' = RolledOff
           /\ OfKind({"compact"})' = OfKind({"compact"})
           /\ OfKind({"rollback"})' = OfKind({"rollback"})
           /\ \A f \in Times : Superfluous(f)' <=> Superfluous(f)
BY DEF Files, BaseFiles, LogFiles, Committed, RolledOff, OfKind, InState, Superfluous, IsBase

LEMMA LeastTime ==
    ASSUME NEW S \in SUBSET Times, S # {}
    PROVE  Min(S) \in S /\ \A t \in S : Min(S) <= t
<1>1. PICK N \in Nat : Times = 1 .. N
  BY TableListingAssumption DEF Times
<1>2. S \in SUBSET (0 .. N)
  BY <1>1
<1>3. \E x \in S : \A y \in S : x <= y
  BY <1>2, LeastOf
<1> QED BY <1>3 DEF Min

LEMMA OpenInv ==
    ASSUME IndInv, NEW t \in Times, Open(t)
    PROVE  IndInv'
<1>1. TypeInv /\ ClockInv /\ OverInv /\ FilesInv /\ ArchiveInv
  BY DEF IndInv, WritersInv
<1>2. PICK L : L = LoadedActions
  OBVIOUS
<1>3. PICK C, b, s : C = Completed \cap L /\ b = Min((Completed \cup Pending) \cap L) /\ s = Committed
  OBVIOUS
<1>4. /\ C # {} /\ t \in cleaned .. now
      /\ now' = now /\ instants' = instants /\ cleaned' = cleaned
      /\ UNCHANGED <<now, instants, cleaned, bases, logs, mdt>>
      /\ reader' = [NoReader EXCEPT !.pc = "open", !.completed = C, !.boundary = b,
                                    !.seen = s, !.asOf = t]
  BY <1>2, <1>3 DEF Open
<1>5. L \subseteq Files /\ C \subseteq Files \cap Completed /\ C \subseteq Committed
      /\ Files \cap Completed \subseteq C
  BY <1>2, <1>3 DEF LoadedActions, Files, Completed, Committed, Pending, InState
<1>6. Completed \subseteq Times /\ Pending \subseteq Times /\ Committed \subseteq Times
      /\ now \in Nat /\ cleaned \in Nat /\ Times \in SUBSET Nat
  BY <1>1, TimesAreNumbers DEF Completed, Pending, Committed, InState, TypeInv
<1>7. b \in (Completed \cup Pending) \cap L /\ \A u \in (Completed \cup Pending) \cap L : b <= u
  BY <1>3, <1>4, <1>6, LeastTime
<1>8. b \in Nat /\ b <= now
  <2>1. b \in Times /\ instants[b].kind # "none"
    BY <1>5, <1>6, <1>7 DEF Files, OfKind, Commits
  <2> QED BY <1>1, <1>6, <2>1 DEF ClockInv
<1>9. reader' \in Reader /\ reader'.pc = "open" /\ reader'.completed = C
      /\ reader'.boundary = b /\ reader'.seen = s /\ reader'.asOf = t
  <2>1. reader' = [pc |-> "open", completed |-> C, boundary |-> b, asOf |-> t, seen |-> s,
                   mdt |-> << >>, pending |-> {}, viaMdt |-> FALSE, bases |-> {}, logs |-> {}]
    BY <1>4 DEF NoReader
  <2>2. C \in SUBSET Times /\ s \in SUBSET Times /\ t \in Nat
    BY <1>3, <1>6
  <2> QED BY <1>8, <2>1, <2>2 DEF Reader
<1>10. /\ Files' = Files /\ Committed' = Committed
       /\ OfKind({"compact"})' = OfKind({"compact"})
  BY <1>4, SameSets
<1>11. \A u \in Committed \cap Files : u \in C \/ (u < b /\ \A v \in C : u < v)
  <2>1. ASSUME NEW u \in Committed \cap Files, u \notin C
        PROVE  u < b /\ \A v \in C : u < v
    <3>1. u \in InState({"archived"})
      BY <1>5, <2>1 DEF Committed, Completed, InState
    <3>2. \A v \in Completed \cup Pending : u < v
      BY <1>1, <3>1 DEF ArchiveInv
    <3> QED BY <1>5, <1>7, <3>2
  <2> QED BY <2>1
<1>12. ASSUME NEW u \in Files \ Committed
       PROVE  u >= b \/ instants[u].state = "gone"
  <2>1. u \in Times /\ u \in Nat /\ instants[u] \in Instant /\ instants[u].kind # "none"
    BY <1>1, <1>6 DEF Files, OfKind, TypeInv, Commits
  <2>2. instants[u].state \in {"open", "logged", "failed", "gone"}
    BY <1>1, <1>12, <2>1 DEF Committed, InState, ClockInv, Instant
  <2>3. CASE u \in Pending
    <3>1. CASE u \in OfKind({"compact"})
      <4>1. PICK v \in Completed \cap Files : v < u
        BY <1>1, <2>3, <3>1 DEF ArchiveInv
      <4>2. b <= v /\ v \in Nat
        BY <1>3, <1>5, <1>6, <1>7, <4>1
      <4> QED BY <1>8, <2>1, <4>1, <4>2
    <3>2. CASE u \notin OfKind({"compact"})
      <4>1. u \in L
        BY <1>2, <1>12, <3>2 DEF LoadedActions, Files
      <4> QED BY <1>7, <1>8, <2>1, <2>3, <4>1
    <3> QED BY <3>1, <3>2
  <2>4. CASE u \notin Pending
    BY <2>1, <2>2, <2>4 DEF Pending, InState
  <2> QED BY <2>3, <2>4
<1>13. \A c \in Committed \cap OfKind({"compact"}) : instants[c].over \subseteq Committed
  BY <1>1 DEF OverInv
<1>14. cleaned <= t /\ (cleaned # 0 => cleaned \in Committed)
  BY <1>1, <1>4, <1>6 DEF FilesInv
<1>15. LoadedInv'
  BY <1>3, <1>4, <1>5, <1>8, <1>9, <1>10, <1>11, <1>12, <1>13, <1>14 DEF LoadedInv
<1>16. ReaderInv'
  BY <1>9, <1>15 DEF ReaderInv
<1> QED BY <1>4, <1>16, ReaderStepInv

(* The parts of ReaderInv that depend only on what a step leaves alone. *)
LEMMA LoadedStays ==
    ASSUME LoadedInv, now' = now, instants' = instants, cleaned' = cleaned,
           reader'.completed = reader.completed, reader'.seen = reader.seen,
           reader'.boundary = reader.boundary, reader'.asOf = reader.asOf
    PROVE  LoadedInv'
<1>1. Files' = Files /\ Committed' = Committed /\ OfKind({"compact"})' = OfKind({"compact"})
  BY SameSets
<1> QED BY <1>1 DEF LoadedInv

LEMMA CopyStays ==
    ASSUME CopyInv, instants' = instants, cleaned' = cleaned,
           reader'.mdt = reader.mdt, reader'.seen = reader.seen,
           reader'.boundary = reader.boundary
    PROVE  CopyInv'
<1>1. /\ Files' = Files /\ Committed' = Committed /\ RolledOff' = RolledOff
      /\ OfKind({"rollback"})' = OfKind({"rollback"})
      /\ \A f \in Times : Superfluous(f)' <=> Superfluous(f)
  BY SameSets
<1>2. BlocksFit(reader.mdt)' /\ LiveFit(reader.mdt)' /\ TombsFit(reader.mdt)'
  BY <1>1 DEF CopyInv, BlocksFit, LiveFit, TombsFit
<1>3. \A t \in (reader.seen \cap Files)' : Superfluous(t)' \/ Entered(reader.mdt, t)'
  <2>1. \A t \in Files : t \in Times
    BY DEF Files, OfKind
  <2> QED BY <1>1, <2>1 DEF CopyInv, Entered
<1>4. \A t \in (Files \ reader.seen)' : t < reader.boundary' => Buried(reader.mdt, t)'
  BY <1>1 DEF CopyInv, Buried
<1> QED BY <1>2, <1>3, <1>4 DEF CopyInv

LEMMA OpenMetadataInv ==
    ASSUME IndInv, OpenMetadata
    PROVE  IndInv'
<1>1. /\ reader.pc = "open" /\ reader' = [reader EXCEPT !.pc = "mdt", !.mdt = mdt]
      /\ now' = now /\ instants' = instants /\ cleaned' = cleaned
      /\ UNCHANGED <<now, instants, cleaned, bases, logs, mdt>>
  BY DEF OpenMetadata
<1>2. reader \in Reader /\ LoadedInv /\ MetadataInv
  BY <1>1 DEF IndInv, ReaderInv
<1>3. mdt \in Metadata
  BY <1>2 DEF MetadataInv
<1>4. /\ reader' \in Reader /\ reader'.pc = "mdt" /\ reader'.mdt = mdt
      /\ reader'.completed = reader.completed /\ reader'.seen = reader.seen
      /\ reader'.boundary = reader.boundary /\ reader'.asOf = reader.asOf
  BY <1>1, <1>2, <1>3 DEF Reader
<1>5. LoadedInv'
  BY <1>1, <1>2, <1>4, LoadedStays
<1>6. CopyInv'
  <2>1. /\ Files' = Files /\ Committed' = Committed /\ RolledOff' = RolledOff
        /\ OfKind({"rollback"})' = OfKind({"rollback"})
        /\ \A f \in Times : Superfluous(f)' <=> Superfluous(f)
    BY <1>1, SameSets
  <2>2. BlocksFit(mdt) /\ LiveFit(mdt) /\ TombsFit(mdt)
    BY <1>2 DEF MetadataInv
  <2>3. BlocksFit(reader.mdt)' /\ LiveFit(reader.mdt)' /\ TombsFit(reader.mdt)'
    BY <1>1, <1>4, <2>1, <2>2 DEF BlocksFit, LiveFit, TombsFit
  <2>4. \A t \in reader.seen \cap Files : Superfluous(t) \/ Entered(mdt, t)
    <3>1. \A t \in reader.seen \cap Files :
            t \in Files \cap InState({"logged", "completed", "archived"})
      BY <1>2 DEF LoadedInv, Committed, InState
    <3> QED BY <1>2, <3>1 DEF MetadataInv
  <2>5. \A t \in (reader.seen \cap Files)' : Superfluous(t)' \/ Entered(reader.mdt, t)'
    <3>1. \A t \in Files : t \in Times
      BY DEF Files, OfKind
    <3> QED BY <1>4, <2>1, <2>4, <3>1 DEF Entered
  <2>6. \A t \in Files \ reader.seen : t < reader.boundary => Buried(mdt, t)
    <3>1. ASSUME NEW t \in Files \ reader.seen, t < reader.boundary PROVE Buried(mdt, t)
      <4>1. t \in Times /\ t \in Nat /\ reader.boundary \in Nat
        BY <1>2, TimesAreNumbers DEF Files, OfKind, Reader
      <4>2. instants[t].state = "gone"
        BY <1>2, <3>1, <4>1 DEF LoadedInv
      <4> QED BY <1>2, <4>1, <4>2 DEF MetadataInv, InState
    <3> QED BY <3>1
  <2>7. \A t \in (Files \ reader.seen)' : t < reader.boundary' => Buried(reader.mdt, t)'
    BY <1>4, <2>1, <2>6 DEF Buried
  <2> QED BY <1>3, <1>4, <2>3, <2>5, <2>7 DEF CopyInv
<1>7. ReaderInv'
  BY <1>4, <1>5, <1>6 DEF ReaderInv
<1> QED BY <1>1, <1>7, ReaderStepInv

LEMMA ListPendingInv ==
    ASSUME IndInv, ListPending
    PROVE  IndInv'
<1>1. /\ reader.pc = "mdt" /\ reader' = [reader EXCEPT !.pc = "pending", !.pending = Pending]
      /\ now' = now /\ instants' = instants /\ cleaned' = cleaned
      /\ UNCHANGED <<now, instants, cleaned, bases, logs, mdt>>
  BY DEF ListPending
<1>2. reader \in Reader /\ LoadedInv /\ CopyInv
  BY <1>1 DEF IndInv, ReaderInv
<1>3. Pending \in SUBSET Times /\ Pending \cap Committed = {}
  BY DEF Pending, Committed, InState
<1>4. /\ reader' \in Reader /\ reader'.pc = "pending" /\ reader'.mdt = reader.mdt
      /\ reader'.completed = reader.completed /\ reader'.seen = reader.seen
      /\ reader'.boundary = reader.boundary /\ reader'.asOf = reader.asOf
      /\ reader'.pending = Pending
  BY <1>1, <1>2, <1>3 DEF Reader
<1>5. LoadedInv'
  BY <1>1, <1>2, <1>4, LoadedStays
<1>6. CopyInv'
  BY <1>1, <1>2, <1>4, CopyStays
<1>7. PendingInv'
  <2>1. Files' = Files
    BY <1>1, SameSets
  <2>2. Pending \cap reader.seen = {}
    BY <1>2, <1>3 DEF LoadedInv
  <2>3. \A t \in Files \ reader.seen : t < reader.boundary =>
         \A i \in DOMAIN reader.mdt.blocks : reader.mdt.blocks[i].at = t =>
             \E j \in DOMAIN reader.mdt.blocks :
                 /\ i < j /\ Tomb(reader.mdt.blocks[j].files, t)
                 /\ reader.mdt.blocks[j].at \notin Pending
    BY <1>2, <1>3 DEF CopyInv, Buried
  <2> QED BY <1>4, <2>1, <2>2, <2>3 DEF PendingInv
<1>8. ReaderInv'
  BY <1>4, <1>5, <1>6, <1>7 DEF ReaderInv
<1> QED BY <1>1, <1>8, ReaderStepInv

(* The reader tells what was committed when it loaded the timeline. *)
LEMMA CommittedIsSeen ==
    ASSUME LoadedInv, reader \in Reader, NEW t \in Files
    PROVE  /\ t \in reader.seen => IsCommitted(t)
           /\ IsCommitted(t) /\ instants[t].state # "gone" => t \in reader.seen
<1>1. t \in reader.seen => IsCommitted(t)
  BY DEF LoadedInv, IsCommitted
<1>2. ASSUME IsCommitted(t), instants[t].state # "gone", t \notin reader.seen PROVE FALSE
  <2>1. t >= reader.boundary
    BY <1>2 DEF LoadedInv
  <2>2. t \in Nat /\ reader.boundary \in Nat
    BY TimesAreNumbers DEF Files, OfKind, Reader
  <2>3. t \in reader.completed
    BY <1>2, <2>1, <2>2 DEF IsCommitted
  <2> QED BY <1>2, <2>3 DEF LoadedInv
<1> QED BY <1>1, <1>2

(* A listing of storage has enough. *)
LEMMA StorageEnough ==
    ASSUME IndInv, reader.pc # "closed"
    PROVE  Enough({b \in bases : IsCommitted(b)}, {l \in logs : IsCommitted(l)})
<1>1. LoadedInv /\ reader \in Reader /\ FilesInv
  BY DEF IndInv, ReaderInv, WritersInv
<1>2. /\ BaseFiles \subseteq Files /\ LogFiles \subseteq Files
      /\ \A f \in Files : f \in Times /\ (f \in BaseFiles \/ f \in LogFiles)
      /\ \A b \in BaseFiles : IsBase(b) /\ b \notin LogFiles
  BY DEF BaseFiles, LogFiles, Files, OfKind, Commits, IsBase
<1>3. \A b \in bases : IsCommitted(b) => b \in reader.seen \cap BaseFiles
  <2>1. ASSUME NEW b \in bases, IsCommitted(b) PROVE b \in reader.seen \cap BaseFiles
    <3>1. b \in BaseFiles /\ b \in Files
      BY <1>1, <1>2 DEF FilesInv
    <3>2. instants[b].state # "gone"
      <4>1. RolledOff \subseteq LogFiles
        BY DEF IndInv, WritersInv, ClockInv
      <4> QED BY <1>2, <3>1, <4>1 DEF RolledOff, InState
    <3> QED BY <1>1, <2>1, <3>1, <3>2, CommittedIsSeen
  <2> QED BY <2>1
<1>4. \A l \in logs : IsCommitted(l) => l \in reader.seen \cap LogFiles
  <2>1. ASSUME NEW l \in logs, IsCommitted(l) PROVE l \in reader.seen \cap LogFiles
    <3>1. l \in LogFiles /\ l \in Files /\ l \notin RolledOff
      BY <1>1, <1>2 DEF FilesInv
    <3>2. instants[l].state # "gone"
      BY <1>2, <3>1 DEF RolledOff, InState
    <3> QED BY <1>1, <2>1, <3>1, <3>2, CommittedIsSeen
  <2> QED BY <2>1
<1>5. ASSUME NEW f \in reader.seen \cap Files, ~Superfluous(f)
      PROVE  f \in {b \in bases : IsCommitted(b)} \cup {l \in logs : IsCommitted(l)}
  <2>1. IsCommitted(f)
    BY <1>1, CommittedIsSeen
  <2>2. CASE f \in BaseFiles
    BY <1>1, <1>2, <1>5, <2>1, <2>2 DEF FilesInv, Superfluous
  <2>3. CASE f \in LogFiles
    <3>1. f \in Committed
      BY <1>1 DEF LoadedInv
    <3>2. f \notin RolledOff
      BY <3>1 DEF RolledOff, Committed, InState
    <3> QED BY <1>1, <1>5, <2>1, <2>3, <3>2 DEF FilesInv
  <2> QED BY <1>2, <2>2, <2>3
<1> QED BY <1>3, <1>4, <1>5 DEF Enough

(* So has the metadata table. *)
LEMMA MetadataEnough ==
    ASSUME IndInv, reader.pc = "pending"
    PROVE  Enough({f \in MetadataFiles : IsBase(f) /\ IsCommitted(f)},
                  {f \in MetadataFiles : ~IsBase(f) /\ IsCommitted(f)})
<1>1. LoadedInv /\ CopyInv /\ PendingInv /\ reader \in Reader
  BY DEF IndInv, ReaderInv
<1>2. PICK m, ps, r : m = reader.mdt
        /\ ps = {i \in DOMAIN m.blocks : m.blocks[i].at \in ValidInstants}
        /\ r = MergedRecord(m, ps)
  OBVIOUS
<1>3. m \in Metadata /\ BlocksFit(m) /\ LiveFit(m) /\ TombsFit(m)
  BY <1>1, <1>2 DEF CopyInv
<1>4. /\ r \in Record
      /\ \A f \in Times :
           /\ Live(r, f) =>
                \/ Live(m.base, f)
                \/ \E i \in ps : /\ Live(m.blocks[i].files, f)
                                /\ \A j \in ps : i < j => ~Tomb(m.blocks[j].files, f)
           /\ Tomb(r, f) =>
                Tomb(m.base, f) \/ \E i \in ps : Tomb(m.blocks[i].files, f)
           /\ (/\ \A i \in ps : ~Tomb(m.blocks[i].files, f)
               /\ Live(m.base, f) \/ \E i \in ps : Live(m.blocks[i].files, f))
                => Live(r, f)
  <2>1. ps \in SUBSET DOMAIN m.blocks
    BY <1>2
  <2> QED BY <1>2, <1>3, <2>1, MergedRecordProps
<1>5. \A f : f \in MetadataFiles <=> f \in Times /\ Live(r, f)
  <2>1. MetadataFiles = {f \in DOMAIN r : ~r[f]}
    BY <1>2 DEF MetadataFiles, ActiveFiles
  <2>2. DOMAIN r \subseteq Times
    BY <1>4 DEF Record
  <2> QED BY <2>1, <2>2 DEF Live
<1>6. \A i \in DOMAIN m.blocks : m.blocks[i].at \notin reader.pending => i \in ps
  BY <1>2 DEF ValidInstants, ValidFromMdtDeltaCommits, BlockInstants
<1>7. ASSUME NEW f \in Times, Live(r, f), IsCommitted(f)
      PROVE  f \in Files /\ f \in reader.seen
  <2>1. CASE Live(m.base, f)
    <3>1. f \in Files /\ f \in Committed
      BY <1>3, <2>1 DEF LiveFit
    <3>2. instants[f].state # "gone"
      BY <3>1 DEF Committed, InState
    <3> QED BY <1>1, <1>7, <3>1, <3>2, CommittedIsSeen
  <2>2. CASE \E i \in ps : /\ Live(m.blocks[i].files, f)
                          /\ \A j \in ps : i < j => ~Tomb(m.blocks[j].files, f)
    <3>1. PICK i \in ps : /\ Live(m.blocks[i].files, f)
                          /\ \A j \in ps : i < j => ~Tomb(m.blocks[j].files, f)
      BY <2>2
    <3>2. f = m.blocks[i].at /\ f \in Files /\ i \in DOMAIN m.blocks
      BY <1>2, <1>3, <3>1 DEF BlocksFit
    <3>3. SUFFICES ASSUME f \notin reader.seen PROVE FALSE
      BY <3>2
    <3>4. CASE f < reader.boundary
      <4>1. PICK j \in DOMAIN m.blocks : /\ i < j /\ Tomb(m.blocks[j].files, f)
                                         /\ m.blocks[j].at \notin reader.pending
        BY <1>1, <1>2, <3>2, <3>3, <3>4 DEF PendingInv
      <4> QED BY <1>6, <3>1, <4>1
    <3>5. CASE ~(f < reader.boundary)
      BY <1>1, <1>7, <3>3, <3>5 DEF IsCommitted, LoadedInv
    <3> QED BY <3>4, <3>5
  <2> QED BY <1>4, <1>7, <2>1, <2>2
<1>8. /\ \A f \in Files : (IsBase(f) => f \in BaseFiles) /\ (~IsBase(f) => f \in LogFiles)
      /\ \A f \in Files : f \in Times
  BY DEF Files, BaseFiles, LogFiles, OfKind, Commits, IsBase
<1>9. ASSUME NEW f \in reader.seen \cap Files, ~Superfluous(f)
      PROVE  f \in MetadataFiles /\ IsCommitted(f)
  <2>1. IsCommitted(f) /\ f \in Times
    BY <1>1, <1>8, CommittedIsSeen
  <2>2. f \notin RolledOff
    BY <1>1 DEF LoadedInv, RolledOff, Committed, InState
  <2>3. ~Tomb(m.base, f) /\ \A i \in DOMAIN m.blocks : ~Tomb(m.blocks[i].files, f)
    BY <1>3, <1>9, <2>1, <2>2 DEF TombsFit
  <2>4. Entered(m, f)
    BY <1>1, <1>2, <1>9 DEF CopyInv
  <2>5. Live(m.base, f) \/ \E i \in ps : Live(m.blocks[i].files, f)
    <3>1. ASSUME NEW i \in DOMAIN m.blocks, m.blocks[i].at = f
          PROVE  i \in ps /\ Live(m.blocks[i].files, f)
      <4>1. f \notin reader.pending
        BY <1>1, <1>9 DEF PendingInv
      <4>2. Live(m.blocks[i].files, f)
        BY <1>3, <1>9, <2>1, <3>1 DEF BlocksFit
      <4> QED BY <1>6, <3>1, <4>1, <4>2
    <3> QED BY <2>4, <3>1 DEF Entered
  <2>6. \A i \in ps : ~Tomb(m.blocks[i].files, f)
    BY <1>2, <2>3
  <2> QED BY <1>4, <1>5, <2>1, <2>5, <2>6
<1> QED BY <1>5, <1>7, <1>8, <1>9 DEF Enough

LEMMA ListInv ==
    ASSUME IndInv, NEW via \in BOOLEAN, NEW bs, NEW ls, reader.pc # "closed",
           via => CopyInv,
           Enough(bs, ls), UNCHANGED <<now, instants, cleaned, bases, logs, mdt>>,
           reader' = [reader EXCEPT !.pc = "listed", !.viaMdt = via,
                                    !.bases = bs, !.logs = ls]
    PROVE  IndInv'
<1>1. reader \in Reader /\ LoadedInv
  BY DEF IndInv, ReaderInv
<1>2. bs \in SUBSET Times /\ ls \in SUBSET Times
  BY DEF Enough, BaseFiles, LogFiles, OfKind
<1>3. /\ reader' \in Reader /\ reader'.pc = "listed" /\ reader'.mdt = reader.mdt
      /\ reader'.completed = reader.completed /\ reader'.seen = reader.seen
      /\ reader'.boundary = reader.boundary /\ reader'.asOf = reader.asOf
      /\ reader'.viaMdt = via /\ reader'.bases = bs /\ reader'.logs = ls
  BY <1>1, <1>2 DEF Reader
<1>4. LoadedInv'
  BY <1>1, <1>3, LoadedStays
<1>5. via => CopyInv'
  BY <1>3, CopyStays
<1>6. Enough(reader.bases, reader.logs)'
  <2>1. /\ Files' = Files /\ BaseFiles' = BaseFiles /\ LogFiles' = LogFiles
        /\ \A f \in Times : Superfluous(f)' <=> Superfluous(f)
    BY SameSets
  <2>2. \A f \in Files : f \in Times
    BY DEF Files, OfKind
  <2> QED BY <1>3, <2>1, <2>2 DEF Enough
<1>7. ReaderInv'
  BY <1>3, <1>4, <1>5, <1>6 DEF ReaderInv
<1> QED BY <1>7, ReaderStepInv

LEMMA ListFromMetadataInv ==
    ASSUME IndInv, ListFromMetadata
    PROVE  IndInv'
<1>1. PICK bs, ls : bs = {f \in MetadataFiles : IsBase(f) /\ IsCommitted(f)}
                 /\ ls = {f \in MetadataFiles : ~IsBase(f) /\ IsCommitted(f)}
  OBVIOUS
<1>2. reader.pc = "pending" /\ UNCHANGED <<now, instants, cleaned, bases, logs, mdt>>
  BY DEF ListFromMetadata
<1>3. /\ bs = {b \in {f \in MetadataFiles : IsBase(f)} : IsCommitted(b)}
      /\ ls = {l \in {f \in MetadataFiles : ~IsBase(f)} : IsCommitted(l)}
  BY <1>1
<1>4. reader' = [reader EXCEPT !.pc = "listed", !.viaMdt = TRUE, !.bases = bs, !.logs = ls]
  BY <1>3 DEF ListFromMetadata, List
<1>5. Enough(bs, ls) /\ CopyInv
  BY <1>1, <1>2, MetadataEnough DEF IndInv, ReaderInv
<1> QED BY <1>2, <1>4, <1>5, ListInv

LEMMA ListFromStorageInv ==
    ASSUME IndInv, ListFromStorage
    PROVE  IndInv'
<1>1. PICK bs, ls : bs = {b \in bases : IsCommitted(b)} /\ ls = {l \in logs : IsCommitted(l)}
  OBVIOUS
<1>2. reader.pc = "open" /\ UNCHANGED <<now, instants, cleaned, bases, logs, mdt>>
  BY DEF ListFromStorage
<1>3. reader' = [reader EXCEPT !.pc = "listed", !.viaMdt = FALSE, !.bases = bs, !.logs = ls]
  BY <1>1 DEF ListFromStorage, List
<1>4. Enough(bs, ls)
  BY <1>1, <1>2, StorageEnough
<1> QED BY <1>2, <1>3, <1>4, ListInv

LEMMA ReadAgainInv ==
    ASSUME IndInv, ReadAgain
    PROVE  IndInv'
<1>1. PICK c : c = IF reader.viaMdt THEN "mdt" ELSE "open"
  OBVIOUS
<1>2. /\ reader.pc = "listed"
      /\ reader' = [reader EXCEPT !.pc = c, !.bases = {}, !.logs = {}, !.pending = {}]
      /\ UNCHANGED <<now, instants, cleaned, bases, logs, mdt>>
  BY <1>1 DEF ReadAgain
<1>3. reader \in Reader /\ LoadedInv /\ (reader.viaMdt => CopyInv)
  BY <1>2 DEF IndInv, ReaderInv
<1>4. /\ reader' \in Reader /\ reader'.pc = c /\ reader'.mdt = reader.mdt
      /\ reader'.completed = reader.completed /\ reader'.seen = reader.seen
      /\ reader'.boundary = reader.boundary /\ reader'.asOf = reader.asOf
      /\ reader'.viaMdt = reader.viaMdt
  <2>1. c \in {"closed", "open", "mdt", "pending", "listed"}
    BY <1>1
  <2> QED BY <1>2, <1>3, <2>1 DEF Reader
<1>5. LoadedInv'
  BY <1>2, <1>3, <1>4, LoadedStays
<1>6. reader.viaMdt => CopyInv'
  BY <1>2, <1>3, <1>4, CopyStays
<1>7. ReaderInv'
  BY <1>1, <1>4, <1>5, <1>6 DEF ReaderInv
<1> QED BY <1>2, <1>7, ReaderStepInv

-----------------------------------------------------------------------------
(* The invariant. *)

LEMMA InitInv ==
    ASSUME Init
    PROVE  IndInv
<1>1. /\ now = 0 /\ instants = [t \in Times |-> Unused] /\ cleaned = 0
      /\ bases = {} /\ logs = {} /\ mdt = [base |-> << >>, blocks |-> << >>]
      /\ reader = NoReader
  BY DEF Init, NoTime
<1>2. \A t \in Times : instants[t].kind = "none" /\ instants[t].state = "none"
  BY <1>1 DEF Unused
<1>3. Unused \in Instant
  BY DEF Unused, Instant, NoTime
<1>4. TypeInv
  BY <1>1, <1>3, TableListingAssumption DEF TypeInv
<1>5. /\ Files = {} /\ BaseFiles = {} /\ LogFiles = {} /\ Committed = {} /\ RolledOff = {}
      /\ Completed = {} /\ Pending = {} /\ InState({"archived"}) = {}
      /\ InState({"logged"}) = {} /\ InState({"gone"}) = {}
      /\ OfKind({"insert"}) = {} /\ OfKind({"compact"}) = {} /\ OfKind({"rollback"}) = {}
      /\ OfKind({"clean"}) = {} /\ InState({"logged", "completed", "archived"}) = {}
  BY <1>2 DEF Files, BaseFiles, LogFiles, Committed, RolledOff, Completed, Pending, InState,
              OfKind, Commits
<1>6. WritersInv
  BY <1>1, <1>2, <1>4, <1>5 DEF WritersInv, ClockInv, OverInv, FilesInv, ArchiveInv
<1>7. mdt \in Metadata /\ mdt.base = << >> /\ DOMAIN mdt.blocks = {}
  <2>1. << >> \in Seq([at : Times, files : Record]) /\ DOMAIN << >> = {}
    OBVIOUS
  <2> QED BY <1>1, <2>1, EmptyRecord DEF Metadata
<1>8. MetadataInv
  <2>1. BlocksFit(mdt)
    BY <1>7 DEF BlocksFit
  <2>2. \A f \in Times : ~Live(mdt.base, f) /\ ~Tomb(mdt.base, f)
    <3>1. DOMAIN << >> = {}
      OBVIOUS
    <3> QED BY <1>7, <3>1 DEF Live, Tomb
  <2>3. LiveFit(mdt) /\ TombsFit(mdt)
    BY <1>7, <2>2 DEF LiveFit, TombsFit
  <2> QED BY <1>5, <1>7, <2>1, <2>3 DEF MetadataInv
<1>9. ReaderInv
  BY <1>1 DEF ReaderInv, Reader, NoReader, NoTime
<1> QED BY <1>6, <1>8, <1>9 DEF IndInv

LEMMA NextInv ==
    ASSUME IndInv, [Next]_vars
    PROVE  IndInv'
<1>1. CASE UNCHANGED vars
  <2>1. /\ UNCHANGED <<now, instants, cleaned, bases, logs, mdt>> /\ reader' = reader
        /\ now' = now /\ instants' = instants /\ cleaned' = cleaned
    BY <1>1 DEF vars
  <2>2. Evolves /\ TypeInv /\ ClockInv /\ ReaderInv
    BY <2>1 DEF IndInv, WritersInv, TypeInv, Evolves
  <2>3. ReaderInv'
    BY <2>2, EvolvesReader
  <2> QED BY <2>1, <2>3, ReaderStepInv
<1>2. CASE Insert
  BY <1>2, InsertInv
<1>3. CASE Write
  BY <1>3, WriteInv
<1>4. CASE Compact
  BY <1>4, CompactInv
<1>5. CASE Rollback
  BY <1>5, RollbackInv
<1>6. CASE Clean
  BY <1>6, CleanInv
<1>7. CASE CompactMetadata
  BY <1>7, CompactMetadataInv
<1>8. ASSUME NEW t \in Times, LogToMetadata(t) PROVE IndInv'
  BY <1>8, LogToMetadataInv
<1>9. ASSUME NEW t \in Times, CompleteCommit(t) PROVE IndInv'
  BY <1>9, CompleteCommitInv
<1>10. ASSUME NEW t \in Times, CompleteService(t) PROVE IndInv'
  BY <1>10, CompleteServiceInv
<1>11. ASSUME NEW t \in Times, Archive(t) PROVE IndInv'
  BY <1>11, ArchiveStepInv
<1>12. ASSUME NEW t \in Times, Open(t) PROVE IndInv'
  BY <1>12, OpenInv
<1>13. CASE OpenMetadata
  BY <1>13, OpenMetadataInv
<1>14. CASE ListPending
  BY <1>14, ListPendingInv
<1>15. CASE ListFromMetadata
  BY <1>15, ListFromMetadataInv
<1>16. CASE ListFromStorage
  BY <1>16, ListFromStorageInv
<1>17. CASE ReadAgain
  BY <1>17, ReadAgainInv
<1> QED BY <1>1, <1>2, <1>3, <1>4, <1>5, <1>6, <1>7, <1>8, <1>9, <1>10, <1>11, <1>12,
           <1>13, <1>14, <1>15, <1>16, <1>17 DEF Next

(* It holds in every state. *)
LEMMA Invariance == Spec => []IndInv
<1>1. Init => IndInv
  BY InitInv
<1>2. IndInv /\ [Next]_vars => IndInv'
  BY NextInv
<1> QED BY <1>1, <1>2, PTL DEF Spec

-----------------------------------------------------------------------------
(* What a read makes of the files.                                         *)

DoneAt(t) == instants[t].done
When(l) == IF l \in reader.completed THEN DoneAt(l) ELSE l

(* Times of the files a reader has listed, or could list now.              *)
LEMMA ListedFacts ==
    ASSUME IndInv, reader.pc = "listed", NEW bs, NEW ls, Enough(bs, ls)
    PROVE  /\ bs \in SUBSET Times /\ ls \in SUBSET Times /\ bs \cap ls = {}
           /\ KnownFor(KnownCompletion, ls)
           /\ \A l \in ls : /\ CurrentWhen(KnownCompletion, l) = When(l)
                            /\ l \in reader.completed =>
                                 KnownCompletion[l] = DoneAt(l) /\ DoneAt(l) # NoTime
           /\ reader.asOf \in Nat /\ cleaned \in Nat /\ cleaned <= reader.asOf
           /\ cleaned # 0 => cleaned \in bs
           /\ \A t \in reader.seen \cap Files :
                /\ t \in Nat /\ DoneAt(t) \in Nat /\ 0 < t /\ t < DoneAt(t)
                /\ t <= Max(reader.completed) /\ Max(reader.completed) \in Nat
<1>1. /\ LoadedInv /\ reader \in Reader /\ TypeInv /\ ClockInv /\ FilesInv /\ OverInv
  BY DEF IndInv, ReaderInv, WritersInv
<1>2. Times \in SUBSET Nat /\ 0 \notin Times
  BY TimesAreNumbers
<1>3. /\ Files \in SUBSET Times /\ BaseFiles \subseteq Files /\ LogFiles \subseteq Files
      /\ BaseFiles \cap LogFiles = {}
  BY DEF BaseFiles, LogFiles, Files, OfKind, Commits
<1>4. /\ bs \subseteq reader.seen \cap BaseFiles /\ ls \subseteq reader.seen \cap LogFiles
      /\ \A f \in reader.seen \cap Files : Superfluous(f) \/ f \in bs \cup ls
  BY DEF Enough
<1>5. bs \in SUBSET Times /\ ls \in SUBSET Times /\ bs \cap ls = {}
  BY <1>3, <1>4
<1>6. reader.seen \subseteq Committed /\ reader.completed \subseteq reader.seen \cap Files
      /\ reader.completed # {} /\ cleaned <= reader.asOf /\ reader.asOf \in Nat
      /\ cleaned \in Nat /\ (cleaned # 0 => cleaned \in reader.seen) /\ now \in Nat
  BY <1>1 DEF LoadedInv, Reader, TypeInv
<1>7. /\ \A t \in Files \cap Committed : DoneAt(t) \in Nat /\ t < DoneAt(t)
      /\ \A t, u \in Files \cap Committed : DoneAt(t) = DoneAt(u) => t = u
  <2>1. \A t \in Files \cap Committed : instants[t].done \in t + 1 .. now
    BY <1>1 DEF ClockInv
  <2>2. \A t, u \in Files \cap Committed : instants[t].done = instants[u].done => t = u
    BY <1>1 DEF ClockInv
  <2> QED BY <1>2, <1>3, <1>6, <2>1, <2>2 DEF DoneAt
<1>8. PICK comp : comp = KnownCompletion
  OBVIOUS
<1>9. /\ comp = [t \in Times |-> IF t \in reader.completed THEN DoneAt(t) ELSE 0]
  BY <1>8 DEF KnownCompletion, DoneAt, NoTime
<1>10. comp \in [Times -> Nat]
  BY <1>6, <1>7, <1>9
<1>11. KnownFor(comp, ls)
  <2>1. \A l \in ls : comp[l] # 0 => l \in reader.completed /\ comp[l] = DoneAt(l)
    BY <1>5, <1>9
  <2>2. \A l \in ls : comp[l] # 0 => l < comp[l]
    BY <1>6, <1>7, <2>1
  <2>3. \A l, k \in ls : comp[l] # 0 /\ comp[l] = comp[k] => l = k
    BY <1>6, <1>7, <2>1
  <2> QED BY <1>5, <1>10, <2>2, <2>3 DEF KnownFor, NoTime
<1>12. \A l \in ls : /\ CurrentWhen(comp, l) = When(l)
                     /\ l \in reader.completed => comp[l] = DoneAt(l) /\ DoneAt(l) # NoTime
  <2>1. ASSUME NEW l \in ls, l \in reader.completed PROVE DoneAt(l) # 0
    <3>1. l \in Nat /\ DoneAt(l) \in Nat /\ l < DoneAt(l)
      BY <1>2, <1>3, <1>6, <1>7, <2>1
    <3> QED BY <3>1
  <2> QED BY <1>5, <1>9, <2>1 DEF CurrentWhen, When, NoTime
<1>13. cleaned # 0 => cleaned \in bs
  <2>1. SUFFICES ASSUME cleaned # 0 PROVE cleaned \in bs
    OBVIOUS
  <2>2. cleaned \in OfKind({"compact"}) /\ cleaned \in bases
    BY <1>1, <2>1 DEF FilesInv
  <2>3. cleaned \in BaseFiles /\ IsBase(cleaned)
    BY <2>2 DEF OfKind, BaseFiles, IsBase
  <2>4. ~Superfluous(cleaned)
    BY <1>6, <2>3 DEF Superfluous
  <2> QED BY <1>3, <1>4, <1>6, <2>1, <2>3, <2>4
<1>14. PICK mc : mc = Max(reader.completed)
  OBVIOUS
<1>15. mc \in reader.completed /\ \A t \in reader.completed : t <= mc
  <2>1. reader.completed \in SUBSET Times
    BY <1>3, <1>6
  <2> QED BY <1>6, <1>14, <2>1, MaxOfTimes
<1>16. ASSUME NEW t \in reader.seen \cap Files
       PROVE  /\ t \in Nat /\ DoneAt(t) \in Nat /\ 0 < t /\ t < DoneAt(t)
              /\ t <= mc /\ mc \in Nat
  <2>1. t \in Nat /\ 0 < t /\ mc \in Nat
    <3>1. t \in Times /\ mc \in Times
      BY <1>3, <1>6, <1>15
    <3> QED BY <3>1 DEF Times
  <2>2. t \in reader.completed \/ \A u \in reader.completed : t < u
    BY <1>1 DEF LoadedInv
  <2>3. t <= mc
    BY <1>15, <2>1, <2>2
  <2> QED BY <1>6, <1>7, <2>1, <2>3
<1> QED BY <1>5, <1>6, <1>8, <1>11, <1>12, <1>13, <1>14, <1>16

(* What the base file of a committed instant has. *)
LEMMA BaseHolds ==
    ASSUME IndInv, reader.pc = "listed", NEW k \in reader.seen \cap BaseFiles
    PROVE  /\ \A w \in instants[k].over :
                w \in reader.seen \cap Writes /\ (w = k \/ DoneAt(w) < k)
           /\ \A w \in Writes \cap reader.seen :
                w \in instants[k].over \/ ~(DoneAt(w) < k)
           /\ \A w \in Writes \cap reader.seen :
                w \in LogFiles \/ w = k \/ DoneAt(w) < k
           /\ \A w \in LogFiles : w # k
           /\ k \in Writes => k \in instants[k].over
<1>1. LoadedInv /\ OverInv /\ ClockInv /\ TypeInv
  BY DEF IndInv, ReaderInv, WritersInv
<1>2. /\ Writes \subseteq Files /\ Files \in SUBSET Times /\ k \in Files
      /\ \A t \in Times : t \in Writes => t \in LogFiles \/ t \in OfKind({"insert"})
      /\ k \in OfKind({"insert"}) \/ (k \in OfKind({"compact"}) /\ k \notin Writes)
      /\ \A t \in OfKind({"insert"}) : t \in Writes
      /\ \A w \in LogFiles : w # k
  BY DEF Writes, LogFiles, BaseFiles, Files, OfKind, Commits
<1>3. reader.seen \subseteq Committed
  BY <1>1 DEF LoadedInv
<1>4. /\ \A w \in Files \cap Committed : DoneAt(w) \in Nat /\ w < DoneAt(w)
  <2>1. \A t \in Files \cap Committed : instants[t].done \in t + 1 .. now
    BY <1>1 DEF ClockInv
  <2>2. now \in Nat
    BY <1>1 DEF TypeInv
  <2> QED BY <1>2, <2>1, <2>2, TimesAreNumbers DEF DoneAt
<1>5. \A w \in Writes \cap reader.seen : w \in LogFiles \/ w = k \/ DoneAt(w) < k
  <2>1. \A i \in OfKind({"insert"}) : k = i \/ DoneAt(i) < k
    BY <1>1, <1>2 DEF OverInv, DoneAt
  <2> QED BY <1>2, <2>1
<1>6. CASE k \in OfKind({"insert"})
  <2>1. k = 1 /\ instants[k].over = {1}
    BY <1>1, <1>6 DEF OverInv
  <2>2. \A w \in Writes \cap reader.seen : ~(DoneAt(w) < 1)
    BY <1>2, <1>3, <1>4, TimesAreNumbers DEF Times
  <2> QED BY <1>2, <1>5, <1>6, <2>1, <2>2
<1>7. CASE k \in OfKind({"compact"}) /\ k \notin Writes
  <2>1. instants[k].over = {w \in Writes \cap Committed : DoneAt(w) < k}
    BY <1>1, <1>7 DEF OverInv, DoneAt
  <2>2. instants[k].over \subseteq reader.seen
    BY <1>1, <1>7 DEF LoadedInv
  <2> QED BY <1>2, <1>3, <1>5, <1>7, <2>1, <2>2
<1> QED BY <1>2, <1>6, <1>7

(* What the cleaner may not have removed is among the files. *)
LEMMA NotSuperfluous ==
    ASSUME IndInv, reader.pc = "listed", NEW bs, NEW ls, Enough(bs, ls),
           NEW w \in reader.seen \cap Files
    PROVE  /\ w \in BaseFiles /\ ~(w < cleaned) => w \in bs
           /\ w \in LogFiles /\ ~(DoneAt(w) < cleaned) => w \in ls
           /\ cleaned = 0 => w \in bs \cup ls
<1>1. /\ w \in Nat /\ DoneAt(w) \in Nat /\ w < DoneAt(w) /\ cleaned \in Nat
  BY ListedFacts
<1>2. /\ Superfluous(w) \/ w \in bs \cup ls
      /\ bs \subseteq BaseFiles /\ ls \subseteq LogFiles
  BY DEF Enough
<1>3. /\ w \in BaseFiles => IsBase(w) /\ w \notin LogFiles
      /\ w \in LogFiles => ~IsBase(w)
  BY DEF BaseFiles, LogFiles, OfKind, IsBase
<1>4. Superfluous(w) => IF IsBase(w) THEN w < cleaned ELSE DoneAt(w) < cleaned
  BY DEF Superfluous, DoneAt
<1> QED BY <1>1, <1>2, <1>3, <1>4

Alone(bs, l) == \A b \in bs : ~(b <= When(l))
Holding(bs, ls, k) ==
    {l \in ls : k <= When(l) /\ \A c \in bs : k < c => ~(c <= When(l))}

LEMMA WhenIs ==
    ASSUME IndInv, reader.pc = "listed", NEW bs, NEW ls, Enough(bs, ls)
    PROVE  /\ Orphans(KnownCompletion, bs, ls) = {l \in ls : Alone(bs, l)}
           /\ \A b \in bs : SliceLogs(KnownCompletion, bs, ls, b) = Holding(bs, ls, b)
<1>1. \A l \in ls : CurrentWhen(KnownCompletion, l) = When(l)
  BY ListedFacts
<1> QED BY <1>1 DEF Orphans, SliceLogs, Holding, Alone

(* The keys of a group up to a time. *)
LEMMA KeysOfGroup ==
    ASSUME NEW g \in Groups, NEW t, NEW K, K = KeysUpTo(g, t)
    PROVE  /\ K = {k \in DOMAIN g : k <= t} /\ DOMAIN g \in SUBSET Times
           /\ K # {} => Max(K) \in K /\ \A k \in K : k <= Max(K)
<1>1. PICK D \in SUBSET Times : g \in [D -> Slices] /\ DOMAIN g = D
  BY DEF Groups
<1>2. K = {k \in D : k <= t} /\ K \in SUBSET Times
  BY <1>1 DEF KeysUpTo
<1>3. K # {} => Max(K) \in K /\ \A k \in K : k <= Max(K)
  BY <1>2, MaxOfTimes
<1> QED BY <1>1, <1>2, <1>3

(* A read that has a base file to start from starts from the last one. *)
LEMMA SliceOfBase ==
    ASSUME IndInv, reader.pc = "listed", NEW bs, NEW ls, Enough(bs, ls),
           NEW b \in bs, b <= reader.asOf
    PROVE  \E k \in bs :
             /\ k <= reader.asOf /\ \A c \in bs : c <= reader.asOf => c <= k
             /\ Slice(bs, ls) = [base |-> TRUE, key |-> k, logs |-> Holding(bs, ls, k)]
<1>1. PICK comp, g, K : /\ comp = KnownCompletion /\ g = FileGroup(comp, bs, ls)
                        /\ K = KeysUpTo(g, reader.asOf)
  OBVIOUS
<1>2. /\ bs \in SUBSET Times /\ ls \in SUBSET Times /\ bs \cap ls = {} /\ KnownFor(comp, ls)
      /\ reader.asOf \in Nat
  BY <1>1, ListedFacts
<1>3. g \in Groups /\ Placed(comp, bs, ls, g)
  BY <1>1, <1>2, FileGroupProps
<1>4. /\ K = {k \in DOMAIN g : k <= reader.asOf} /\ DOMAIN g \in SUBSET Times
      /\ K # {} => Max(K) \in K /\ \A k \in K : k <= Max(K)
  BY <1>1, <1>3, KeysOfGroup
<1>5. /\ bs \subseteq DOMAIN g /\ DOMAIN g \ bs \subseteq {l \in ls : Alone(bs, l)}
      /\ \A k \in bs : g[k] = [base |-> TRUE, key |-> k, logs |-> Holding(bs, ls, k)]
  BY <1>1, <1>3, WhenIs DEF Placed
<1>6. PICK k : k = Max(K)
  OBVIOUS
<1>7. b \in K /\ k \in K /\ \A c \in K : c <= k
  BY <1>4, <1>5, <1>6
<1>8. k \in bs
  <2>1. SUFFICES ASSUME k \notin bs PROVE FALSE
    OBVIOUS
  <2>2. k \in ls /\ ~(b <= When(k)) /\ k <= When(k)
    <3>1. k \in ls /\ Alone(bs, k)
      BY <1>4, <1>5, <1>7, <2>1
    <3>2. k <= CurrentWhen(comp, k) /\ CurrentWhen(comp, k) = When(k)
      BY <1>1, <1>2, <3>1, WhenProps, ListedFacts
    <3> QED BY <3>1, <3>2 DEF Alone
  <2>3. When(k) \in Nat /\ k \in Nat /\ b \in Nat
    <3>1. CurrentWhen(comp, k) \in Nat /\ CurrentWhen(comp, k) = When(k)
      BY <1>1, <1>2, <2>2, WhenProps, ListedFacts
    <3> QED BY <1>2, <2>2, <3>1, TimesAreNumbers
  <2> QED BY <1>7, <2>2, <2>3
<1>9. Slice(bs, ls) = g[k]
  BY <1>1, <1>6, <1>7 DEF Slice, SliceAsOf
<1> QED BY <1>4, <1>5, <1>7, <1>8, <1>9

(* One that has none starts from the oldest log file, if that is not too   *)
(* late, when every log file that comes before the base files is known.    *)
LEMMA SliceOfNoBase ==
    ASSUME IndInv, reader.pc = "listed", NEW bs, NEW ls, Enough(bs, ls),
           reader.viaMdt => bs # {},
           \A b \in bs : ~(b <= reader.asOf),
           \A l \in ls : Alone(bs, l) => l \in reader.completed
    PROVE  \/ /\ Slice(bs, ls) = NoSlice
              /\ \A l \in ls : Alone(bs, l) => ~(DoneAt(l) <= reader.asOf)
              /\ (\E l \in ls : Alone(bs, l)) => \E x \in ls : ~(x <= reader.asOf)
           \/ \E k \in ls : Slice(bs, ls) = [base |-> FALSE, key |-> k,
                                            logs |-> {l \in ls : Alone(bs, l)}]
<1>1. PICK comp, g, K, A : /\ comp = KnownCompletion /\ g = FileGroup(comp, bs, ls)
                           /\ K = KeysUpTo(g, reader.asOf) /\ A = {l \in ls : Alone(bs, l)}
  OBVIOUS
<1>2. /\ bs \in SUBSET Times /\ ls \in SUBSET Times /\ bs \cap ls = {} /\ KnownFor(comp, ls)
      /\ reader.asOf \in Nat
      /\ \A l \in ls : l \in reader.completed => comp[l] = DoneAt(l) /\ DoneAt(l) # NoTime
  BY <1>1, ListedFacts
<1>3. g \in Groups /\ Placed(comp, bs, ls, g)
  BY <1>1, <1>2, FileGroupProps
<1>4. /\ K = {k \in DOMAIN g : k <= reader.asOf} /\ DOMAIN g \in SUBSET Times
      /\ K # {} => Max(K) \in K /\ \A k \in K : k <= Max(K)
  BY <1>1, <1>3, KeysOfGroup
<1>5. \A o \in A : comp[o] # NoTime /\ comp[o] = DoneAt(o)
  BY <1>1, <1>2
<1>6. /\ bs \subseteq DOMAIN g /\ DOMAIN g \ bs \subseteq A
      /\ \A x \in DOMAIN g \ bs : /\ g[x] = [base |-> FALSE, key |-> x, logs |-> A]
                                  /\ \A o \in A : comp[x] <= comp[o]
      /\ A # {} => DOMAIN g \ bs # {}
  <2>1. Orphans(comp, bs, ls) = A
    BY <1>1, WhenIs
  <2> QED BY <1>3, <1>5, <2>1 DEF Placed
<1>7. reader.viaMdt /\ bs = {} <=> FALSE
  OBVIOUS
<1>8. CASE K = {}
  <2>1. Slice(bs, ls) = NoSlice
    BY <1>1, <1>7, <1>8 DEF Slice, SliceAsOf
  <2>2. \A x \in DOMAIN g : ~(x <= reader.asOf)
    BY <1>4, <1>8
  <2>3. A # {} => \E x \in ls : ~(x <= reader.asOf)
    BY <1>1, <1>6, <2>2
  <2>4. ASSUME NEW l \in A PROVE ~(DoneAt(l) <= reader.asOf)
    <3>1. PICK x \in DOMAIN g \ bs : x \in A
      BY <1>6, <2>4
    <3>2. DoneAt(x) <= DoneAt(l) /\ ~(x <= reader.asOf)
      BY <1>5, <1>6, <2>2, <3>1
    <3>3. x < DoneAt(x)
      BY <1>1, <1>2, <1>5, <3>1 DEF KnownFor
    <3>4. DoneAt(x) \in Nat /\ DoneAt(l) \in Nat /\ x \in Nat
      <4>1. x \in Times /\ l \in Times /\ comp[x] \in Nat /\ comp[l] \in Nat
        BY <1>1, <1>2, <3>1 DEF KnownFor
      <4> QED BY <1>5, <3>1, <4>1, TimesAreNumbers
    <3> QED BY <1>2, <3>2, <3>3, <3>4
  <2> QED BY <1>1, <2>1, <2>3, <2>4
<1>9. CASE K # {}
  <2>1. PICK k : k = Max(K)
    OBVIOUS
  <2>2. k \in DOMAIN g \ bs
    BY <1>4, <1>9, <2>1
  <2>3. Slice(bs, ls) = g[k]
    BY <1>1, <1>7, <1>9, <2>1 DEF Slice, SliceAsOf
  <2> QED BY <1>1, <1>6, <2>2, <2>3
<1> QED BY <1>8, <1>9

(* What a slice must have for the read to be exact. *)
ExactSlice(s) ==
    /\ InBase(s) \cap InLogs(s) = {}
    /\ \A w \in Merged(s) : w \in reader.seen /\ w <= reader.asOf
    /\ \A w \in Writes \cap reader.seen :
         DoneAt(w) <= reader.asOf \/ Max(reader.completed) <= reader.asOf
            => w \in Merged(s)

LEMMA ExactSliceIs ==
    ASSUME NEW s
    PROVE  ExactSlice(s) <=> Exact(s)
<1>1. ASSUME ExactSlice(s) PROVE Exact(s)
  BY <1>1 DEF ExactSlice, Exact, DoneAt
<1>2. ASSUME Exact(s) PROVE ExactSlice(s)
  BY <1>2 DEF ExactSlice, Exact, DoneAt
<1> QED BY <1>1, <1>2

(* What the theorem assumes of the files listed. *)
Alike(bs, ls) ==
    \A l \in ls \ reader.completed :
        /\ \E b \in bs : b <= l
        /\ \A b \in bs : ~(l < b /\ b <= DoneAt(l))

(* When a read that sees a write starts from a base file, it has the write *)
(* in the base file or in a log file.                                      *)
LEMMA ExactFromBase ==
    ASSUME IndInv, reader.pc = "listed", NEW bs, NEW ls, Enough(bs, ls), Alike(bs, ls),
           NEW b \in bs, b <= reader.asOf
    PROVE  ExactSlice(Slice(bs, ls))
<1>1. PICK k \in bs :
             /\ k <= reader.asOf /\ \A c \in bs : c <= reader.asOf => c <= k
             /\ Slice(bs, ls) = [base |-> TRUE, key |-> k, logs |-> Holding(bs, ls, k)]
  BY SliceOfBase
<1>2. PICK s : s = Slice(bs, ls)
  OBVIOUS
<1>3. /\ bs \in SUBSET Times /\ ls \in SUBSET Times /\ bs \cap ls = {}
      /\ reader.asOf \in Nat /\ cleaned \in Nat /\ cleaned <= reader.asOf
      /\ cleaned # 0 => cleaned \in bs
  BY ListedFacts
<1>4. PICK mc : mc = Max(reader.completed)
  OBVIOUS
<1>5. \A t \in reader.seen \cap Files :
         /\ t \in Nat /\ DoneAt(t) \in Nat /\ 0 < t /\ t < DoneAt(t)
         /\ t <= mc /\ mc \in Nat
  BY <1>4, ListedFacts
<1>6. /\ bs \subseteq reader.seen \cap BaseFiles /\ ls \subseteq reader.seen \cap LogFiles
  BY DEF Enough
<1>7. /\ BaseFiles \subseteq Files /\ LogFiles \subseteq Files /\ Writes \subseteq Files
  BY DEF BaseFiles, LogFiles, Writes, Files, OfKind, Commits
<1>8. PICK o : o = instants[k].over
  OBVIOUS
<1>9. /\ \A w \in o : w \in reader.seen \cap Writes /\ (w = k \/ DoneAt(w) < k)
      /\ \A w \in Writes \cap reader.seen : w \in o \/ ~(DoneAt(w) < k)
      /\ \A w \in Writes \cap reader.seen : w \in LogFiles \/ w = k \/ DoneAt(w) < k
      /\ \A w \in LogFiles : w # k
      /\ k \in Writes => k \in o
  BY <1>1, <1>6, <1>8, BaseHolds
<1>10. /\ InBase(s) = o
       /\ InLogs(s) = {l \in Holding(bs, ls, k) : l <= reader.asOf}
  BY <1>1, <1>2, <1>8 DEF InBase, InLogs
<1>11. k \in Nat /\ \A c \in bs : c \in Nat
  BY <1>3, TimesAreNumbers
<1>12. \A l \in ls : When(l) \in Nat /\ l <= When(l) /\ When(l) <= DoneAt(l)
  BY <1>5, <1>6, <1>7 DEF When
<1>13. InBase(s) \cap InLogs(s) = {}
  <2>1. SUFFICES ASSUME NEW w \in o, w \in Holding(bs, ls, k) PROVE FALSE
    BY <1>10
  <2>2. w \in ls /\ k <= When(w)
    BY <2>1 DEF Holding
  <2>3. w # k
    BY <1>6, <1>9, <2>2
  <2>4. DoneAt(w) < k
    BY <1>9, <2>1, <2>3
  <2>5. DoneAt(w) \in Nat /\ When(w) \in Nat /\ When(w) <= DoneAt(w)
    BY <1>5, <1>6, <1>7, <1>12, <2>2
  <2> QED BY <1>11, <2>2, <2>4, <2>5
<1>14. ASSUME NEW w \in Merged(s) PROVE w \in reader.seen /\ w <= reader.asOf
  <2>1. CASE w \in o
    <3>1. w \in reader.seen \cap Files /\ (w = k \/ DoneAt(w) < k)
      BY <1>7, <1>9, <2>1
    <3> QED BY <1>1, <1>3, <1>5, <1>11, <3>1
  <2>2. CASE w \in Holding(bs, ls, k) /\ w <= reader.asOf
    BY <1>6, <2>2 DEF Holding
  <2> QED BY <1>10, <1>14, <2>1, <2>2 DEF Merged
<1>15. ASSUME NEW w \in Writes \cap reader.seen, DoneAt(w) <= reader.asOf \/ mc <= reader.asOf
       PROVE  w \in Merged(s)
  <2>1. /\ w \in Nat /\ DoneAt(w) \in Nat /\ w < DoneAt(w) /\ w <= mc /\ mc \in Nat
        /\ w \in reader.seen \cap Files
    BY <1>5, <1>7
  <2>2. w <= reader.asOf
    BY <1>3, <1>15, <2>1
  <2>3. CASE w \in o
    BY <1>10, <2>3 DEF Merged
  <2>4. CASE w \notin o
    <3>1. ~(DoneAt(w) < k) /\ w # k /\ w \in LogFiles
      BY <1>9, <2>4
    <3>2. ~(DoneAt(w) < cleaned)
      BY <1>1, <1>3, <1>11, <2>1, <3>1
    <3>3. w \in ls
      BY <2>1, <3>1, <3>2, NotSuperfluous
    <3>4. ASSUME NEW c \in bs, k < c, c <= DoneAt(w) PROVE FALSE
      <4>1. c \in Nat /\ c <= mc
        BY <1>5, <1>6, <1>7, <1>11
      <4>2. c <= reader.asOf
        BY <1>3, <1>15, <2>1, <3>4, <4>1
      <4> QED BY <1>1, <1>11, <3>4, <4>1, <4>2
    <3>5. k <= When(w)
      <4>1. CASE w \in reader.completed
        BY <1>11, <2>1, <3>1, <4>1 DEF When
      <4>2. CASE w \notin reader.completed
        <5>1. ~(w < k /\ k <= DoneAt(w))
          BY <1>1, <3>3, <4>2 DEF Alike
        <5> QED BY <1>11, <2>1, <3>1, <4>2, <5>1 DEF When
      <4> QED BY <4>1, <4>2
    <3>6. ASSUME NEW c \in bs, k < c, c <= When(w) PROVE FALSE
      <4>1. When(w) \in Nat /\ When(w) <= DoneAt(w) /\ c \in Nat
        BY <1>11, <1>12, <3>3
      <4>2. c <= DoneAt(w)
        BY <2>1, <3>6, <4>1
      <4> QED BY <3>4, <3>6, <4>2
    <3>7. w \in Holding(bs, ls, k)
      BY <3>3, <3>5, <3>6 DEF Holding
    <3> QED BY <1>10, <2>2, <3>7 DEF Merged
  <2> QED BY <2>3, <2>4
<1>16. ExactSlice(s)
  BY <1>4, <1>13, <1>14, <1>15 DEF ExactSlice
<1> QED BY <1>2, <1>16

(* When it starts from none, every write it sees is in a log file. *)
LEMMA ExactFromLogs ==
    ASSUME IndInv, reader.pc = "listed", NEW bs, NEW ls, Enough(bs, ls), Alike(bs, ls),
           reader.viaMdt => bs # {},
           \A b \in bs : ~(b <= reader.asOf)
    PROVE  ExactSlice(Slice(bs, ls))
<1>1. PICK s : s = Slice(bs, ls)
  OBVIOUS
<1>2. /\ bs \in SUBSET Times /\ ls \in SUBSET Times /\ bs \cap ls = {}
      /\ reader.asOf \in Nat /\ cleaned \in Nat /\ cleaned <= reader.asOf
      /\ cleaned # 0 => cleaned \in bs
  BY ListedFacts
<1>3. cleaned = 0
  BY <1>2
<1>4. PICK mc : mc = Max(reader.completed)
  OBVIOUS
<1>5. \A t \in reader.seen \cap Files :
         /\ t \in Nat /\ DoneAt(t) \in Nat /\ 0 < t /\ t < DoneAt(t)
         /\ t <= mc /\ mc \in Nat
  BY <1>4, ListedFacts
<1>6. /\ bs \subseteq reader.seen \cap BaseFiles /\ ls \subseteq reader.seen \cap LogFiles
  BY DEF Enough
<1>7. /\ BaseFiles \subseteq Files /\ LogFiles \subseteq Files /\ Writes \subseteq Files
  BY DEF BaseFiles, LogFiles, Writes, Files, OfKind, Commits
<1>8. \A l \in ls : When(l) \in Nat /\ l <= When(l) /\ When(l) <= DoneAt(l)
  BY <1>5, <1>6, <1>7 DEF When
<1>9. \A b \in bs : b \in Nat
  BY <1>2, TimesAreNumbers
<1>10. ASSUME NEW l \in ls, Alone(bs, l) PROVE l \in reader.completed
  <2>1. SUFFICES ASSUME l \notin reader.completed PROVE FALSE
    OBVIOUS
  <2>2. PICK b \in bs : b <= l
    BY <2>1 DEF Alike
  <2>3. ~(b <= l)
    BY <1>10, <2>1 DEF Alone, When
  <2> QED BY <2>2, <2>3
<1>11. ASSUME NEW w \in Writes \cap reader.seen,
              DoneAt(w) <= reader.asOf \/ mc <= reader.asOf
       PROVE  w \in ls /\ Alone(bs, w) /\ w <= reader.asOf
  <2>1. /\ w \in Nat /\ DoneAt(w) \in Nat /\ w < DoneAt(w) /\ w <= mc /\ mc \in Nat
        /\ w \in reader.seen \cap Files
    BY <1>5, <1>7
  <2>2. w <= reader.asOf
    BY <1>2, <1>11, <2>1
  <2>3. w \in bs \cup ls
    BY <1>3, <2>1, NotSuperfluous
  <2>4. w \in ls
    BY <2>2, <2>3
  <2>5. ASSUME NEW b \in bs, b <= When(w) PROVE FALSE
    <3>1. b \in Nat /\ b <= mc /\ b <= DoneAt(w)
      BY <1>5, <1>6, <1>7, <1>8, <1>9, <2>1, <2>4, <2>5
    <3>2. b <= reader.asOf
      BY <1>2, <1>11, <2>1, <3>1
    <3> QED BY <3>2
  <2> QED BY <2>2, <2>4, <2>5 DEF Alone
<1>12. CASE /\ s = NoSlice
            /\ \A l \in ls : Alone(bs, l) => ~(DoneAt(l) <= reader.asOf)
            /\ (\E l \in ls : Alone(bs, l)) => \E x \in ls : ~(x <= reader.asOf)
  <2>1. InBase(s) = {} /\ InLogs(s) = {}
    BY <1>12 DEF InBase, InLogs, NoSlice
  <2>2. ASSUME NEW w \in Writes \cap reader.seen,
               DoneAt(w) <= reader.asOf \/ mc <= reader.asOf
        PROVE  FALSE
    <3>1. w \in ls /\ Alone(bs, w)
      BY <1>11, <2>2
    <3>2. mc <= reader.asOf
      BY <1>12, <2>2, <3>1
    <3>3. PICK x \in ls : ~(x <= reader.asOf)
      BY <1>12, <3>1
    <3>4. x \in Nat /\ x <= mc /\ mc \in Nat
      BY <1>5, <1>6, <1>7
    <3> QED BY <1>2, <3>2, <3>3, <3>4
  <2>3. ExactSlice(s)
    BY <1>4, <2>1, <2>2 DEF ExactSlice, Merged
  <2> QED BY <1>1, <2>3
<1>13. ASSUME NEW k \in ls, s = [base |-> FALSE, key |-> k,
                                 logs |-> {l \in ls : Alone(bs, l)}]
       PROVE  ExactSlice(s)
  <2>1. InBase(s) = {} /\ InLogs(s) = {l \in ls : Alone(bs, l) /\ l <= reader.asOf}
    BY <1>13 DEF InBase, InLogs
  <2> QED BY <1>4, <1>6, <1>11, <2>1 DEF ExactSlice, Merged
<1> QED BY <1>1, <1>10, <1>12, <1>13, SliceOfNoBase

(* A read merges every write that completed by its timestamp exactly once, *)
(* whatever writers, compactions, the cleaner and the archiver do          *)
(* meanwhile and whichever listing it takes its files from                 *)
(* (load_file_groups in table/fs_view.rs, add_log_files in                 *)
(* file_group/mod.rs).                                                     *)
THEOREM ExactTheorem == Spec => []EachWriteOnce
<1>1. ASSUME IndInv, reader.pc = "listed", PlacedAlike, reader.viaMdt => reader.bases # {}
      PROVE  Exact(Slice(reader.bases, reader.logs))
  <2>1. PICK bs, ls : bs = reader.bases /\ ls = reader.logs
    OBVIOUS
  <2>2. Enough(bs, ls)
    BY <1>1, <2>1 DEF IndInv, ReaderInv
  <2>3. Alike(bs, ls)
    <3>1. \A l \in ls \ reader.completed :
             {b \in bs : b <= l} # {} /\ {b \in bs : l < b /\ b <= DoneAt(l)} = {}
      BY <1>1, <2>1 DEF PlacedAlike, Archived, DoneAt
    <3> QED BY <3>1 DEF Alike
  <2>4. ExactSlice(Slice(bs, ls))
    BY <1>1, <2>1, <2>2, <2>3, ExactFromBase, ExactFromLogs
  <2> QED BY <2>1, <2>4, ExactSliceIs
<1>2. IndInv => EachWriteOnce
  BY <1>1 DEF EachWriteOnce
<1> QED BY <1>2, Invariance, PTL

(* Where two listings each have enough, one has what the other has of the  *)
(* slices from the cleaned one on.                                         *)
LEMMA HoldingSame ==
    ASSUME IndInv, reader.pc = "listed", NEW bs, NEW ls, Enough(bs, ls),
           NEW cs, NEW ms, Enough(cs, ms), NEW k \in Nat, cleaned <= k
    PROVE  /\ k \in bs => k \in cs
           /\ Holding(bs, ls, k) \subseteq Holding(cs, ms, k)
<1>1. /\ bs \in SUBSET Times /\ ls \in SUBSET Times /\ cs \in SUBSET Times
      /\ cleaned \in Nat
  BY ListedFacts
<1>2. /\ bs \subseteq reader.seen \cap BaseFiles /\ cs \subseteq reader.seen \cap BaseFiles
      /\ ls \subseteq reader.seen \cap LogFiles
  BY DEF Enough
<1>3. BaseFiles \subseteq Files /\ LogFiles \subseteq Files
  BY DEF BaseFiles, LogFiles, Files, OfKind, Commits
<1>4. ASSUME NEW c \in reader.seen \cap BaseFiles, ~(c < cleaned) PROVE c \in bs /\ c \in cs
  BY <1>3, <1>4, NotSuperfluous
<1>5. k \in bs => k \in cs
  BY <1>1, <1>2, <1>4
<1>6. ASSUME NEW l \in Holding(bs, ls, k) PROVE l \in Holding(cs, ms, k)
  <2>1. l \in ls /\ k <= When(l) /\ \A c \in bs : k < c => ~(c <= When(l))
    BY <1>6 DEF Holding
  <2>2. l \in reader.seen \cap Files /\ l \in LogFiles
    BY <1>2, <1>3, <2>1
  <2>3. l \in Nat /\ DoneAt(l) \in Nat /\ l < DoneAt(l)
    BY <2>2, ListedFacts
  <2>4. When(l) \in Nat /\ When(l) <= DoneAt(l)
    BY <2>3 DEF When
  <2>5. l \in ms
    <3>1. ~(DoneAt(l) < cleaned)
      BY <1>1, <2>1, <2>3, <2>4
    <3> QED BY <2>2, <3>1, NotSuperfluous
  <2>6. ASSUME NEW c \in cs, k < c PROVE ~(c <= When(l))
    <3>1. c \in Nat
      BY <1>1, TimesAreNumbers
    <3>2. ~(c < cleaned)
      BY <1>1, <2>6, <3>1
    <3>3. c \in bs
      BY <1>2, <1>4, <3>2
    <3> QED BY <2>1, <2>6, <3>3
  <2> QED BY <2>1, <2>5, <2>6 DEF Holding
<1> QED BY <1>5, <1>6

LEMMA SameSlice ==
    ASSUME IndInv, reader.pc = "listed", NEW bs, NEW ls, Enough(bs, ls),
           NEW cs, NEW ms, Enough(cs, ms)
    PROVE  Slice(bs, ls) = Slice(cs, ms)
<1>1. /\ bs \in SUBSET Times /\ cs \in SUBSET Times /\ bs \cap ls = {} /\ cs \cap ms = {}
      /\ cleaned \in Nat /\ reader.asOf \in Nat /\ cleaned <= reader.asOf
      /\ cleaned # 0 => cleaned \in bs /\ cleaned \in cs
  BY ListedFacts
<1>2. CASE cleaned = 0
  <2>1. \A f \in reader.seen \cap Files : f \in bs \cup ls /\ f \in cs \cup ms
    BY <1>2, NotSuperfluous
  <2>2. /\ bs \subseteq reader.seen \cap BaseFiles /\ cs \subseteq reader.seen \cap BaseFiles
        /\ ls \subseteq reader.seen \cap LogFiles /\ ms \subseteq reader.seen \cap LogFiles
    BY DEF Enough
  <2>3. BaseFiles \subseteq Files /\ LogFiles \subseteq Files /\ BaseFiles \cap LogFiles = {}
    BY DEF BaseFiles, LogFiles, Files, OfKind, Commits
  <2>4. bs = cs /\ ls = ms
    BY <2>1, <2>2, <2>3
  <2> QED BY <2>4
<1>3. CASE cleaned # 0
  <2>1. PICK k \in bs :
             /\ k <= reader.asOf /\ \A c \in bs : c <= reader.asOf => c <= k
             /\ Slice(bs, ls) = [base |-> TRUE, key |-> k, logs |-> Holding(bs, ls, k)]
    BY <1>1, <1>3, SliceOfBase
  <2>2. PICK j \in cs :
             /\ j <= reader.asOf /\ \A c \in cs : c <= reader.asOf => c <= j
             /\ Slice(cs, ms) = [base |-> TRUE, key |-> j, logs |-> Holding(cs, ms, j)]
    BY <1>1, <1>3, SliceOfBase
  <2>3. k \in Nat /\ j \in Nat /\ cleaned <= k /\ cleaned <= j
    BY <1>1, <1>3, <2>1, <2>2, TimesAreNumbers
  <2>4. k \in cs /\ j \in bs
    BY <2>1, <2>2, <2>3, HoldingSame
  <2>5. k = j
    BY <2>1, <2>2, <2>3, <2>4
  <2>6. Holding(bs, ls, k) = Holding(cs, ms, k)
    BY <2>3, HoldingSame
  <2> QED BY <2>1, <2>2, <2>5, <2>6
<1> QED BY <1>2, <1>3

(* The metadata table, loaded at another moment than the timeline and kept *)
(* since, leads a read to the slice that storage would lead it to now      *)
(* (fold_filesystem_metadata in reader_v2/metadata_merger.rs, and the two  *)
(* branches of load_file_groups in table/fs_view.rs).                      *)
THEOREM AgreeTheorem == Spec => []ListingsAgree
<1>1. ASSUME IndInv, reader.pc = "listed"
      PROVE  Slice(reader.bases, reader.logs) =
                 Slice({b \in bases : IsCommitted(b)}, {l \in logs : IsCommitted(l)})
  <2>1. Enough(reader.bases, reader.logs)
    BY <1>1 DEF IndInv, ReaderInv
  <2>2. Enough({b \in bases : IsCommitted(b)}, {l \in logs : IsCommitted(l)})
    BY <1>1, StorageEnough
  <2> QED BY <1>1, <2>1, <2>2, SameSlice
<1>2. IndInv => ListingsAgree
  BY <1>1 DEF ListingsAgree
<1> QED BY <1>2, Invariance, PTL
=============================================================================
