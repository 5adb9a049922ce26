---------------------------- MODULE LogFileWalk ----------------------------
(***************************************************************************)
(* Reading one log file, byte by byte: the fetch window of the storage     *)
(* reader, the walk from block to block, the checks that find a damaged    *)
(* block and the search for the next one.  Both readers are here, the      *)
(* streaming walk that keeps headers and the eager one that decodes, which *)
(* the scanner of the older path runs.                                     *)
(*                                                                         *)
(* A file is a sequence of bytes in base Base.  Fields are scaled down:    *)
(* the magic marker is three bytes, a length is a two-byte word, version,  *)
(* type, instant, rollback target and the (empty) footer are one each.     *)
(* What is on disk comes from writers that append, and may die doing so.   *)
(***************************************************************************)
EXTENDS Integers, Sequences, SequencesExt

CONSTANTS Inputs,      \* [spans, eager, range]: a file, and how it is read
          WindowSize,  \* stream_window_size
          ScanBuffer,  \* BLOCK_SCAN_READ_BUFFER_SIZE
          Budget,      \* the residency budget of the walk
          Faults       \* whether storage may fail

Base == 64
Magic == <<61, 62, 63>>
MagicLen == Len(Magic)
WordLen == 2
WordMax == Base * Base - 1

Word(n) == <<n \div Base, n % Base>>
ValueOf(w) == w[1] * Base + w[2]

Command == 0
AvroData == 3
HfileData == 4
BlockTypes == 0 .. 6

VARIABLES
    input,     \* the file as its writers left it, and the request
    file,      \* its bytes
    reader,    \* StorageReader: [pos, start, window, fetches]
    pc,        \* where read_next_block stands
    magicPos,  \* offset of the block being read
    length,    \* its length field
    scanPos,   \* where the search for the next magic goes on
    budget,    \* resident_budget
    blocks,    \* the blocks read so far
    scanned,   \* the blocks the scanner hands on, by position
    err

vars == <<input, file, reader, pc, magicPos, length, scanPos, budget,
          blocks, scanned, err>>

----------------------------------------------------------------------------
(* The writers.  A span is a block [type, instant, target, content] and    *)
(* the number of its bytes that reached the file, with the length field it *)
(* was given.                                                              *)

BodyLen(b) == 4 + WordLen + Len(b.content) + 1 + WordLen
Encode(b, len) ==
    Magic \o Word(len)
          \o <<1, b.type, b.instant, b.target>>
          \o Word(Len(b.content)) \o b.content
          \o <<0>> \o Word(BodyLen(b) + MagicLen)

BytesOf(span) == SubSeq(Encode(span.block, span.len), 1, span.kept)
FileOf(spans) == FlattenSeq([i \in DOMAIN spans |-> BytesOf(spans[i])])

Block == [type : BlockTypes, instant : Nat, target : Nat, content : Seq(Nat)]
Span == [block : Block, len : Nat, kept : Nat]

ASSUME LogFileWalkAssumption ==
    /\ WindowSize \in Nat \ {0}
    /\ ScanBuffer \in Nat /\ ScanBuffer >= MagicLen
    /\ Budget \in Nat
    /\ \A in \in Inputs :
         /\ in.eager \in BOOLEAN
         /\ in.spans \in Seq(Span)
         /\ \A i \in DOMAIN in.spans :
              in.spans[i].kept <= Len(Encode(in.spans[i].block, in.spans[i].len))
         /\ Len(FileOf(in.spans)) <= WordMax

----------------------------------------------------------------------------
(* The storage reader.                                                     *)

FileLen == Len(file)
Slice(from, to) == SubSeq(file, from + 1, to)

Init ==
    /\ input \in Inputs
    /\ file = FileOf(input.spans)
    /\ reader = [pos |-> 0, start |-> 0, window |-> << >>, fetches |-> 0]
    /\ pc = "magic"
    /\ magicPos = 0 /\ length = 0 /\ scanPos = 0
    /\ budget = Budget
    /\ blocks = << >>
    /\ scanned = {}
    /\ err = "none"

Seek(r, p) == [r EXCEPT !.pos = p]

(* Fault: the last byte of the window is not counted.                      *)
WindowCoversShort(r, from, to) ==
    from >= r.start /\ to < r.start + Len(r.window)

WindowCovers(r, from, to) ==
    from >= r.start /\ to <= r.start + Len(r.window)

HasResident(r, from, to) ==
    IF input.eager THEN to <= FileLen ELSE WindowCovers(r, from, to)

FillWindow(r) ==
    LET end == IF r.pos + WindowSize > FileLen THEN FileLen
               ELSE r.pos + WindowSize
    IN  [r EXCEPT !.start = r.pos, !.window = Slice(r.pos, end),
                  !.fetches = @ + 1]

(* read_bytes: from the whole file, as a range of its own when longer than *)
(* a window, or out of the window.                                         *)
Direct(n) == input.eager \/ n > WindowSize
Filled(r, n) ==
    IF n = 0 \/ Direct(n) \/ WindowCovers(r, r.pos, r.pos + n)
    THEN r ELSE FillWindow(r)
Eof(r, n) ==
    n > 0 /\ \/ r.pos + n > FileLen
             \/ /\ ~Direct(n)
                /\ LET f == Filled(r, n)
                   IN  Len(f.window) - (f.pos - f.start) < n
BytesAt(r, n) ==
    IF n = 0 THEN << >>
    ELSE IF Direct(n) THEN Slice(r.pos, r.pos + n)
    ELSE LET f == Filled(r, n)
         IN  SubSeq(f.window, f.pos - f.start + 1, f.pos - f.start + n)
After(r, n) ==
    LET f == Filled(r, n)
    IN  [f EXCEPT !.pos = @ + n,
                  !.fetches = IF ~input.eager /\ n > WindowSize
                              THEN @ + 1 ELSE @]

----------------------------------------------------------------------------
(* The walk.                                                               *)

Fail(why) ==
    /\ pc' = "failed"
    /\ err' = why

ReadMagic ==
    /\ pc = "magic"
    /\ magicPos' = reader.pos
    /\ IF Eof(reader, MagicLen)
       THEN /\ pc' = IF input.eager THEN "collect" ELSE "done"
            /\ UNCHANGED <<reader, err>>
       ELSE /\ reader' = After(reader, MagicLen)
            /\ IF BytesAt(reader, MagicLen) = Magic
               THEN pc' = "length" /\ UNCHANGED err
               ELSE Fail("magic")
    /\ UNCHANGED <<input, file, length, scanPos, budget, blocks, scanned>>

ReadBlockLength ==
    /\ pc = "length"
    /\ IF Eof(reader, WordLen)
       THEN Fail("length") /\ UNCHANGED <<reader, length>>
       ELSE /\ length' = ValueOf(BytesAt(reader, WordLen))
            /\ reader' = After(reader, WordLen)
            /\ pc' = "check"
            /\ UNCHANGED err
    /\ UNCHANGED <<input, file, magicPos, scanPos, budget, blocks, scanned>>

AfterLength == magicPos + MagicLen + WordLen
BlockEnd == AfterLength + length
TrailingPos == BlockEnd - WordLen

(* checked_add and checked_sub: arithmetic that leaves the word is damage. *)
Overflows == BlockEnd > WordMax
RunsPastEnd == TrailingPos + WordLen > FileLen

(* Fault: the trailing length is compared with the header's as it stands.  *)
SizesDifferRaw(trailing) == trailing # length

(* The trailing length counts the magic, the header's does not.            *)
SizesDiffer(trailing) ==
    trailing < MagicLen \/ trailing - MagicLen # length

(* Fault: what follows a block is not looked at.                           *)
FollowedByAnything(r) == TRUE

FollowedByMagic(r) == Eof(r, MagicLen) \/ BytesAt(r, MagicLen) = Magic
AfterFollower(r) == IF Eof(r, MagicLen) THEN r ELSE After(r, MagicLen)

(* is_block_corrupted; the reader is left behind the length field.         *)
CheckBlock ==
    /\ pc = "check"
    /\ LET r1 == Seek(reader, TrailingPos)
           r2 == Seek(After(r1, WordLen), BlockEnd)
           differ == SizesDiffer(ValueOf(BytesAt(r1, WordLen)))
       IN  IF Overflows \/ RunsPastEnd
           THEN /\ pc' = "resync"
                /\ reader' = Seek(reader, AfterLength)
           ELSE IF differ
           THEN /\ pc' = "resync"
                /\ reader' = Seek(After(r1, WordLen), AfterLength)
           ELSE /\ pc' = IF FollowedByMagic(r2) THEN "body" ELSE "resync"
                /\ reader' = Seek(AfterFollower(r2), AfterLength)
    /\ scanPos' = magicPos + MagicLen
    /\ UNCHANGED <<input, file, magicPos, length, budget, blocks, scanned,
                   err>>

----------------------------------------------------------------------------
(* Finding the next block.                                                 *)

Corrupted ==
    [corrupt |-> TRUE, at |-> magicPos, type |-> 2, instant |-> 0,
     target |-> 0, from |-> 0, len |-> 0, bytes |-> << >>]

MagicIn(buf) == {i \in 0 .. Len(buf) - MagicLen :
                    SubSeq(buf, i + 1, i + MagicLen) = Magic}

(* create_corrupted_block, once the next offset is known.                  *)
ResumeAt(r, offset) ==
    /\ reader' = Seek(r, offset)
    /\ blocks' = Append(blocks, Corrupted)
    /\ pc' = "magic"
    /\ UNCHANGED scanPos

(* Fault: the next window starts where the last one ended.                 *)
NextScanPosDisjoint(window) == scanPos + window

(* Fault: a window without a marker is scanned again.                      *)
NextScanPosSame(window) == scanPos

(* Windows overlap by one byte less than a marker.                         *)
NextScanPos(window) == scanPos + window - (MagicLen - 1)

(* One window of scan_for_next_block_offset.                               *)
ScanForNextBlock ==
    LET remaining == FileLen - scanPos
        window == IF remaining < ScanBuffer THEN remaining ELSE ScanBuffer
        r == Seek(reader, scanPos)
        found == MagicIn(BytesAt(r, window))
    IN  /\ pc = "resync"
        /\ IF remaining <= 0 THEN ResumeAt(reader, FileLen)
           ELSE IF found # {}
           THEN ResumeAt(After(r, window),
                         scanPos + CHOOSE i \in found :
                                       \A j \in found : i <= j)
           ELSE IF window < ScanBuffer
           THEN ResumeAt(After(r, window), FileLen)
           ELSE /\ scanPos' = NextScanPos(window)
                /\ reader' = After(r, window)
                /\ UNCHANGED <<blocks, pc>>
        /\ UNCHANGED <<input, file, magicPos, length, budget, scanned, err>>

----------------------------------------------------------------------------
(* The body of a block that passed the checks.                             *)

HeaderOf(r) ==
    LET h == BytesAt(r, 4)
    IN  [version |-> h[1], type |-> h[2], instant |-> h[3], target |-> h[4]]
ValidHeader(h) == h.version = 1 /\ h.type \in BlockTypes

(* Fault: the content is said to start behind its length field.            *)
BlockReadPastLength(h, from, len, bytes) ==
    [corrupt |-> FALSE, at |-> magicPos, type |-> h.type,
     instant |-> h.instant, target |-> h.target,
     from |-> from + WordLen, len |-> len - WordLen, bytes |-> bytes]

BlockRead(h, from, len, bytes) ==
    [corrupt |-> FALSE, at |-> magicPos, type |-> h.type,
     instant |-> h.instant, target |-> h.target,
     from |-> from, len |-> len, bytes |-> bytes]

Affordable(len) == budget >= len

(* read_block_metadata for the footer, and read_total_block_length.        *)
FooterLen == 1 + WordLen

(* read_next_block_metadata_only: note where the content is, keep it if it *)
(* is in the window and affordable, and step over it.                      *)
ReadBodyMetadataOnly ==
    LET h == HeaderOf(reader)
        r1 == After(reader, 4)
        from == r1.pos
        len == ValueOf(BytesAt(r1, WordLen)) + WordLen
        r2 == After(r1, WordLen)
        keep == Affordable(len) /\ HasResident(r2, from, from + len)
        r3 == IF keep THEN After(Seek(r2, from), len) ELSE r2
        kept == IF keep THEN BytesAt(Seek(r2, from), len) ELSE << >>
        r4 == Seek(r3, from + len)
    IN  /\ pc = "body"
        /\ ~input.eager
        /\ IF \/ Eof(reader, 4) \/ ~ValidHeader(h)
              \/ Eof(r1, WordLen) \/ Eof(r4, FooterLen)
           THEN Fail("format") /\ UNCHANGED <<reader, budget, blocks>>
           ELSE /\ blocks' = Append(blocks, BlockRead(h, from, len, kept))
                /\ budget' = IF keep THEN budget - len ELSE budget
                /\ reader' = After(After(r4, 1), WordLen)
                /\ pc' = "magic"
                /\ UNCHANGED err
        /\ UNCHANGED <<input, file, magicPos, length, scanPos, scanned>>

(* read_next_block: skip a block out of range, decode any other out of its *)
(* own span.                                                               *)
ReadBodyEager ==
    LET h == HeaderOf(reader)
        r1 == After(reader, 4)
        from == r1.pos
        span == BytesAt(r1, BlockEnd - from)
        len == ValueOf(SubSeq(span, 1, WordLen)) + WordLen
        r2 == Seek(r1, from + len)
    IN  /\ pc = "body"
        /\ input.eager
        /\ IF Eof(reader, 4) \/ ~ValidHeader(h)
           THEN Fail("format") /\ UNCHANGED <<reader, blocks>>
           ELSE IF h.instant \notin input.range
           THEN /\ reader' = Seek(r1, BlockEnd)
                /\ pc' = "magic"
                /\ UNCHANGED <<blocks, err>>
           ELSE IF \/ BlockEnd - from < WordLen \/ BlockEnd - from < len
                   \/ Eof(r2, FooterLen)
           THEN Fail("format") /\ UNCHANGED <<reader, blocks>>
           ELSE /\ blocks' = Append(blocks,
                       BlockRead(h, from, len, SubSeq(span, 1, len)))
                /\ reader' = After(After(r2, 1), WordLen)
                /\ pc' = "magic"
                /\ UNCHANGED err
        /\ UNCHANGED <<input, file, magicPos, length, scanPos, budget,
                       scanned>>

----------------------------------------------------------------------------
(* LogFileScanner: the blocks no rollback block speaks of.                 *)

IsRollback(b) == ~b.corrupt /\ b.type = Command

(* Fault: rollbacks are applied while the blocks are collected.            *)
RollbackTargetsSoFar ==
    {blocks[i].target : i \in {j \in DOMAIN blocks :
        IsRollback(blocks[j]) /\ j = 1}}

RollbackTargets ==
    {blocks[i].target : i \in {j \in DOMAIN blocks : IsRollback(blocks[j])}}

(* detect_content_type refuses a file of both Arrow and HFile blocks; Avro,*)
(* Parquet and CDC blocks are of the first kind.                           *)
ArrowTypes == {AvroData, 5, 6}

MixedTypes ==
    LET types == {blocks[i].type : i \in DOMAIN blocks}
    IN  HfileData \in types /\ types \cap ArrowTypes # {}

IterValidBlocks ==
    {i \in DOMAIN blocks : /\ ~blocks[i].corrupt /\ ~IsRollback(blocks[i])
                           /\ blocks[i].instant \notin RollbackTargets}

Collect ==
    /\ pc = "collect"
    /\ IF MixedTypes
       THEN Fail("mixed") /\ UNCHANGED scanned
       ELSE /\ scanned' = IterValidBlocks
            /\ pc' = "done"
            /\ UNCHANGED err
    /\ UNCHANGED <<input, file, reader, magicPos, length, scanPos, budget,
                   blocks>>

StorageFails ==
    /\ Faults
    /\ pc \notin {"collect", "done", "failed"}
    /\ Fail("storage")
    /\ UNCHANGED <<input, file, reader, magicPos, length, scanPos, budget,
                   blocks, scanned>>

Finished ==
    /\ pc \in {"done", "failed"}
    /\ UNCHANGED vars

Walk ==
    \/ ReadMagic \/ ReadBlockLength \/ CheckBlock \/ ScanForNextBlock
    \/ ReadBodyMetadataOnly \/ ReadBodyEager \/ Collect

Next == Walk \/ StorageFails \/ Finished

(* One task runs the walk and is scheduled; that storage fails is never    *)
(* counted on.                                                             *)
Spec == Init /\ [][Next]_vars /\ WF_vars(Walk)

----------------------------------------------------------------------------
TypeOK ==
    /\ reader.pos \in 0 .. FileLen
    /\ ~input.eager => Len(reader.window) <= WindowSize
    /\ pc \in {"magic", "length", "check", "body", "resync", "collect",
               "done", "failed"}
    /\ length \in 0 .. WordMax
    /\ budget \in 0 .. Budget
    /\ (pc = "failed") = (err # "none")

(* Where a span lies in its file.                                          *)
StartOf(spans, i) ==
    Len(FlattenSeq([j \in 1 .. i - 1 |-> BytesOf(spans[j])]))
EndOf(spans, i) == StartOf(spans, i) + spans[i].kept

MarkerAt(f, p) ==
    p + MagicLen <= Len(f) /\ SubSeq(f, p + 1, p + MagicLen) = Magic
WordAt(f, p) == ValueOf(SubSeq(f, p + 1, p + WordLen))

(* Where a block may end: a torn marker behind a block hides the block, it *)
(* cannot be told from a length field that points to the wrong place.      *)
Boundary(f, p) == Len(f) - p < MagicLen \/ MarkerAt(f, p)

Whole(s) ==
    /\ s.len = BodyLen(s.block)
    /\ s.kept = Len(Encode(s.block, s.len))
Intact(f, spans) ==
    {i \in DOMAIN spans : Whole(spans[i]) /\ Boundary(f, EndOf(spans, i))}

(* The eager reader is asked for a range of instants.                      *)
Readable(f, in) ==
    {i \in Intact(f, in.spans) :
        in.eager => in.spans[i].block.instant \in in.range}

ReadsAs(b, f, in, i) ==
    LET s == in.spans[i].block
    IN  /\ b.at = StartOf(in.spans, i)
        /\ b.type = s.type /\ b.instant = s.instant /\ b.target = s.target
        /\ SubSeq(f, b.from + 1, b.from + b.len)
              = Word(Len(s.content)) \o s.content
        /\ in.eager \/ b.bytes # << >>
              => b.bytes = SubSeq(f, b.from + 1, b.from + b.len)

Found == {n \in DOMAIN blocks : ~blocks[n].corrupt}

(* However the file was damaged, and wherever windows were cut, a walk     *)
(* that ends has read exactly the blocks that were written whole, once     *)
(* each and in order, each with its own header and its own content;        *)
(* nothing made of the remains of others passes for a block.  Both readers *)
(* do.                                                                     *)
WalkExact ==
    pc = "done" =>
        /\ \A n \in Found : \E i \in Readable(file, input) :
              ReadsAs(blocks[n], file, input, i)
        /\ \A i \in Readable(file, input) : \E n \in Found :
              blocks[n].at = StartOf(input.spans, i)
        /\ \A m, n \in Found : m < n => blocks[m].at < blocks[n].at

(* Damage is reported: a walk that ends has left a corrupt marker where    *)
(* each span that could not be read begins, unless too little of it is     *)
(* left to be found.                                                       *)
DamageSeen ==
    pc = "done" =>
        \A i \in DOMAIN input.spans \ Intact(file, input.spans) :
            input.spans[i].kept >= MagicLen
            => \E n \in DOMAIN blocks :
                   /\ blocks[n].corrupt
                   /\ blocks[n].at = StartOf(input.spans, i)

(* One bad span does not fail the file, with two exceptions: a torn marker *)
(* at its start, and a file that ends inside a length field.               *)
FailsOnlyTorn ==
    /\ err = "magic" => input.spans[1].kept < MagicLen
    /\ err = "length" =>
          \E p \in 0 .. FileLen - MagicLen :
              MarkerAt(file, p) /\ FileLen - (p + MagicLen) < WordLen
    /\ err # "format"

(* What these three presume of a file: no bytes but those of an intact     *)
(* block pass the checks of is_block_corrupted, so that the remains of a   *)
(* torn block hold nothing that looks like a block.                        *)
PassesAt(f, p) ==
    LET end == p + MagicLen + WordLen + WordAt(f, p + MagicLen)
    IN  /\ MarkerAt(f, p)
        /\ p + MagicLen + WordLen <= Len(f)
        /\ end <= Len(f)
        /\ WordAt(f, end - WordLen) = WordAt(f, p + MagicLen) + MagicLen
        /\ Boundary(f, end)
Legible(f, spans) ==
    \A p \in 0 .. Len(f) :
        PassesAt(f, p) =>
            \E i \in Intact(f, spans) :
                p \in StartOf(spans, i) .. EndOf(spans, i) - 1

(* Bytes a block carries are those of the file at the location recorded    *)
(* for it, length field included, whichever window they came from: taking  *)
(* them now or fetching the location later decodes the same.  This holds   *)
(* of any bytes, damaged or not.                                           *)
ContentLocated ==
    \A n \in DOMAIN blocks :
        LET b == blocks[n]
        IN  b.bytes # << >> =>
                /\ b.from + b.len <= FileLen
                /\ b.bytes = Slice(b.from, b.from + b.len)

Kept == [n \in DOMAIN blocks |-> Len(blocks[n].bytes)]

(* The walk of the headers keeps no more than its budget, whatever the     *)
(* window holds, and a file no larger than a window costs one request.     *)
WithinLimits ==
    ~input.eager =>
        /\ MapThenSumSet(LAMBDA n : Kept[n], DOMAIN blocks) <= Budget
        /\ FileLen <= WindowSize => reader.fetches <= 1

(* The scanner takes rollback targets as a set.  As long as no instant is  *)
(* written again after its rollback, that is what the order of the blocks  *)
(* says: a block counts unless a later one rolls its instant back.         *)
NotRewritten ==
    \A i, j \in DOMAIN blocks :
        i < j /\ IsRollback(blocks[i]) =>
            IsRollback(blocks[j]) \/ blocks[j].instant # blocks[i].target
RolledBackLater(i) ==
    \E j \in i + 1 .. Len(blocks) :
        IsRollback(blocks[j]) /\ blocks[j].target = blocks[i].instant
ScannerExact ==
    pc = "done" /\ input.eager /\ NotRewritten =>
        scanned = {i \in DOMAIN blocks :
                      /\ ~blocks[i].corrupt /\ ~IsRollback(blocks[i])
                      /\ ~RolledBackLater(i)}

(* Every walk ends.                                                        *)
WalkEnds == <>(pc \in {"done", "failed"})
=============================================================================
