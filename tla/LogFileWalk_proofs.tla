------------------------ MODULE LogFileWalk_proofs -------------------------
(***************************************************************************)
(* Theorems about reading one log file, for any bytes in it, any window,   *)
(* search buffer and budget, and storage that may fail at any read.        *)
(***************************************************************************)
EXTENDS LogFileWalk, FiniteLemmas

LEMMA Widths == MagicLen = 3 /\ WordLen = 2 /\ FooterLen = 3
BY DEF MagicLen, Magic, WordLen, FooterLen

-----------------------------------------------------------------------------
(* The storage reader. *)

(* What a reader holds is a piece of the file, from where it says. *)
WindowTrue(r) ==
    /\ r \in [pos : Nat, start : Nat, window : Seq(Nat), fetches : Nat]
    /\ r.start + Len(r.window) <= FileLen
    /\ r.window = Slice(r.start, r.start + Len(r.window))

(* A streamed file no larger than a window: before its first request, and  *)
(* after it, when all of it is in the window.                              *)
Small == ~input.eager /\ FileLen <= WindowSize
Unread(r) == r.fetches = 0 /\ r.pos = 0 /\ r.window = << >>
Loaded(r) == r.fetches = 1 /\ r.start = 0 /\ Len(r.window) = FileLen

LEMMA ReaderFields ==
    ASSUME file \in Seq(Nat), NEW r, WindowTrue(r)
    PROVE  /\ r.pos \in Nat /\ r.start \in Nat /\ r.window \in Seq(Nat)
           /\ r.fetches \in Nat /\ Len(r.window) \in Nat
           /\ FileLen \in Nat /\ WindowSize \in Nat
<1>1. r \in [pos : Nat, start : Nat, window : Seq(Nat), fetches : Nat]
  BY DEF WindowTrue
<1>2. r.pos \in Nat /\ r.start \in Nat /\ r.window \in Seq(Nat) /\ r.fetches \in Nat
  BY ONLY <1>1
<1>3. Len(r.window) \in Nat
  BY <1>2
<1> QED BY <1>2, <1>3, LogFileWalkAssumption DEF FileLen

LEMMA SliceProps ==
    ASSUME file \in Seq(Nat), NEW a \in Nat, NEW b \in Nat, a <= b, b <= FileLen
    PROVE  /\ Slice(a, b) \in Seq(Nat) /\ Len(Slice(a, b)) = b - a
           /\ \A k \in 1 .. (b - a) : Slice(a, b)[k] = file[a + k]
BY DEF Slice, FileLen

(* A piece of a piece. *)
LEMMA SubSlice ==
    ASSUME file \in Seq(Nat), NEW a \in Nat, NEW b \in Nat, b <= FileLen,
           NEW p \in Nat, NEW q \in Nat, a <= p, p <= q, q <= b
    PROVE  SubSeq(Slice(a, b), p - a + 1, q - a) = Slice(p, q)
<1>1. PICK s : s = Slice(a, b)
  OBVIOUS
<1>2. FileLen \in Nat /\ a <= b /\ p - a \in Nat /\ q - p \in Nat /\ q <= FileLen
  BY DEF FileLen
<1>3. /\ s \in Seq(Nat) /\ Len(s) = b - a
      /\ \A k \in 1 .. (b - a) : s[k] = file[a + k]
  BY <1>1, <1>2, SliceProps
<1>4. PICK t : t = SubSeq(s, p - a + 1, q - a)
  OBVIOUS
<1>5. t \in Seq(Nat) /\ Len(t) = q - p /\ \A k \in 1 .. q - p : t[k] = s[p - a + k]
  <2>1. PICK o, n : o = p - a /\ n = q - p
    OBVIOUS
  <2>2. o \in Nat /\ n \in Nat /\ o + n <= Len(s) /\ q - a = o + n
    BY <1>2, <1>3, <2>1
  <2>3. t = SubSeq(s, o + 1, o + n)
    BY <1>4, <2>1, <2>2
  <2>4. t \in Seq(Nat) /\ Len(t) = n /\ \A k \in 1 .. n : t[k] = s[o + k]
    BY <1>3, <2>2, <2>3
  <2> QED BY <2>1, <2>4
<1>6. PICK u : u = Slice(p, q)
  OBVIOUS
<1>7. u \in Seq(Nat) /\ Len(u) = q - p /\ \A k \in 1 .. q - p : u[k] = file[p + k]
  BY <1>2, <1>6, SliceProps
<1>8. ASSUME NEW k \in 1 .. q - p PROVE t[k] = u[k]
  <2>1. p - a + k \in 1 .. (b - a) /\ a + (p - a + k) = p + k
    BY <1>2
  <2> QED BY <1>3, <1>5, <1>7, <2>1
<1> QED BY <1>1, <1>4, <1>5, <1>6, <1>7, <1>8

(* A window filled at the cursor covers any read that is not longer. *)
LEMMA FillProps ==
    ASSUME file \in Seq(Nat), NEW r, WindowTrue(r), NEW n \in Nat,
           n <= WindowSize, r.pos + n <= FileLen
    PROVE  /\ WindowTrue(FillWindow(r))
           /\ FillWindow(r).pos = r.pos /\ FillWindow(r).start = r.pos
           /\ n <= Len(FillWindow(r).window)
           /\ FillWindow(r).fetches = r.fetches + 1
           /\ r.pos = 0 /\ FileLen <= WindowSize => Len(FillWindow(r).window) = FileLen
<1>1. WindowSize \in Nat /\ FileLen \in Nat /\ r.pos \in Nat /\ r.fetches \in Nat
  BY ReaderFields
<1>2. PICK end : end = IF r.pos + WindowSize > FileLen THEN FileLen
                       ELSE r.pos + WindowSize
  OBVIOUS
<1>3. end \in Nat /\ r.pos + n <= end /\ end <= FileLen /\ r.pos <= end
  BY <1>1, <1>2
<1>4. PICK w : w = Slice(r.pos, end)
  OBVIOUS
<1>5. w \in Seq(Nat) /\ Len(w) = end - r.pos
  BY <1>1, <1>3, <1>4, SliceProps
<1>6. PICK f : f = FillWindow(r)
  OBVIOUS
<1>7. f = [r EXCEPT !.start = r.pos, !.window = w, !.fetches = r.fetches + 1]
  BY <1>2, <1>4, <1>6 DEF FillWindow
<1>8. r \in [pos : Nat, start : Nat, window : Seq(Nat), fetches : Nat]
  BY DEF WindowTrue
<1>9. /\ f.pos = r.pos /\ f.start = r.pos /\ f.window = w
      /\ f.fetches = r.fetches + 1
      /\ f \in [pos : Nat, start : Nat, window : Seq(Nat), fetches : Nat]
  <2>1. PICK p : p = r.pos
    OBVIOUS
  <2>2. PICK x : x = r.fetches + 1
    OBVIOUS
  <2>3. f = [r EXCEPT !.start = p, !.window = w, !.fetches = x]
    BY <1>7, <2>1, <2>2
  <2>4. p \in Nat /\ x \in Nat /\ w \in Seq(Nat)
    BY <1>1, <1>5, <2>1, <2>2
  <2>5. /\ f.pos = r.pos /\ f.start = p /\ f.window = w /\ f.fetches = x
        /\ f \in [pos : Nat, start : Nat, window : Seq(Nat), fetches : Nat]
    BY ONLY <1>8, <2>3, <2>4
  <2> QED BY <2>1, <2>2, <2>5
<1>10. f.start + Len(f.window) = end
  BY <1>1, <1>3, <1>5, <1>9
<1>11. WindowTrue(f)
  BY <1>3, <1>4, <1>9, <1>10 DEF WindowTrue
<1>12. n <= Len(f.window)
  BY <1>1, <1>3, <1>5, <1>9
<1>13. r.pos = 0 /\ FileLen <= WindowSize => Len(f.window) = FileLen
  BY <1>1, <1>2, <1>5, <1>9
<1> QED BY <1>6, <1>9, <1>11, <1>12, <1>13

(* The reader before it hands bytes out of the window. *)
LEMMA FilledProps ==
    ASSUME file \in Seq(Nat), NEW r, WindowTrue(r), NEW n \in Nat,
           r.pos + n <= FileLen, NEW f, f = Filled(r, n)
    PROVE  /\ WindowTrue(f) /\ f.pos = r.pos
           /\ n > 0 /\ ~Direct(n) =>
                f.start <= f.pos /\ f.pos + n <= f.start + Len(f.window)
           /\ Small /\ Loaded(r) => f = r
           /\ Small /\ Unread(r) /\ n > 0 => Loaded(f)
<1>1. /\ r.pos \in Nat /\ r.start \in Nat /\ r.window \in Seq(Nat)
      /\ r.fetches \in Nat /\ Len(r.window) \in Nat
      /\ FileLen \in Nat /\ WindowSize \in Nat
  BY ReaderFields
<1>2. Small /\ n > 0 => ~Direct(n)
  BY <1>1 DEF Small, Direct
<1>3. CASE n = 0 \/ Direct(n) \/ WindowCovers(r, r.pos, r.pos + n)
  <2>1. f = r
    BY <1>3 DEF Filled
  <2>2. n > 0 /\ ~Direct(n) =>
          r.start <= r.pos /\ r.pos + n <= r.start + Len(r.window)
    BY <1>1, <1>3 DEF WindowCovers
  <2>3. ~ (Small /\ Unread(r) /\ n > 0)
    <3> SUFFICES ASSUME Small, Unread(r), n > 0 PROVE FALSE
      OBVIOUS
    <3>1. Len(r.window) = 0 /\ r.pos = 0
      BY DEF Unread
    <3> QED BY <1>1, <1>2, <2>2, <3>1
  <2> QED BY <2>1, <2>2, <2>3
<1>4. CASE ~ (n = 0 \/ Direct(n) \/ WindowCovers(r, r.pos, r.pos + n))
  <2>1. f = FillWindow(r)
    BY <1>4 DEF Filled
  <2>2. n <= WindowSize /\ n > 0
    BY <1>1, <1>4 DEF Direct
  <2>3. /\ WindowTrue(f) /\ f.pos = r.pos /\ f.start = r.pos
        /\ n <= Len(f.window) /\ f.fetches = r.fetches + 1
        /\ r.pos = 0 /\ FileLen <= WindowSize => Len(f.window) = FileLen
    BY <2>1, <2>2, FillProps
  <2>4. ~Loaded(r)
    <3> SUFFICES ASSUME Loaded(r) PROVE FALSE
      OBVIOUS
    <3>1. r.start = 0 /\ Len(r.window) = FileLen
      BY DEF Loaded
    <3> QED BY <1>1, <1>4, <3>1 DEF WindowCovers
  <2>5. Len(f.window) \in Nat
    BY <2>3, ReaderFields
  <2>6. f.start <= f.pos /\ f.pos + n <= f.start + Len(f.window)
    BY <1>1, <2>3, <2>5
  <2>7. Small /\ Unread(r) => Loaded(f)
    BY <2>3 DEF Small, Unread, Loaded
  <2> QED BY <2>3, <2>4, <2>6, <2>7
<1> QED BY <1>3, <1>4

(***************************************************************************)
(* A read inside the file succeeds - the error of read_bytes for a window  *)
(* that came short is never taken - and returns the file's own bytes.      *)
(***************************************************************************)
LEMMA ReadProps ==
    ASSUME file \in Seq(Nat), input.eager \in BOOLEAN, NEW r, WindowTrue(r),
           NEW n \in Nat, r.pos + n <= FileLen
    PROVE  /\ ~Eof(r, n)
           /\ WindowTrue(After(r, n)) /\ After(r, n).pos = r.pos + n
           /\ BytesAt(r, n) = Slice(r.pos, r.pos + n)
           /\ BytesAt(r, n) \in Seq(Nat) /\ Len(BytesAt(r, n)) = n
           /\ Small /\ (Loaded(r) \/ (Unread(r) /\ n > 0)) => Loaded(After(r, n))
<1>1. PICK f : f = Filled(r, n)
  OBVIOUS
<1>2. /\ WindowTrue(f) /\ f.pos = r.pos
      /\ n > 0 /\ ~Direct(n) =>
           f.start <= f.pos /\ f.pos + n <= f.start + Len(f.window)
      /\ Small /\ Loaded(r) => f = r
      /\ Small /\ Unread(r) /\ n > 0 => Loaded(f)
  BY <1>1, FilledProps
<1>3. /\ f.pos \in Nat /\ f.start \in Nat /\ f.window \in Seq(Nat)
      /\ f.fetches \in Nat /\ Len(f.window) \in Nat
      /\ FileLen \in Nat /\ WindowSize \in Nat /\ r.pos \in Nat
  BY <1>2, ReaderFields
<1>4. ~Eof(r, n)
  BY <1>1, <1>2, <1>3 DEF Eof
<1>5. PICK a : a = After(r, n)
  OBVIOUS
<1>6. PICK x : x = IF ~input.eager /\ n > WindowSize THEN f.fetches + 1 ELSE f.fetches
  OBVIOUS
<1>7. a = [f EXCEPT !.pos = f.pos + n, !.fetches = x]
  BY <1>1, <1>5, <1>6 DEF After
<1>8. x \in Nat /\ f.pos + n \in Nat
  BY <1>3, <1>6
<1>9. f \in [pos : Nat, start : Nat, window : Seq(Nat), fetches : Nat]
  BY <1>2 DEF WindowTrue
<1>10. /\ a \in [pos : Nat, start : Nat, window : Seq(Nat), fetches : Nat]
       /\ a.pos = f.pos + n /\ a.start = f.start /\ a.window = f.window
       /\ a.fetches = x
  BY ONLY <1>7, <1>8, <1>9
<1>11. WindowTrue(a) /\ a.pos = r.pos + n
  BY <1>2, <1>10 DEF WindowTrue
<1>12. Small /\ Loaded(f) => Loaded(a)
  BY <1>3, <1>6, <1>10 DEF Loaded, Small
<1>13. PICK e : e = r.pos + n
  OBVIOUS
<1>14. e \in Nat /\ r.pos <= e /\ e <= FileLen /\ e - r.pos = n
  BY ONLY <1>3, <1>13, n \in Nat, r.pos + n <= FileLen
<1>15. Slice(r.pos, e) \in Seq(Nat) /\ Len(Slice(r.pos, e)) = n
  BY <1>3, <1>14, SliceProps
<1>16. BytesAt(r, n) = Slice(r.pos, e)
  <2>1. CASE n = 0
    <3>1. BytesAt(r, n) = << >>
      BY <2>1 DEF BytesAt
    <3> QED BY <1>15, <2>1, <3>1
  <2>2. CASE n # 0 /\ Direct(n)
    BY <1>13, <2>2 DEF BytesAt
  <2>3. CASE n # 0 /\ ~Direct(n)
    <3>1. BytesAt(r, n) = SubSeq(f.window, f.pos - f.start + 1, f.pos - f.start + n)
      BY <1>1, <2>3 DEF BytesAt
    <3>2. PICK b, st, p : b = f.start + Len(f.window) /\ st = f.start /\ p = f.pos
      OBVIOUS
    <3>3. st \in Nat /\ b \in Nat /\ p \in Nat /\ st <= p /\ p <= e /\ e <= b
      <4>1. f.start <= f.pos /\ f.pos + n <= f.start + Len(f.window)
        BY <1>2, <2>3
      <4> QED BY <1>2, <1>3, <1>13, <1>14, <3>2, <4>1
    <3>4. b <= FileLen /\ f.window = Slice(st, b)
      BY <1>2, <3>2 DEF WindowTrue
    <3>5. SubSeq(Slice(st, b), p - st + 1, e - st) = Slice(p, e)
      BY <1>14, <3>3, <3>4, SubSlice
    <3>6. p = r.pos /\ p - st + n = e - st
      BY <1>2, <1>3, <1>13, <3>2, <3>3
    <3> QED BY <3>1, <3>2, <3>4, <3>5, <3>6
  <2> QED BY <2>1, <2>2, <2>3
<1>17. Small /\ (Loaded(r) \/ (Unread(r) /\ n > 0)) => Loaded(a)
  BY <1>2, <1>12
<1> QED BY <1>4, <1>5, <1>11, <1>13, <1>15, <1>16, <1>17

(* The end of the file, and nothing else, is the end of the file. *)
LEMMA EofExact ==
    ASSUME file \in Seq(Nat), input.eager \in BOOLEAN, NEW r, WindowTrue(r),
           NEW n \in Nat, ~Eof(r, n), n > 0
    PROVE  r.pos + n <= FileLen
<1>1. r.pos \in Nat /\ FileLen \in Nat
  BY DEF WindowTrue, FileLen
<1> QED BY <1>1 DEF Eof

(* Seeking moves the cursor only. *)
LEMMA SeekProps ==
    ASSUME NEW r, WindowTrue(r), NEW p \in Nat
    PROVE  /\ WindowTrue(Seek(r, p)) /\ Seek(r, p).pos = p
           /\ Loaded(r) => Loaded(Seek(r, p))
<1>1. PICK s : s = Seek(r, p)
  OBVIOUS
<1>2. s = [r EXCEPT !.pos = p]
  BY <1>1 DEF Seek
<1>3. /\ s \in [pos : Nat, start : Nat, window : Seq(Nat), fetches : Nat]
      /\ s.pos = p /\ s.start = r.start /\ s.window = r.window
      /\ s.fetches = r.fetches
  BY <1>2 DEF WindowTrue
<1> QED BY <1>1, <1>3 DEF WindowTrue, Loaded

-----------------------------------------------------------------------------
(***************************************************************************)
(* The invariant of the walk, in three parts: where the cursor stands and  *)
(* what the window holds; what the blocks carry, and that it was paid for; *)
(* what the scanner made of the blocks.                                    *)
(***************************************************************************)
BlockRecord == [corrupt : BOOLEAN, at : Nat, type : Nat, instant : Nat,
                target : Nat, from : Nat, len : Nat, bytes : Seq(Nat)]

CursorInv ==
    /\ file \in Seq(Nat) /\ input.eager \in BOOLEAN
    /\ WindowTrue(reader) /\ reader.pos <= FileLen
    /\ magicPos \in Nat /\ length \in Nat /\ scanPos \in Nat
    /\ pc = "length" => reader.pos = magicPos + MagicLen
    /\ pc \in {"check", "body", "resync"} => AfterLength <= FileLen
    /\ pc = "body" => reader.pos = AfterLength /\ BlockEnd <= FileLen
    /\ Small => \/ Loaded(reader)
                \/ Unread(reader) /\ pc \in {"magic", "done", "failed"}

ContentInv ==
    /\ blocks \in Seq(BlockRecord) /\ budget \in Nat
    /\ ContentLocated
    /\ ~input.eager => SumOver(Kept, DOMAIN blocks) + budget = Budget

ScannerInv == pc = "done" /\ input.eager => scanned = IterValidBlocks

WalkInv == CursorInv /\ ContentInv /\ ScannerInv

(* Files are sequences of bytes. *)
LEMMA WordType ==
    ASSUME NEW n \in Nat PROVE Word(n) \in Seq(Nat) /\ Len(Word(n)) = 2
<1>1. n \div Base \in Nat /\ n % Base \in Nat
  BY DEF Base
<1> QED BY <1>1 DEF Word

LEMMA EncodeType ==
    ASSUME NEW b \in Block, NEW len \in Nat
    PROVE  Encode(b, len) \in Seq(Nat)
<1>1. /\ b.type \in Nat /\ b.instant \in Nat /\ b.target \in Nat
      /\ b.content \in Seq(Nat)
  BY DEF Block, BlockTypes
<1>2. Len(b.content) \in Nat /\ BodyLen(b) + MagicLen \in Nat
  BY <1>1, Widths DEF BodyLen
<1>3. /\ Word(len) \in Seq(Nat) /\ Word(Len(b.content)) \in Seq(Nat)
      /\ Word(BodyLen(b) + MagicLen) \in Seq(Nat)
  BY <1>2, WordType
<1>4. Magic \in Seq(Nat) /\ <<0>> \in Seq(Nat)
      /\ <<1, b.type, b.instant, b.target>> \in Seq(Nat)
  BY <1>1 DEF Magic
<1>5. \A s, t \in Seq(Nat) : s \o t \in Seq(Nat)
  OBVIOUS
<1> QED BY <1>1, <1>3, <1>4, <1>5 DEF Encode

LEMMA FileType == Init => file \in Seq(Nat)
<1> SUFFICES ASSUME Init PROVE file \in Seq(Nat)
  OBVIOUS
<1>1. PICK ss : ss = input.spans
  OBVIOUS
<1>2. /\ ss \in Seq(Span)
      /\ \A i \in DOMAIN ss : ss[i].kept <= Len(Encode(ss[i].block, ss[i].len))
  BY <1>1, LogFileWalkAssumption DEF Init
<1>3. ASSUME NEW i \in DOMAIN ss PROVE BytesOf(ss[i]) \in Seq(Nat)
  <2>1. ss[i] \in Span
    BY <1>2
  <2>2. ss[i].block \in Block /\ ss[i].len \in Nat /\ ss[i].kept \in Nat
    BY <2>1 DEF Span
  <2>3. PICK e : e = Encode(ss[i].block, ss[i].len)
    OBVIOUS
  <2>4. e \in Seq(Nat) /\ ss[i].kept <= Len(e)
    BY <1>2, <2>2, <2>3, EncodeType
  <2>5. PICK k : k = ss[i].kept
    OBVIOUS
  <2>6. SubSeq(e, 1, k) \in Seq(Nat)
    BY ONLY <2>2, <2>4, <2>5
  <2> QED BY <2>3, <2>5, <2>6 DEF BytesOf
<1>4. PICK bs : bs = [i \in DOMAIN ss |-> BytesOf(ss[i])]
  OBVIOUS
<1>5. bs \in Seq(Seq(Nat))
  BY <1>2, <1>3, <1>4
<1>6. FlattenSeq(bs) \in Seq(Nat)
  BY <1>5, FlattenType
<1> QED BY <1>1, <1>4, <1>6 DEF Init, FileOf

LEMMA WalkInit == Init => WalkInv
<1> SUFFICES ASSUME Init PROVE WalkInv
  OBVIOUS
<1>1. file \in Seq(Nat) /\ input.eager \in BOOLEAN
  BY FileType, LogFileWalkAssumption DEF Init
<1>2. reader = [pos |-> 0, start |-> 0, window |-> << >>, fetches |-> 0]
  BY DEF Init
<1>3. FileLen \in Nat
  BY <1>1 DEF FileLen
<1>4. Slice(0, 0) = << >>
  BY <1>1 DEF Slice
<1>5. WindowTrue(reader) /\ Unread(reader) /\ reader.pos <= FileLen
  BY <1>2, <1>3, <1>4 DEF WindowTrue, Unread
<1>6. CursorInv
  BY <1>1, <1>5 DEF Init, CursorInv
<1>7. Budget \in Nat
  BY LogFileWalkAssumption
<1>8. SumOver(Kept, DOMAIN blocks) = 0
  <2>1. blocks = << >>
    BY DEF Init
  <2>2. DOMAIN blocks = {} /\ Kept \in [{} -> Nat]
    BY <2>1 DEF Kept
  <2>3. PICK k : k = Kept
    OBVIOUS
  <2>4. IsFiniteSet({})
    BY FS_EmptySet
  <2>5. SumOver(k, {}) = 0
    BY <2>2, <2>3, <2>4, SumProps
  <2> QED BY <2>2, <2>3, <2>5
<1>9. ContentInv
  BY <1>7, <1>8 DEF Init, ContentInv, ContentLocated
<1>10. ScannerInv
  BY DEF Init, ScannerInv
<1> QED BY <1>6, <1>9, <1>10 DEF WalkInv

(* Fields of the block at hand. *)
LEMMA Places ==
    ASSUME CursorInv
    PROVE  /\ AfterLength \in Nat /\ AfterLength = magicPos + 5
           /\ BlockEnd \in Nat /\ BlockEnd = AfterLength + length
           /\ TrailingPos \in Nat /\ TrailingPos + 2 = BlockEnd
           /\ FileLen \in Nat
BY Widths DEF CursorInv, AfterLength, BlockEnd, TrailingPos, FileLen

(* A word is a natural. *)
LEMMA ValueType ==
    ASSUME NEW s \in Seq(Nat), Len(s) = 2 PROVE ValueOf(s) \in Nat
<1>1. s[1] \in Nat /\ s[2] \in Nat
  OBVIOUS
<1> QED BY <1>1 DEF ValueOf, Base

LEMMA MagicCursor ==
    ASSUME CursorInv, ReadMagic
    PROVE  CursorInv'
<1>1. /\ pc = "magic" /\ magicPos' = reader.pos
      /\ UNCHANGED <<input, file, length, scanPos>>
  BY DEF ReadMagic
<1>2. /\ file \in Seq(Nat) /\ input.eager \in BOOLEAN
      /\ WindowTrue(reader) /\ reader.pos <= FileLen /\ reader.pos \in Nat
      /\ FileLen \in Nat
  BY ReaderFields DEF CursorInv
<1>3. CASE Eof(reader, MagicLen)
  <2>1. UNCHANGED reader /\ pc' = IF input.eager THEN "collect" ELSE "done"
    BY <1>3 DEF ReadMagic
  <2> QED
    BY <1>1, <1>2, <2>1
       DEF CursorInv, WindowTrue, FileLen, Slice, Small, Loaded, Unread
<1>4. CASE ~Eof(reader, MagicLen)
  <2>1. reader' = After(reader, MagicLen) /\ pc' \in {"length", "failed"}
    BY <1>4 DEF ReadMagic, Fail
  <2>2. MagicLen \in Nat /\ MagicLen > 0
    BY Widths
  <2>3. reader.pos + MagicLen <= FileLen
    BY <1>2, <1>4, <2>2, EofExact
  <2>4. PICK a : a = After(reader, MagicLen)
    OBVIOUS
  <2>5. /\ WindowTrue(a) /\ a.pos = reader.pos + MagicLen
        /\ Small /\ (Loaded(reader) \/ (Unread(reader) /\ MagicLen > 0)) => Loaded(a)
    BY <1>2, <2>2, <2>3, <2>4, ReadProps
  <2>6. Small => Loaded(a)
    BY <2>2, <2>5 DEF CursorInv
  <2>7. reader' = a
    BY <2>1, <2>4
  <2> QED
    BY <1>1, <1>2, <2>1, <2>3, <2>5, <2>6, <2>7
       DEF CursorInv, WindowTrue, FileLen, Slice, Small, Loaded
<1> QED BY <1>3, <1>4

LEMMA LengthCursor ==
    ASSUME CursorInv, ReadBlockLength
    PROVE  CursorInv'
<1>1. /\ pc = "length" /\ UNCHANGED <<input, file, magicPos, scanPos>>
  BY DEF ReadBlockLength
<1>2. /\ file \in Seq(Nat) /\ input.eager \in BOOLEAN
      /\ WindowTrue(reader) /\ reader.pos <= FileLen /\ reader.pos \in Nat
      /\ FileLen \in Nat /\ magicPos \in Nat
      /\ reader.pos = magicPos + MagicLen
      /\ Small => Loaded(reader)
  BY <1>1, ReaderFields DEF CursorInv
<1>3. CASE Eof(reader, WordLen)
  <2>1. UNCHANGED <<reader, length>> /\ pc' = "failed"
    BY <1>3 DEF ReadBlockLength, Fail
  <2> QED
    BY <1>1, <1>2, <2>1
       DEF CursorInv, WindowTrue, FileLen, Slice, Small, Loaded
<1>4. CASE ~Eof(reader, WordLen)
  <2>1. /\ reader' = After(reader, WordLen) /\ pc' = "check"
        /\ length' = ValueOf(BytesAt(reader, WordLen))
    BY <1>4 DEF ReadBlockLength
  <2>2. WordLen \in Nat /\ WordLen > 0
    BY Widths
  <2>3. reader.pos + WordLen <= FileLen
    BY <1>2, <1>4, <2>2, EofExact
  <2>4. PICK a : a = After(reader, WordLen)
    OBVIOUS
  <2>5. PICK w : w = BytesAt(reader, WordLen)
    OBVIOUS
  <2>6. /\ WindowTrue(a) /\ a.pos = reader.pos + WordLen
        /\ w \in Seq(Nat) /\ Len(w) = WordLen
        /\ Small /\ (Loaded(reader) \/ (Unread(reader) /\ WordLen > 0)) => Loaded(a)
    BY <1>2, <2>2, <2>3, <2>4, <2>5, ReadProps
  <2>7. length' \in Nat
    BY <2>1, <2>5, <2>6, ValueType, Widths
  <2>8. reader' = a /\ Small => Loaded(a)
    BY <1>2, <2>1, <2>4, <2>6
  <2>9. AfterLength' = magicPos + MagicLen + WordLen
    BY <1>1 DEF AfterLength
  <2>10. AfterLength' <= FileLen
    BY <1>2, <2>2, <2>3, <2>9, Widths
  <2>11. a.pos <= FileLen /\ reader' = a
    BY <2>1, <2>3, <2>4, <2>6
  <2> QED
    BY <1>1, <1>2, <2>1, <2>6, <2>7, <2>8, <2>10, <2>11
       DEF CursorInv, WindowTrue, FileLen, Slice, Small, Loaded
<1> QED BY <1>3, <1>4

(* What the later steps of the walk must see to for the cursor. *)
LEMMA CursorStep ==
    ASSUME CursorInv, UNCHANGED <<input, file, magicPos, length>>,
           scanPos' \in Nat, NEW a, reader' = a, WindowTrue(a),
           a.pos <= FileLen, Small => Loaded(a), pc' # "length",
           pc' \in {"check", "body", "resync"} => AfterLength <= FileLen,
           pc' = "body" => a.pos = AfterLength /\ BlockEnd <= FileLen
    PROVE  CursorInv'
BY DEF CursorInv, WindowTrue, FileLen, Slice, Small, Loaded, AfterLength, BlockEnd

LEMMA CheckCursor ==
    ASSUME CursorInv, CheckBlock
    PROVE  CursorInv'
<1>1. /\ pc = "check" /\ UNCHANGED <<input, file, magicPos, length>>
      /\ scanPos' = magicPos + MagicLen
  BY DEF CheckBlock
<1>2. /\ file \in Seq(Nat) /\ input.eager \in BOOLEAN
      /\ WindowTrue(reader) /\ magicPos \in Nat /\ AfterLength <= FileLen
      /\ Small => Loaded(reader)
  BY <1>1 DEF CursorInv
<1>3. /\ AfterLength \in Nat /\ AfterLength = magicPos + 5
      /\ BlockEnd \in Nat /\ BlockEnd = AfterLength + length
      /\ TrailingPos \in Nat /\ TrailingPos + 2 = BlockEnd
      /\ FileLen \in Nat
  BY Places
<1>4. scanPos' \in Nat
  BY <1>1, <1>2, Widths
<1>5. PICK r1 : r1 = Seek(reader, TrailingPos)
  OBVIOUS
<1>6. WindowTrue(r1) /\ r1.pos = TrailingPos /\ (Small => Loaded(r1))
  BY <1>2, <1>3, <1>5, SeekProps
<1>7. PICK t : t = After(r1, WordLen)
  OBVIOUS
<1>8. PICK r2 : r2 = Seek(t, BlockEnd)
  OBVIOUS
<1>9. CASE Overflows \/ RunsPastEnd
  <2>1. pc' = "resync" /\ reader' = Seek(reader, AfterLength)
    BY <1>9 DEF CheckBlock
  <2>2. PICK a : a = Seek(reader, AfterLength)
    OBVIOUS
  <2>3. /\ WindowTrue(a) /\ a.pos = AfterLength
        /\ Loaded(reader) => Loaded(a)
    BY <1>2, <1>3, <2>2, SeekProps
  <2>4. reader' = a
    BY <2>1, <2>2
  <2>5. Small => Loaded(a)
    BY <1>2, <2>3
  <2> QED BY <1>1, <1>2, <1>4, <2>1, <2>3, <2>4, <2>5, CursorStep
<1>10. CASE ~ (Overflows \/ RunsPastEnd)
  <2>1. BlockEnd <= FileLen /\ r1.pos + WordLen <= FileLen /\ WordLen \in Nat
        /\ MagicLen \in Nat /\ MagicLen > 0
    BY <1>3, <1>6, <1>10, Widths DEF RunsPastEnd
  <2>2. /\ WindowTrue(t)
        /\ Small /\ (Loaded(r1) \/ (Unread(r1) /\ WordLen > 0)) => Loaded(t)
    BY <1>2, <1>6, <1>7, <2>1, ReadProps
  <2>3. Small => Loaded(t)
    BY <1>2, <1>6, <2>2
  <2>4. PICK b : b = AfterFollower(r2)
    OBVIOUS
  <2>5. WindowTrue(r2) /\ r2.pos = BlockEnd /\ (Loaded(t) => Loaded(r2))
    BY <1>3, <1>8, <2>2, SeekProps
  <2>6. WindowTrue(b) /\ (Small => Loaded(b))
    <3>1. CASE Eof(r2, MagicLen)
      <4>1. b = r2
        BY <2>4, <3>1 DEF AfterFollower
      <4> QED BY <2>3, <2>5, <4>1
    <3>2. CASE ~Eof(r2, MagicLen)
      <4>1. b = After(r2, MagicLen)
        BY <2>4, <3>2 DEF AfterFollower
      <4>2. r2.pos + MagicLen <= FileLen
        BY <1>2, <2>1, <2>5, <3>2, EofExact
      <4>3. /\ WindowTrue(b)
            /\ Small /\ (Loaded(r2) \/ (Unread(r2) /\ MagicLen > 0)) => Loaded(b)
        BY <1>2, <2>1, <2>5, <4>1, <4>2, ReadProps
      <4> QED BY <2>3, <2>5, <4>3
    <3> QED BY <3>1, <3>2
  <2>7. /\ pc' \in {"body", "resync"}
        /\ reader' = Seek(t, AfterLength) \/ reader' = Seek(b, AfterLength)
    BY <1>5, <1>7, <1>8, <1>10, <2>4 DEF CheckBlock
  <2>8. PICK c : (c = t \/ c = b) /\ reader' = Seek(c, AfterLength)
    BY <2>7
  <2>9. WindowTrue(c) /\ (Small => Loaded(c))
    BY <2>2, <2>3, <2>6, <2>8
  <2>10. PICK a : a = Seek(c, AfterLength)
    OBVIOUS
  <2>11. WindowTrue(a) /\ a.pos = AfterLength /\ (Loaded(c) => Loaded(a))
    BY <1>3, <2>9, <2>10, SeekProps
  <2>12. reader' = a /\ (Small => Loaded(a))
    BY <2>8, <2>9, <2>10, <2>11
  <2> QED BY <1>1, <1>2, <1>4, <2>1, <2>7, <2>11, <2>12, CursorStep
<1> QED BY <1>9, <1>10

(* The search reads inside the file and resumes inside the file. *)
LEMMA ScanCursor ==
    ASSUME CursorInv, ScanForNextBlock
    PROVE  /\ CursorInv'
           /\ UNCHANGED <<input, file, budget, scanned>>
           /\ blocks' = blocks \/ blocks' = Append(blocks, Corrupted)
           /\ pc' # "done"
<1>1. pc = "resync" /\ UNCHANGED <<input, file, magicPos, length, budget, scanned>>
  BY DEF ScanForNextBlock
<1>2. /\ file \in Seq(Nat) /\ input.eager \in BOOLEAN
      /\ WindowTrue(reader) /\ scanPos \in Nat /\ AfterLength <= FileLen
      /\ Small => Loaded(reader)
  BY <1>1 DEF CursorInv
<1>3. FileLen \in Nat /\ ScanBuffer \in Nat /\ ScanBuffer >= 3 /\ MagicLen = 3
  BY <1>2, LogFileWalkAssumption, Widths DEF FileLen
<1>4. PICK remaining : remaining = FileLen - scanPos
  OBVIOUS
<1>5. PICK window : window = IF remaining < ScanBuffer THEN remaining ELSE ScanBuffer
  OBVIOUS
<1>6. PICK r : r = Seek(reader, scanPos)
  OBVIOUS
<1>7. PICK found : found = MagicIn(BytesAt(r, window))
  OBVIOUS
<1>8. PICK x : x = After(r, window)
  OBVIOUS
<1>9. WindowTrue(r) /\ r.pos = scanPos /\ (Loaded(reader) => Loaded(r))
  BY <1>2, <1>6, SeekProps
<1>10. IF remaining <= 0 THEN ResumeAt(reader, FileLen)
       ELSE IF found # {}
       THEN ResumeAt(x, scanPos + CHOOSE i \in found : \A j \in found : i <= j)
       ELSE IF window < ScanBuffer THEN ResumeAt(x, FileLen)
       ELSE /\ scanPos' = NextScanPos(window)
            /\ reader' = x
            /\ UNCHANGED <<blocks, pc>>
  BY <1>4, <1>5, <1>6, <1>7, <1>8 DEF ScanForNextBlock
<1>11. ASSUME NEW c, WindowTrue(c), Small => Loaded(c),
              NEW p \in Nat, p <= FileLen, ResumeAt(c, p)
       PROVE  /\ CursorInv' /\ blocks' = Append(blocks, Corrupted)
              /\ pc' # "done"
  <2>1. PICK a : a = Seek(c, p)
    OBVIOUS
  <2>2. WindowTrue(a) /\ a.pos = p /\ (Loaded(c) => Loaded(a))
    BY <1>11, <2>1, SeekProps
  <2>3. reader' = a /\ pc' = "magic" /\ scanPos' \in Nat
        /\ blocks' = Append(blocks, Corrupted)
    BY <1>2, <1>11, <2>1 DEF ResumeAt
  <2>4. Small => Loaded(a)
    BY <1>11, <2>2
  <2>5. CursorInv'
    BY <1>1, <1>11, <2>2, <2>3, <2>4, CursorStep
  <2> QED BY <2>3, <2>5
<1>12. CASE remaining <= 0
  <2>1. ResumeAt(reader, FileLen)
    BY <1>10, <1>12
  <2> QED BY <1>1, <1>2, <1>3, <1>11, <2>1
<1>13. CASE ~ (remaining <= 0)
  <2>1. /\ window \in Nat /\ r.pos + window <= FileLen
    BY <1>2, <1>3, <1>4, <1>5, <1>9, <1>13
  <2>2. /\ WindowTrue(x) /\ x.pos = scanPos + window
        /\ BytesAt(r, window) \in Seq(Nat) /\ Len(BytesAt(r, window)) = window
        /\ Small /\ (Loaded(r) \/ (Unread(r) /\ window > 0)) => Loaded(x)
    BY <1>2, <1>8, <1>9, <2>1, ReadProps
  <2>3. Small => Loaded(x)
    BY <1>2, <1>9, <2>2
  <2>4. CASE found # {}
    <3>1. PICK b : b = BytesAt(r, window)
      OBVIOUS
    <3>2. found \subseteq 0 .. window - 3
      <4>1. Len(b) = window
        BY <2>2, <3>1
      <4> QED BY <1>3, <1>7, <3>1, <4>1 DEF MagicIn
    <3>3. PICK i : i = CHOOSE k \in found : \A j \in found : k <= j
      OBVIOUS
    <3>4. \E k \in found : \A j \in found : k <= j
      <4>1. found \in SUBSET (0 .. window)
        BY <2>1, <3>2
      <4> QED BY <2>1, <2>4, <4>1, LeastOf
    <3>5. i \in found
      BY <3>3, <3>4
    <3>6. PICK p : p = scanPos + i
      OBVIOUS
    <3>7. p \in Nat /\ p <= FileLen
      BY <1>2, <1>3, <1>9, <2>1, <3>2, <3>5, <3>6
    <3>8. ResumeAt(x, p)
      BY <1>10, <1>13, <2>4, <3>3, <3>6
    <3> QED BY <1>1, <1>11, <2>2, <2>3, <3>7, <3>8
  <2>5. CASE found = {} /\ window < ScanBuffer
    <3>1. ResumeAt(x, FileLen)
      BY <1>10, <1>13, <2>5
    <3> QED BY <1>1, <1>3, <1>11, <2>2, <2>3, <3>1
  <2>6. CASE found = {} /\ ~ (window < ScanBuffer)
    <3>1. scanPos' = NextScanPos(window) /\ reader' = x /\ UNCHANGED <<blocks, pc>>
      BY <1>10, <1>13, <2>6
    <3>2. scanPos' \in Nat
      BY <1>2, <1>3, <2>1, <2>6, <3>1 DEF NextScanPos
    <3>3. x.pos <= FileLen
      BY <1>9, <2>1, <2>2
    <3>4. CursorInv'
      BY <1>1, <1>2, <2>2, <2>3, <3>1, <3>2, <3>3, CursorStep
    <3> QED BY <1>1, <3>1, <3>4
  <2> QED BY <2>4, <2>5, <2>6
<1> QED BY <1>12, <1>13

-----------------------------------------------------------------------------
(* The body of a block. *)

LEMMA FourFields ==
    ASSUME NEW s \in Seq(Nat), Len(s) = 4
    PROVE  s[2] \in Nat /\ s[3] \in Nat /\ s[4] \in Nat
OBVIOUS

LEMMA HeaderType ==
    ASSUME file \in Seq(Nat), input.eager \in BOOLEAN, WindowTrue(reader),
           ~Eof(reader, 4), NEW h, h = HeaderOf(reader)
    PROVE  /\ reader.pos + 4 <= FileLen
           /\ h.type \in Nat /\ h.instant \in Nat /\ h.target \in Nat
<1>1. reader.pos + 4 <= FileLen
  BY EofExact
<1>2. PICK s : s = BytesAt(reader, 4)
  OBVIOUS
<1>3. s \in Seq(Nat) /\ Len(s) = 4
  BY <1>1, <1>2, ReadProps
<1>4. s[2] \in Nat /\ s[3] \in Nat /\ s[4] \in Nat
  BY <1>3, FourFields
<1>5. h = [version |-> s[1], type |-> s[2], instant |-> s[3], target |-> s[4]]
  BY <1>2 DEF HeaderOf
<1> QED BY <1>1, <1>4, <1>5

(* What is read off behind the content: the footer, and the total length.  *)
LEMMA FooterCursor ==
    ASSUME file \in Seq(Nat), input.eager \in BOOLEAN, NEW r, WindowTrue(r),
           ~Eof(r, FooterLen), NEW a, a = After(After(r, 1), WordLen)
    PROVE  /\ WindowTrue(a) /\ a.pos <= FileLen /\ r.pos + 3 <= FileLen
           /\ Small /\ Loaded(r) => Loaded(a)
<1>1. r.pos + 3 <= FileLen
  BY Widths, EofExact
<1>2. r.pos \in Nat /\ FileLen \in Nat
  BY ReaderFields
<1>3. PICK m : m = After(r, 1)
  OBVIOUS
<1>4. r.pos + 1 <= FileLen
  BY <1>1, <1>2
<1>5. /\ WindowTrue(m) /\ m.pos = r.pos + 1
      /\ Small /\ (Loaded(r) \/ (Unread(r) /\ 1 > 0)) => Loaded(m)
  BY <1>3, <1>4, ReadProps
<1>6. m.pos + 2 <= FileLen
  BY <1>1, <1>2, <1>5
<1>7. a = After(m, 2)
  BY <1>3, Widths
<1>8. /\ WindowTrue(a) /\ a.pos = m.pos + 2
      /\ Small /\ (Loaded(m) \/ (Unread(m) /\ 2 > 0)) => Loaded(a)
  BY <1>5, <1>6, <1>7, ReadProps
<1> QED BY <1>1, <1>5, <1>6, <1>8

LEMMA BlockType ==
    ASSUME CursorInv, NEW h, h.type \in Nat, h.instant \in Nat, h.target \in Nat,
           NEW from \in Nat, NEW len \in Nat, NEW bytes \in Seq(Nat),
           NEW b, b = BlockRead(h, from, len, bytes)
    PROVE  /\ b \in BlockRecord
           /\ b.from = from /\ b.len = len /\ b.bytes = bytes
<1>1. magicPos \in Nat
  BY DEF CursorInv
<1> QED BY <1>1 DEF BlockRead, BlockRecord

(* The streaming reader: the cursor stays in the file; what is kept was    *)
(* in the window, is the content at its location, and is paid for.         *)
LEMMA MetadataBody ==
    ASSUME CursorInv, budget \in Nat, ReadBodyMetadataOnly
    PROVE  /\ CursorInv' /\ pc' # "done" /\ UNCHANGED <<input, file, scanned>>
           /\ \/ UNCHANGED <<blocks, budget>>
              \/ \E b \in BlockRecord :
                   /\ blocks' = Append(blocks, b)
                   /\ b.bytes # << >> =>
                        /\ b.from + b.len <= FileLen
                        /\ b.bytes = Slice(b.from, b.from + b.len)
                   /\ budget' \in Nat /\ Len(b.bytes) + budget' = budget
<1>1. /\ pc = "body" /\ ~input.eager
      /\ UNCHANGED <<input, file, magicPos, length, scanPos, scanned>>
  BY DEF ReadBodyMetadataOnly
<1>2. /\ file \in Seq(Nat) /\ input.eager \in BOOLEAN /\ WindowTrue(reader)
      /\ reader.pos <= FileLen /\ scanPos \in Nat
      /\ Small => Loaded(reader)
  BY <1>1 DEF CursorInv
<1>3. PICK h : h = HeaderOf(reader)
  OBVIOUS
<1>4. PICK r1 : r1 = After(reader, 4)
  OBVIOUS
<1>5. PICK from : from = r1.pos
  OBVIOUS
<1>6. PICK len : len = ValueOf(BytesAt(r1, WordLen)) + WordLen
  OBVIOUS
<1>7. PICK r2 : r2 = After(r1, WordLen)
  OBVIOUS
<1>8. PICK keep : keep = (Affordable(len) /\ HasResident(r2, from, from + len))
  OBVIOUS
<1>9. PICK r3 : r3 = IF keep THEN After(Seek(r2, from), len) ELSE r2
  OBVIOUS
<1>10. PICK kept : kept = IF keep THEN BytesAt(Seek(r2, from), len) ELSE << >>
  OBVIOUS
<1>11. PICK r4 : r4 = Seek(r3, from + len)
  OBVIOUS
<1>12. PICK bad : bad = (Eof(reader, 4) \/ ~ValidHeader(h) \/ Eof(r1, WordLen)
                         \/ Eof(r4, FooterLen))
  OBVIOUS
<1>13. IF bad THEN Fail("format") /\ UNCHANGED <<reader, budget, blocks>>
       ELSE /\ blocks' = Append(blocks, BlockRead(h, from, len, kept))
            /\ budget' = IF keep THEN budget - len ELSE budget
            /\ reader' = After(After(r4, 1), WordLen)
            /\ pc' = "magic"
            /\ UNCHANGED err
  BY <1>3, <1>4, <1>5, <1>6, <1>7, <1>8, <1>9, <1>10, <1>11, <1>12
     DEF ReadBodyMetadataOnly
<1>14. CASE bad
  <2>1. pc' = "failed" /\ UNCHANGED <<reader, budget, blocks>>
    BY <1>13, <1>14 DEF Fail
  <2>2. PICK a : a = reader
    OBVIOUS
  <2>3. CursorInv'
    BY <1>1, <1>2, <2>1, <2>2, CursorStep
  <2> QED BY <1>1, <2>1, <2>3
<1>15. CASE ~bad
  <2>1. ~Eof(reader, 4) /\ ~Eof(r1, WordLen) /\ ~Eof(r4, FooterLen)
    BY <1>12, <1>15
  <2>2. /\ reader.pos + 4 <= FileLen
        /\ h.type \in Nat /\ h.instant \in Nat /\ h.target \in Nat
    BY <1>2, <1>3, <2>1, HeaderType
  <2>3. /\ WindowTrue(r1)
        /\ Small /\ (Loaded(reader) \/ (Unread(reader) /\ 4 > 0)) => Loaded(r1)
    BY <1>2, <1>4, <2>2, ReadProps
  <2>4. Small => Loaded(r1)
    BY <1>2, <2>3
  <2>5. from \in Nat /\ FileLen \in Nat /\ WordLen \in Nat /\ WordLen > 0
    BY <1>2, <1>5, <2>3, ReaderFields, Widths
  <2>6. r1.pos + WordLen <= FileLen
    BY <1>2, <2>1, <2>3, <2>5, EofExact
  <2>7. PICK w : w = BytesAt(r1, WordLen)
    OBVIOUS
  <2>8. /\ WindowTrue(r2) /\ w \in Seq(Nat) /\ Len(w) = WordLen
        /\ Small /\ (Loaded(r1) \/ (Unread(r1) /\ WordLen > 0)) => Loaded(r2)
    BY <1>2, <1>7, <2>3, <2>5, <2>6, <2>7, ReadProps
  <2>9. Small => Loaded(r2)
    BY <2>4, <2>8
  <2>10. len \in Nat
    BY <1>6, <2>7, <2>8, ValueType, Widths
  <2>11. /\ WindowTrue(r3) /\ (Small => Loaded(r3)) /\ kept \in Seq(Nat)
         /\ keep => /\ kept = Slice(from, from + len) /\ Len(kept) = len
                    /\ from + len <= FileLen /\ budget >= len
         /\ ~keep => kept = << >>
    <3>1. CASE keep
      <4>1. budget >= len /\ WindowCovers(r2, from, from + len)
        BY <1>1, <1>8, <3>1 DEF Affordable, HasResident
      <4>2. r2.start + Len(r2.window) <= FileLen /\ r2.start \in Nat
            /\ Len(r2.window) \in Nat
        BY <1>2, <2>8, ReaderFields DEF WindowTrue
      <4>3. from + len <= FileLen
        BY <2>5, <2>10, <4>1, <4>2 DEF WindowCovers
      <4>4. PICK s : s = Seek(r2, from)
        OBVIOUS
      <4>5. WindowTrue(s) /\ s.pos = from /\ (Loaded(r2) => Loaded(s))
        BY <2>5, <2>8, <4>4, SeekProps
      <4>6. r3 = After(s, len) /\ kept = BytesAt(s, len)
        BY <1>9, <1>10, <3>1, <4>4
      <4>7. s.pos + len <= FileLen
        BY <4>3, <4>5
      <4>8. /\ WindowTrue(r3)
            /\ kept = Slice(s.pos, s.pos + len)
            /\ kept \in Seq(Nat) /\ Len(kept) = len
            /\ Small /\ (Loaded(s) \/ (Unread(s) /\ len > 0)) => Loaded(r3)
        BY <1>2, <2>10, <4>5, <4>6, <4>7, ReadProps
      <4>9. Small => Loaded(r3)
        BY <2>9, <4>5, <4>8
      <4> QED BY <3>1, <4>1, <4>3, <4>5, <4>8, <4>9
    <3>2. CASE ~keep
      BY <1>9, <1>10, <2>8, <2>9, <3>2
    <3> QED BY <3>1, <3>2
  <2>12. PICK e : e = from + len
    OBVIOUS
  <2>13. e \in Nat
    BY <2>5, <2>10, <2>12
  <2>14. WindowTrue(r4) /\ (Small => Loaded(r4))
    <3>1. r4 = Seek(r3, e)
      BY <1>11, <2>12
    <3>2. WindowTrue(r4) /\ (Loaded(r3) => Loaded(r4))
      BY <2>11, <2>13, <3>1, SeekProps
    <3> QED BY <2>11, <3>2
  <2>15. PICK a : a = After(After(r4, 1), WordLen)
    OBVIOUS
  <2>16. /\ WindowTrue(a) /\ a.pos <= FileLen
         /\ Small /\ Loaded(r4) => Loaded(a)
    BY <1>2, <2>1, <2>14, <2>15, FooterCursor
  <2>17. reader' = a /\ pc' = "magic" /\ (Small => Loaded(a))
    BY <1>13, <1>15, <2>14, <2>15, <2>16
  <2>18. CursorInv'
    BY <1>1, <1>2, <2>16, <2>17, CursorStep
  <2>19. PICK b : b = BlockRead(h, from, len, kept)
    OBVIOUS
  <2>20. b \in BlockRecord /\ b.from = from /\ b.len = len /\ b.bytes = kept
    BY <2>2, <2>5, <2>10, <2>11, <2>19, BlockType
  <2>21. blocks' = Append(blocks, b) /\ budget' = IF keep THEN budget - len ELSE budget
    BY <1>13, <1>15, <2>19
  <2>22. budget' \in Nat /\ Len(b.bytes) + budget' = budget
    <3>1. CASE keep
      <4>1. budget' = budget - len /\ Len(b.bytes) = len /\ budget >= len
        BY <2>11, <2>20, <2>21, <3>1
      <4> QED BY <2>10, <4>1
    <3>2. CASE ~keep
      <4>1. budget' = budget /\ b.bytes = << >>
        BY <2>11, <2>20, <2>21, <3>2
      <4> QED BY <4>1
    <3> QED BY <3>1, <3>2
  <2>23. b.bytes # << >> => /\ b.from + b.len <= FileLen
                            /\ b.bytes = Slice(b.from, b.from + b.len)
    BY <2>11, <2>20
  <2> QED BY <1>1, <2>17, <2>18, <2>20, <2>21, <2>22, <2>23
<1> QED BY <1>14, <1>15

(* The eager reader: the content is the front of the block's own span. *)
LEMMA EagerBody ==
    ASSUME CursorInv, ReadBodyEager
    PROVE  /\ CursorInv' /\ pc' # "done" /\ UNCHANGED <<input, file, budget, scanned>>
           /\ input.eager
           /\ \/ UNCHANGED blocks
              \/ \E b \in BlockRecord :
                   /\ blocks' = Append(blocks, b)
                   /\ b.from + b.len <= FileLen
                   /\ b.bytes = Slice(b.from, b.from + b.len)
<1>1. /\ pc = "body" /\ input.eager
      /\ UNCHANGED <<input, file, magicPos, length, scanPos, budget, scanned>>
  BY DEF ReadBodyEager
<1>2. /\ file \in Seq(Nat) /\ input.eager \in BOOLEAN /\ WindowTrue(reader)
      /\ reader.pos <= FileLen /\ scanPos \in Nat
      /\ BlockEnd <= FileLen /\ ~Small
  BY <1>1 DEF CursorInv, Small
<1>3. BlockEnd \in Nat /\ FileLen \in Nat
  BY Places
<1>4. PICK h : h = HeaderOf(reader)
  OBVIOUS
<1>5. PICK r1 : r1 = After(reader, 4)
  OBVIOUS
<1>6. PICK from : from = r1.pos
  OBVIOUS
<1>7. PICK n : n = BlockEnd - from
  OBVIOUS
<1>8. PICK span : span = BytesAt(r1, n)
  OBVIOUS
<1>9. PICK len : len = ValueOf(SubSeq(span, 1, WordLen)) + WordLen
  OBVIOUS
<1>10. PICK r2 : r2 = Seek(r1, from + len)
  OBVIOUS
<1>11. IF Eof(reader, 4) \/ ~ValidHeader(h)
       THEN Fail("format") /\ UNCHANGED <<reader, blocks>>
       ELSE IF h.instant \notin input.range
       THEN reader' = Seek(r1, BlockEnd) /\ pc' = "magic" /\ UNCHANGED <<blocks, err>>
       ELSE IF n < WordLen \/ n < len \/ Eof(r2, FooterLen)
       THEN Fail("format") /\ UNCHANGED <<reader, blocks>>
       ELSE /\ blocks' = Append(blocks, BlockRead(h, from, len, SubSeq(span, 1, len)))
            /\ reader' = After(After(r2, 1), WordLen)
            /\ pc' = "magic"
            /\ UNCHANGED err
  BY <1>4, <1>5, <1>6, <1>7, <1>8, <1>9, <1>10 DEF ReadBodyEager
<1>12. ASSUME Fail("format"), UNCHANGED <<reader, blocks>>
       PROVE  CursorInv' /\ pc' # "done" /\ UNCHANGED blocks
  <2>1. pc' = "failed"
    BY <1>12 DEF Fail
  <2>2. PICK a : a = reader
    OBVIOUS
  <2>3. CursorInv'
    BY <1>1, <1>2, <1>12, <2>1, <2>2, CursorStep
  <2> QED BY <1>12, <2>1, <2>3
<1>13. CASE Eof(reader, 4) \/ ~ValidHeader(h)
  BY <1>1, <1>11, <1>12, <1>13
<1>14. CASE ~ (Eof(reader, 4) \/ ~ValidHeader(h))
  <2>1. /\ reader.pos + 4 <= FileLen
        /\ h.type \in Nat /\ h.instant \in Nat /\ h.target \in Nat
    BY <1>2, <1>4, <1>14, HeaderType
  <2>2. WindowTrue(r1)
    BY <1>2, <1>5, <2>1, ReadProps
  <2>3. from \in Nat
    BY <1>2, <1>6, <2>2, ReaderFields
  <2>4. CASE h.instant \notin input.range
    <3>1. PICK a : a = Seek(r1, BlockEnd)
      OBVIOUS
    <3>2. WindowTrue(a) /\ a.pos = BlockEnd
      BY <1>3, <2>2, <3>1, SeekProps
    <3>3. reader' = a /\ pc' = "magic" /\ UNCHANGED blocks
      BY <1>11, <1>14, <2>4, <3>1
    <3>4. CursorInv'
      BY <1>1, <1>2, <3>2, <3>3, CursorStep
    <3> QED BY <1>1, <3>3, <3>4
  <2>5. CASE /\ h.instant \in input.range
             /\ n < WordLen \/ n < len \/ Eof(r2, FooterLen)
    BY <1>1, <1>11, <1>12, <1>14, <2>5
  <2>6. CASE /\ h.instant \in input.range
             /\ ~ (n < WordLen \/ n < len \/ Eof(r2, FooterLen))
    <3>1. n \in Nat /\ n >= 2 /\ r1.pos + n <= FileLen
      BY <1>2, <1>3, <1>6, <1>7, <2>3, <2>6, Widths
    <3>2. span \in Seq(Nat) /\ Len(span) = n /\ span = Slice(r1.pos, r1.pos + n)
      BY <1>2, <1>8, <2>2, <3>1, ReadProps
    <3>3. PICK w : w = SubSeq(span, 1, 2)
      OBVIOUS
    <3>4. w \in Seq(Nat) /\ Len(w) = 2
      BY ONLY <3>1, <3>2, <3>3
    <3>5. len \in Nat
      <4>1. len = ValueOf(w) + 2
        BY ONLY <1>9, <3>3, Widths
      <4>2. ValueOf(w) \in Nat
        BY ONLY <3>4, ValueType
      <4> QED BY ONLY <4>1, <4>2
    <3>6. len <= n
      BY <2>6, <3>1, <3>5
    <3>7. PICK e : e = from + n
      OBVIOUS
    <3>8. e \in Nat /\ e <= FileLen /\ from <= e /\ from + 0 + len <= e
          /\ span = Slice(from, e) /\ from + len <= FileLen
          /\ from + 0 = from
      BY <1>3, <1>6, <2>3, <3>1, <3>2, <3>5, <3>6, <3>7
    <3>9. PICK q : q = from + len
      OBVIOUS
    <3>10. PICK t : t = SubSeq(span, 1, len)
      OBVIOUS
    <3>11. t = Slice(from, from + len)
      <4>1. PICK c : c = from
        OBVIOUS
      <4>2. /\ q \in Nat /\ c \in Nat /\ from <= c /\ c <= q /\ q <= e
            /\ e \in Nat /\ e <= FileLen /\ file \in Seq(Nat)
        BY <1>2, <2>3, <3>5, <3>8, <3>9, <4>1
      <4>3. SubSeq(Slice(from, e), c - from + 1, q - from) = Slice(c, q)
        BY <2>3, <4>2, SubSlice
      <4>4. c - from + 1 = 1 /\ q - from = len
        BY <2>3, <3>5, <3>9, <4>1
      <4> QED BY <3>8, <3>9, <3>10, <4>1, <4>3, <4>4
    <3>12. t \in Seq(Nat)
      BY ONLY <3>2, <3>5, <3>6, <3>10, <3>1
    <3>13. PICK b : b = BlockRead(h, from, len, t)
      OBVIOUS
    <3>14. b \in BlockRecord /\ b.from = from /\ b.len = len /\ b.bytes = t
      BY <2>1, <2>3, <3>5, <3>12, <3>13, BlockType
    <3>15. /\ blocks' = Append(blocks, b) /\ pc' = "magic"
           /\ reader' = After(After(r2, 1), WordLen)
      BY <1>11, <1>14, <2>6, <3>10, <3>13
    <3>17. q \in Nat /\ r2 = Seek(r1, q)
      BY <1>10, <2>3, <3>5, <3>9
    <3>18. WindowTrue(r2)
      BY <2>2, <3>17, SeekProps
    <3>19. PICK a : a = After(After(r2, 1), WordLen)
      OBVIOUS
    <3>20. WindowTrue(a) /\ a.pos <= FileLen
      BY <1>2, <2>6, <3>18, <3>19, FooterCursor
    <3>21. reader' = a
      BY <3>15, <3>19
    <3>22. CursorInv'
      BY <1>1, <1>2, <3>15, <3>20, <3>21, CursorStep
    <3> QED BY <1>1, <3>8, <3>11, <3>14, <3>15, <3>22
  <2> QED BY <2>4, <2>5, <2>6
<1> QED BY <1>13, <1>14

-----------------------------------------------------------------------------
(* Content and budget. *)

LEMMA KeptType ==
    ASSUME blocks \in Seq(BlockRecord)
    PROVE  /\ IsFiniteSet(DOMAIN blocks) /\ Kept \in [DOMAIN blocks -> Nat]
           /\ SumOver(Kept, DOMAIN blocks) \in Nat
<1>1. Len(blocks) \in Nat /\ DOMAIN blocks = 1 .. Len(blocks)
  OBVIOUS
<1>2. IsFiniteSet(DOMAIN blocks)
  BY <1>1, FS_Interval
<1>3. ASSUME NEW n \in DOMAIN blocks PROVE blocks[n].bytes \in Seq(Nat)
  <2>1. blocks[n] \in BlockRecord
    OBVIOUS
  <2> QED BY <2>1 DEF BlockRecord
<1>4. \A n \in DOMAIN blocks : Len(blocks[n].bytes) \in Nat
  BY <1>3
<1>5. Kept \in [DOMAIN blocks -> Nat]
  BY <1>4 DEF Kept
<1>6. PICK k : k = Kept
  OBVIOUS
<1>7. PICK D : D = DOMAIN blocks
  OBVIOUS
<1>8. SumOver(k, D) \in Nat
  <2>1. D \in SUBSET D /\ IsFiniteSet(D) /\ k \in [D -> Nat]
    BY <1>2, <1>5, <1>6, <1>7
  <2> QED BY <2>1, SumProps
<1> QED BY <1>2, <1>5, <1>6, <1>7, <1>8

(* A block is added: its content is where it says, and it is paid for. *)
LEMMA AppendContent ==
    ASSUME ContentInv, file' = file, input' = input, NEW b \in BlockRecord,
           blocks' = Append(blocks, b),
           b.bytes # << >> => b.from + b.len <= FileLen
                              /\ b.bytes = Slice(b.from, b.from + b.len),
           budget' \in Nat, ~input.eager => Len(b.bytes) + budget' = budget
    PROVE  ContentInv'
<1>1. blocks \in Seq(BlockRecord) /\ budget \in Nat /\ Budget \in Nat
  BY LogFileWalkAssumption DEF ContentInv
<1>2. PICK N : N = Len(blocks)
  OBVIOUS
<1>3. PICK bs : bs = Append(blocks, b)
  OBVIOUS
<1>4. /\ N \in Nat /\ DOMAIN blocks = 1 .. N
      /\ bs \in Seq(BlockRecord) /\ DOMAIN bs = 1 .. N + 1
      /\ \A n \in 1 .. N : bs[n] = blocks[n]
      /\ bs[N + 1] = b
  BY <1>1, <1>2, <1>3
<1>5. blocks' = bs
  BY <1>3
<1>6. ContentLocated'
  <2>1. ASSUME NEW n \in 1 .. N + 1, bs[n].bytes # << >>
        PROVE  /\ bs[n].from + bs[n].len <= FileLen
               /\ bs[n].bytes = Slice(bs[n].from, bs[n].from + bs[n].len)
    <3>1. CASE n = N + 1
      BY <1>4, <2>1, <3>1
    <3>2. CASE n # N + 1
      <4>1. n \in DOMAIN blocks /\ bs[n] = blocks[n]
        BY <1>4, <3>2
      <4> QED BY <2>1, <4>1 DEF ContentInv, ContentLocated
    <3> QED BY <3>1, <3>2
  <2> QED BY <1>4, <1>5, <2>1 DEF ContentLocated, FileLen, Slice
<1>7. PICK f : f = Kept
  OBVIOUS
<1>8. PICK D : D = 1 .. N
  OBVIOUS
<1>9. IsFiniteSet(D) /\ f \in [D -> Nat] /\ SumOver(f, D) \in Nat
  BY <1>1, <1>4, <1>7, <1>8, KeptType
<1>10. PICK g : g = [n \in DOMAIN bs |-> Len(bs[n].bytes)]
  OBVIOUS
<1>11. PICK E : E = 1 .. N + 1
  OBVIOUS
<1>12. b.bytes \in Seq(Nat) /\ Len(b.bytes) \in Nat
  <2>1. b.bytes \in Seq(Nat)
    BY DEF BlockRecord
  <2> QED BY <2>1
<1>13. /\ IsFiniteSet(E) /\ g \in [E -> Nat]
       /\ \A n \in D : g[n] = f[n]
       /\ g[N + 1] = Len(b.bytes)
       /\ E = D \cup {N + 1} /\ N + 1 \in E \ D /\ D \in SUBSET E
  <2>1. IsFiniteSet(E)
    BY <1>4, <1>11, FS_Interval
  <2>2. E = D \cup {N + 1} /\ N + 1 \in E \ D /\ D \in SUBSET E
    BY <1>4, <1>8, <1>11
  <2>3. \A n \in D : g[n] = f[n]
    BY <1>4, <1>7, <1>8, <1>10 DEF Kept
  <2>4. g[N + 1] = Len(b.bytes)
    BY <1>4, <1>10
  <2>5. DOMAIN g = E /\ g = [n \in E |-> g[n]]
    BY <1>4, <1>10, <1>11
  <2>6. \A n \in E : g[n] \in Nat
    BY <1>9, <1>12, <2>2, <2>3, <2>4
  <2> QED BY <2>1, <2>2, <2>3, <2>4, <2>5, <2>6
<1>14. SumOver(g, D) = SumOver(f, D)
  <2>1. D \in SUBSET D
    OBVIOUS
  <2> QED BY <1>9, <1>13, <2>1, SumCong
<1>15. SumOver(g, D \cup {N + 1}) = g[N + 1] + SumOver(g, D)
  BY <1>13, SumInsert
<1>16. SumOver(g, E) = Len(b.bytes) + SumOver(f, D)
  BY <1>13, <1>14, <1>15
<1>17. (SumOver(Kept, DOMAIN blocks))' = SumOver(g, E)
  <2>1. Kept' = g /\ (DOMAIN blocks)' = E
    BY <1>4, <1>5, <1>10, <1>11 DEF Kept
  <2>2. (SumOver(Kept, DOMAIN blocks))' = SumOver(Kept', (DOMAIN blocks)')
    BY DEF SumOver, MapThenSumSet, MapThenFoldSet
  <2> QED BY <2>1, <2>2
<1>18. ~input.eager => (SumOver(Kept, DOMAIN blocks))' + budget' = Budget
  <2> SUFFICES ASSUME ~input.eager
               PROVE  (SumOver(Kept, DOMAIN blocks))' + budget' = Budget
    OBVIOUS
  <2>1. SumOver(f, D) + budget = Budget
    BY <1>4, <1>7, <1>8 DEF ContentInv
  <2>2. Len(b.bytes) + budget' = budget
    OBVIOUS
  <2> QED BY <1>1, <1>9, <1>12, <1>16, <1>17, <2>1, <2>2
<1> QED BY <1>4, <1>5, <1>6, <1>18 DEF ContentInv

(* A corrupt marker carries nothing. *)
LEMMA CorruptedType ==
    ASSUME CursorInv
    PROVE  Corrupted \in BlockRecord /\ Corrupted.bytes = << >>
<1>1. magicPos \in Nat
  BY DEF CursorInv
<1> QED BY <1>1 DEF Corrupted, BlockRecord

(* Steps that leave the blocks alone. *)
LEMMA ContentFrame ==
    ASSUME ContentInv, UNCHANGED <<input, file, blocks, budget>>
    PROVE  ContentInv'
<1>1. SumOver(Kept, DOMAIN blocks)' = SumOver(Kept, DOMAIN blocks)
  BY DEF Kept, SumOver, MapThenSumSet, MapThenFoldSet
<1> QED BY <1>1 DEF ContentInv, ContentLocated, FileLen, Slice

LEMMA WalkNext == WalkInv /\ [Next]_vars => WalkInv'
<1> SUFFICES ASSUME WalkInv, [Next]_vars PROVE WalkInv'
  OBVIOUS
<1>1. CursorInv /\ ContentInv /\ ScannerInv
  BY DEF WalkInv
<1>2. ASSUME CursorInv', ContentInv', pc' # "done"
      PROVE  WalkInv'
  BY <1>2 DEF WalkInv, ScannerInv
<1>3. CASE ReadMagic
  <2>1. CursorInv' /\ ContentInv'
    <3>1. UNCHANGED <<input, file, blocks, budget>>
      BY <1>3 DEF ReadMagic
    <3> QED BY <1>1, <1>3, <3>1, MagicCursor, ContentFrame
  <2>2. ScannerInv'
    <3>1. pc' = "done" => ~input'.eager
      BY <1>3 DEF ReadMagic, Fail
    <3> QED BY <3>1 DEF ScannerInv
  <2> QED BY <2>1, <2>2 DEF WalkInv
<1>4. CASE ReadBlockLength
  <2>1. UNCHANGED <<input, file, blocks, budget>> /\ pc' # "done"
    BY <1>4 DEF ReadBlockLength, Fail
  <2> QED BY <1>1, <1>2, <1>4, <2>1, LengthCursor, ContentFrame
<1>5. CASE CheckBlock
  <2>1. UNCHANGED <<input, file, blocks, budget>> /\ pc' # "done"
    BY <1>5 DEF CheckBlock
  <2> QED BY <1>1, <1>2, <1>5, <2>1, CheckCursor, ContentFrame
<1>6. CASE ScanForNextBlock
  <2>1. /\ CursorInv' /\ pc' # "done"
        /\ UNCHANGED <<input, file, budget, scanned>>
        /\ blocks' = blocks \/ blocks' = Append(blocks, Corrupted)
    BY <1>1, <1>6, ScanCursor
  <2>2. ContentInv'
    <3>1. CASE blocks' = blocks
      BY <1>1, <2>1, <3>1, ContentFrame
    <3>2. CASE blocks' = Append(blocks, Corrupted)
      <4>1. PICK b : b = Corrupted
        OBVIOUS
      <4>2. /\ b \in BlockRecord /\ b.bytes = << >> /\ blocks' = Append(blocks, b)
            /\ budget' \in Nat
        BY <1>1, <2>1, <3>2, <4>1, CorruptedType DEF ContentInv
      <4>3. Len(b.bytes) + budget' = budget
        BY <2>1, <4>2
      <4> QED BY <1>1, <2>1, <4>2, <4>3, AppendContent
    <3> QED BY <2>1, <3>1, <3>2
  <2> QED BY <1>2, <2>1, <2>2
<1>7. CASE ReadBodyMetadataOnly
  <2>1. budget \in Nat
    BY <1>1 DEF ContentInv
  <2>2. /\ CursorInv' /\ pc' # "done" /\ UNCHANGED <<input, file, scanned>>
        /\ \/ UNCHANGED <<blocks, budget>>
           \/ \E b \in BlockRecord :
                /\ blocks' = Append(blocks, b)
                /\ b.bytes # << >> =>
                     /\ b.from + b.len <= FileLen
                     /\ b.bytes = Slice(b.from, b.from + b.len)
                /\ budget' \in Nat /\ Len(b.bytes) + budget' = budget
    BY <1>1, <1>7, <2>1, MetadataBody
  <2>3. ContentInv'
    BY <1>1, <2>2, ContentFrame, AppendContent
  <2> QED BY <1>2, <2>2, <2>3
<1>8. CASE ReadBodyEager
  <2>1. /\ CursorInv' /\ pc' # "done" /\ UNCHANGED <<input, file, budget, scanned>>
        /\ input.eager
        /\ \/ UNCHANGED blocks
           \/ \E b \in BlockRecord :
                /\ blocks' = Append(blocks, b)
                /\ b.from + b.len <= FileLen
                /\ b.bytes = Slice(b.from, b.from + b.len)
    BY <1>1, <1>8, EagerBody
  <2>2. budget' \in Nat
    BY <1>1, <2>1 DEF ContentInv
  <2>3. ContentInv'
    BY <1>1, <2>1, <2>2, ContentFrame, AppendContent
  <2> QED BY <1>2, <2>1, <2>3
<1>9. CASE Collect
  <2>1. /\ UNCHANGED <<input, file, reader, magicPos, length, scanPos, budget, blocks>>
        /\ pc = "collect"
        /\ pc' = "failed" \/ (pc' = "done" /\ scanned' = IterValidBlocks)
    BY <1>9 DEF Collect, Fail
  <2>2. ContentInv'
    BY <1>1, <2>1, ContentFrame
  <2>3. CursorInv'
    BY <1>1, <2>1 DEF CursorInv, WindowTrue, FileLen, Slice, Small, Loaded, Unread
  <2>4. ScannerInv'
    BY <2>1 DEF ScannerInv, IterValidBlocks, IsRollback, RollbackTargets
  <2> QED BY <2>2, <2>3, <2>4 DEF WalkInv
<1>10. CASE StorageFails
  <2>1. /\ UNCHANGED <<input, file, reader, magicPos, length, scanPos, budget, blocks>>
        /\ pc' = "failed" /\ pc \notin {"collect", "done", "failed"}
    BY <1>10 DEF StorageFails, Fail
  <2>2. ContentInv'
    BY <1>1, <2>1, ContentFrame
  <2>3. CursorInv'
    BY <1>1, <2>1 DEF CursorInv, WindowTrue, FileLen, Slice, Small, Loaded, Unread
  <2> QED BY <1>2, <2>1, <2>2, <2>3
<1>11. CASE UNCHANGED vars
  <2>1. UNCHANGED <<input, file, reader, pc, magicPos, length, scanPos, budget,
                    blocks, scanned>>
    BY <1>11 DEF vars
  <2>2. ContentInv'
    BY <1>1, <2>1, ContentFrame
  <2>3. CursorInv'
    BY <1>1, <2>1 DEF CursorInv, WindowTrue, FileLen, Slice, Small, Loaded,
                      Unread, AfterLength, BlockEnd
  <2>4. ScannerInv'
    BY <1>1, <2>1 DEF ScannerInv, IterValidBlocks, IsRollback, RollbackTargets
  <2> QED BY <2>2, <2>3, <2>4 DEF WalkInv
<1> QED
  BY <1>3, <1>4, <1>5, <1>6, <1>7, <1>8, <1>9, <1>10, <1>11
     DEF Next, Walk, Finished

LEMMA WalkInductive == Spec => []WalkInv
<1> QED BY WalkInit, WalkNext, PTL DEF Spec

-----------------------------------------------------------------------------
(***************************************************************************)
(* Whatever bytes the file holds and wherever windows are cut, the bytes a *)
(* block carries are those of the file at the location recorded for it, so *)
(* that decoding them now or fetching the location later is the same       *)
(* (read_next_block_metadata_only, read_next_block and the windows of      *)
(* StorageReader).                                                         *)
(***************************************************************************)
THEOREM ContentTheorem == Spec => []ContentLocated
<1>1. WalkInv => ContentLocated
  BY DEF WalkInv, ContentInv
<1> QED BY <1>1, WalkInductive, PTL

(***************************************************************************)
(* The walk of the headers of any file keeps no more bytes than the budget *)
(* it was given (try_take_resident), and a file no larger than a window is *)
(* read with at most one request (fill_window).                            *)
(***************************************************************************)
THEOREM LimitsTheorem == Spec => []WithinLimits
<1>1. WalkInv => WithinLimits
  <2> SUFFICES ASSUME WalkInv, ~input.eager
               PROVE  /\ MapThenSumSet(LAMBDA n : Kept[n], DOMAIN blocks) <= Budget
                      /\ FileLen <= WindowSize => reader.fetches <= 1
    BY DEF WithinLimits
  <2>1. SumOver(Kept, DOMAIN blocks) + budget = Budget /\ budget \in Nat
        /\ blocks \in Seq(BlockRecord)
    BY DEF WalkInv, ContentInv
  <2>2. SumOver(Kept, DOMAIN blocks) \in Nat
    BY <2>1, KeptType
  <2>3. SumOver(Kept, DOMAIN blocks) <= Budget
    BY <2>1, <2>2, LogFileWalkAssumption
  <2>4. MapThenSumSet(LAMBDA n : Kept[n], DOMAIN blocks)
          = SumOver(Kept, DOMAIN blocks)
    BY DEF SumOver
  <2>5. FileLen <= WindowSize => Loaded(reader) \/ Unread(reader)
    BY DEF WalkInv, CursorInv, Small
  <2>6. FileLen <= WindowSize => reader.fetches <= 1
    BY <2>5 DEF Loaded, Unread
  <2> QED BY <2>3, <2>4, <2>6
<1> QED BY <1>1, WalkInductive, PTL

(***************************************************************************)
(* Taking rollback targets as a set, as LogFileScanner does, is what the   *)
(* order of the blocks says, for any list of blocks in which no instant is *)
(* written again after its rollback.                                       *)
(***************************************************************************)
THEOREM ScannerTheorem == Spec => []ScannerExact
<1>1. WalkInv => ScannerExact
  <2> SUFFICES ASSUME WalkInv, pc = "done", input.eager, NotRewritten
               PROVE  scanned = {i \in DOMAIN blocks :
                          /\ ~blocks[i].corrupt /\ ~IsRollback(blocks[i])
                          /\ ~RolledBackLater(i)}
    BY DEF ScannerExact
  <2>1. scanned = IterValidBlocks /\ blocks \in Seq(BlockRecord)
    BY DEF WalkInv, ScannerInv, ContentInv
  <2>2. Len(blocks) \in Nat /\ DOMAIN blocks = 1 .. Len(blocks)
    BY <2>1
  <2>3. ASSUME NEW i \in DOMAIN blocks, ~IsRollback(blocks[i])
        PROVE  blocks[i].instant \in RollbackTargets <=> RolledBackLater(i)
    <3>1. ASSUME RolledBackLater(i) PROVE blocks[i].instant \in RollbackTargets
      <4>1. PICK j \in i + 1 .. Len(blocks) :
              IsRollback(blocks[j]) /\ blocks[j].target = blocks[i].instant
        BY <3>1 DEF RolledBackLater
      <4>2. j \in DOMAIN blocks
        BY <2>2, <4>1
      <4> QED BY <4>1, <4>2 DEF RollbackTargets
    <3>2. ASSUME blocks[i].instant \in RollbackTargets PROVE RolledBackLater(i)
      <4>1. PICK j \in DOMAIN blocks :
              IsRollback(blocks[j]) /\ blocks[j].target = blocks[i].instant
        BY <3>2 DEF RollbackTargets
      <4>2. j # i
        BY <2>3, <4>1
      <4>3. ~ (j < i)
        BY <2>3, <4>1 DEF NotRewritten
      <4>4. j \in i + 1 .. Len(blocks)
        BY <2>2, <4>1, <4>2, <4>3
      <4> QED BY <4>1, <4>4 DEF RolledBackLater
    <3> QED BY <3>1, <3>2
  <2> QED BY <2>1, <2>3 DEF IterValidBlocks
<1> QED BY <1>1, WalkInductive, PTL

-----------------------------------------------------------------------------
(* The bytes of a block, by their place. *)
Encoded(b, len, c, e) ==
    /\ c \in Nat /\ b.content \in Seq(Nat) /\ BodyLen(b) = 9 + c
    /\ e \in Seq(Nat) /\ Len(e) = 14 + c
    /\ e[1] = 61 /\ e[2] = 62 /\ e[3] = 63
    /\ e[4] = Word(len)[1] /\ e[5] = Word(len)[2]
    /\ e[6] = 1 /\ e[7] = b.type /\ e[8] = b.instant /\ e[9] = b.target
    /\ e[10] = Word(c)[1] /\ e[11] = Word(c)[2]
    /\ \A k \in 1 .. c : e[11 + k] = b.content[k]
    /\ e[13 + c] = Word(12 + c)[1] /\ e[14 + c] = Word(12 + c)[2]

LEMMA EncodeAt ==
    ASSUME NEW b \in Block, NEW len \in Nat, NEW c, c = Len(b.content),
           NEW e, e = Encode(b, len)
    PROVE  Encoded(b, len, c, e)
<1>1. /\ b.type \in Nat /\ b.instant \in Nat /\ b.target \in Nat
      /\ b.content \in Seq(Nat)
  BY DEF Block, BlockTypes
<1>2. c \in Nat /\ BodyLen(b) = 9 + c /\ BodyLen(b) + MagicLen = 12 + c
  BY <1>1, Widths DEF BodyLen
<1>3. PICK u : u = Word(len)
  OBVIOUS
<1>4. PICK w : w = Word(c)
  OBVIOUS
<1>5. PICK t : t = Word(12 + c)
  OBVIOUS
<1>6. /\ u \in Seq(Nat) /\ Len(u) = 2 /\ w \in Seq(Nat) /\ Len(w) = 2
      /\ t \in Seq(Nat) /\ Len(t) = 2
  BY <1>2, <1>3, <1>4, <1>5, WordType
<1>7. PICK g : g = <<1, b.type, b.instant, b.target>>
  OBVIOUS
<1>8. /\ g \in Seq(Nat) /\ Len(g) = 4 /\ g[1] = 1 /\ g[2] = b.type
      /\ g[3] = b.instant /\ g[4] = b.target
  BY <1>1, <1>7
<1>9. PICK v : v = b.content
  OBVIOUS
<1>10. v \in Seq(Nat) /\ Len(v) = c
  BY <1>1, <1>9
<1>11. PICK m : m = Magic
  OBVIOUS
<1>12. m \in Seq(Nat) /\ Len(m) = 3 /\ m[1] = 61 /\ m[2] = 62 /\ m[3] = 63
  BY <1>11 DEF Magic
<1>13. e = (((((m \o u) \o g) \o w) \o v) \o <<0>>) \o t
  BY <1>2, <1>3, <1>4, <1>5, <1>7, <1>9, <1>11 DEF Encode
<1>14. PICK e1 : e1 = m \o u
  OBVIOUS
<1>15. /\ e1 \in Seq(Nat) /\ Len(e1) = 5 /\ e1[1] = 61 /\ e1[2] = 62 /\ e1[3] = 63
       /\ e1[4] = u[1] /\ e1[5] = u[2]
  <2>1. m \in Seq(Nat) /\ u \in Seq(Nat)
    BY <1>12, <1>6
  <2>2. /\ e1 \in Seq(Nat) /\ Len(e1) = Len(m) + Len(u)
        /\ \A k \in 1 .. Len(m) : e1[k] = m[k]
        /\ \A k \in 1 .. Len(u) : e1[Len(m) + k] = u[k]
    BY ONLY <1>14, <2>1, JoinAt
  <2>3. Len(m) = 3 /\ Len(u) = 2
    BY <1>12, <1>6
  <2> QED BY ONLY <1>12, <2>2, <2>3
<1>16. PICK e2 : e2 = e1 \o g
  OBVIOUS
<1>17. /\ e2 \in Seq(Nat) /\ Len(e2) = 9 /\ \A k \in 1 .. 5 : e2[k] = e1[k]
       /\ e2[6] = g[1] /\ e2[7] = g[2] /\ e2[8] = g[3] /\ e2[9] = g[4]
  <2>1. e1 \in Seq(Nat) /\ g \in Seq(Nat)
    BY <1>15, <1>8
  <2>2. /\ e2 \in Seq(Nat) /\ Len(e2) = Len(e1) + Len(g)
        /\ \A k \in 1 .. Len(e1) : e2[k] = e1[k]
        /\ \A k \in 1 .. Len(g) : e2[Len(e1) + k] = g[k]
    BY ONLY <1>16, <2>1, JoinAt
  <2>3. Len(e1) = 5 /\ Len(g) = 4
    BY <1>15, <1>8
  <2> QED BY ONLY <2>2, <2>3
<1>18. PICK e3 : e3 = e2 \o w
  OBVIOUS
<1>19. /\ e3 \in Seq(Nat) /\ Len(e3) = 11 /\ \A k \in 1 .. 9 : e3[k] = e2[k]
       /\ e3[10] = w[1] /\ e3[11] = w[2]
  <2>1. e2 \in Seq(Nat) /\ w \in Seq(Nat)
    BY <1>17, <1>6
  <2>2. /\ e3 \in Seq(Nat) /\ Len(e3) = Len(e2) + Len(w)
        /\ \A k \in 1 .. Len(e2) : e3[k] = e2[k]
        /\ \A k \in 1 .. Len(w) : e3[Len(e2) + k] = w[k]
    BY ONLY <1>18, <2>1, JoinAt
  <2>3. Len(e2) = 9 /\ Len(w) = 2
    BY <1>17, <1>6
  <2> QED BY ONLY <2>2, <2>3
<1>20. PICK e4 : e4 = e3 \o v
  OBVIOUS
<1>21. /\ e4 \in Seq(Nat) /\ Len(e4) = 11 + c /\ \A k \in 1 .. 11 : e4[k] = e3[k]
       /\ \A k \in 1 .. c : e4[11 + k] = v[k]
  <2>1. e3 \in Seq(Nat) /\ v \in Seq(Nat)
    BY <1>19, <1>10
  <2>2. /\ e4 \in Seq(Nat) /\ Len(e4) = Len(e3) + Len(v)
        /\ \A k \in 1 .. Len(e3) : e4[k] = e3[k]
        /\ \A k \in 1 .. Len(v) : e4[Len(e3) + k] = v[k]
    BY ONLY <1>20, <2>1, JoinAt
  <2>3. Len(e3) = 11 /\ Len(v) = c
    BY <1>19, <1>10
  <2> QED BY ONLY <2>2, <2>3
<1>22. PICK z : z = <<0>>
  OBVIOUS
<1>23. z \in Seq(Nat) /\ Len(z) = 1
  BY ONLY <1>22
<1>24. PICK e5 : e5 = e4 \o z
  OBVIOUS
<1>25. /\ e5 \in Seq(Nat) /\ Len(e5) = 12 + c
       /\ \A k \in 1 .. 11 + c : e5[k] = e4[k]
  <2>1. e4 \in Seq(Nat) /\ z \in Seq(Nat)
    BY <1>21, <1>23
  <2>2. /\ e5 \in Seq(Nat) /\ Len(e5) = Len(e4) + Len(z)
        /\ \A k \in 1 .. Len(e4) : e5[k] = e4[k]
        /\ \A k \in 1 .. Len(z) : e5[Len(e4) + k] = z[k]
    BY ONLY <1>24, <2>1, JoinAt
  <2>3. Len(e4) = 11 + c /\ Len(z) = 1
    BY <1>21, <1>23
  <2> QED BY ONLY <1>2, <2>2, <2>3
<1>26. e = e5 \o t
  BY <1>13, <1>14, <1>16, <1>18, <1>20, <1>22, <1>24
<1>27. /\ e \in Seq(Nat) /\ Len(e) = 14 + c
       /\ \A k \in 1 .. 12 + c : e[k] = e5[k]
       /\ e[13 + c] = t[1] /\ e[14 + c] = t[2]
  <2>1. e5 \in Seq(Nat) /\ t \in Seq(Nat)
    BY <1>6, <1>25
  <2>2. /\ e \in Seq(Nat) /\ Len(e) = Len(e5) + Len(t)
        /\ \A k \in 1 .. Len(e5) : e[k] = e5[k]
        /\ \A k \in 1 .. Len(t) : e[Len(e5) + k] = t[k]
    BY ONLY <1>26, <2>1, JoinAt
  <2>3. Len(e5) = 12 + c /\ Len(t) = 2
    BY <1>6, <1>25
  <2>4. e[12 + c + 1] = t[1] /\ e[12 + c + 2] = t[2]
    BY ONLY <2>2, <2>3
  <2>5. 12 + c + 1 = 13 + c /\ 12 + c + 2 = 14 + c
    BY ONLY <1>2
  <2> QED BY ONLY <1>2, <2>2, <2>3, <2>4, <2>5
<1>28. ASSUME NEW k \in 1 .. 11 + c PROVE e[k] = e4[k]
  <2>1. k \in 1 .. 12 + c
    BY ONLY <1>2, k \in 1 .. 11 + c
  <2>2. e[k] = e5[k]
    BY ONLY <1>27, <2>1
  <2>3. e5[k] = e4[k]
    BY ONLY <1>25, k \in 1 .. 11 + c
  <2> QED BY ONLY <2>2, <2>3
<1>29. ASSUME NEW k \in 1 .. 11 PROVE e[k] = e3[k]
  <2>1. k \in 1 .. 11 + c
    BY <1>2
  <2> QED BY <1>21, <1>28, <2>1
<1>30. \A k \in 1 .. 9 : k \in 1 .. 11 /\ e[k] = e2[k]
  BY ONLY <1>19, <1>29
<1>31. \A k \in 1 .. 5 : k \in 1 .. 9 /\ e[k] = e1[k]
  BY <1>17, <1>30
<1>32. e[1] = 61 /\ e[2] = 62 /\ e[3] = 63 /\ e[4] = u[1] /\ e[5] = u[2]
  BY <1>15, <1>31
<1>33. e[6] = 1 /\ e[7] = b.type /\ e[8] = b.instant /\ e[9] = b.target
  BY <1>8, <1>17, <1>30
<1>34. e[10] = w[1] /\ e[11] = w[2]
  BY <1>19, <1>29
<1>35. ASSUME NEW k \in 1 .. c PROVE e[11 + k] = b.content[k]
  <2>1. 11 + k \in 1 .. 11 + c
    BY ONLY <1>2, k \in 1 .. c
  <2>2. e[11 + k] = e4[11 + k]
    BY ONLY <1>28, <2>1
  <2>3. e4[11 + k] = v[k]
    BY ONLY <1>21, k \in 1 .. c
  <2> QED BY ONLY <1>9, <2>2, <2>3
<1> QED
  BY <1>1, <1>2, <1>3, <1>4, <1>5, <1>27, <1>32, <1>33, <1>34, <1>35 DEF Encoded

LEMMA WordValue ==
    ASSUME NEW n \in Nat, NEW w \in Seq(Nat), Len(w) = 2,
           w[1] = Word(n)[1], w[2] = Word(n)[2]
    PROVE  ValueOf(w) = n
<1>1. Word(n)[1] = n \div 64 /\ Word(n)[2] = n % 64
  BY DEF Word, Base
<1>2. n = 64 * (n \div 64) + (n % 64) /\ n \div 64 \in Nat /\ n % 64 \in Nat
  OBVIOUS
<1> QED BY <1>1, <1>2 DEF ValueOf, Base

(* Where the spans lie, and what is there. *)
Layout(f, ss) ==
    /\ f \in Seq(Nat) /\ ss \in Seq(Span)
    /\ \A i \in DOMAIN ss :
         /\ StartOf(ss, i) \in Nat /\ ss[i].kept \in Nat
         /\ EndOf(ss, i) = StartOf(ss, i) + ss[i].kept
         /\ EndOf(ss, i) <= Len(f)
         /\ \A k \in 1 .. ss[i].kept :
              f[StartOf(ss, i) + k] = Encode(ss[i].block, ss[i].len)[k]
    /\ \A i, j \in DOMAIN ss : i < j => EndOf(ss, i) <= StartOf(ss, j)
    /\ 1 \in DOMAIN ss => StartOf(ss, 1) = 0
    /\ 1 \notin DOMAIN ss => Len(f) = 0

LEMMA LayoutHolds ==
    ASSUME NEW in \in Inputs, NEW ss, ss = in.spans, NEW f, f = FileOf(ss)
    PROVE  Layout(f, ss)
<1>1. /\ ss \in Seq(Span)
      /\ \A i \in DOMAIN ss : ss[i].kept <= Len(Encode(ss[i].block, ss[i].len))
  BY LogFileWalkAssumption
<1>2. PICK n : n = Len(ss)
  OBVIOUS
<1>3. n \in Nat /\ DOMAIN ss = 1 .. n
  BY <1>1, <1>2
<1>4. PICK bs : bs = [i \in DOMAIN ss |-> BytesOf(ss[i])]
  OBVIOUS
<1>5. ASSUME NEW i \in DOMAIN ss
      PROVE  /\ ss[i].kept \in Nat
             /\ bs[i] \in Seq(Nat) /\ Len(bs[i]) = ss[i].kept
             /\ \A k \in 1 .. ss[i].kept :
                  bs[i][k] = Encode(ss[i].block, ss[i].len)[k]
  <2>1. ss[i] \in Span
    BY <1>1
  <2>2. ss[i].block \in Block /\ ss[i].len \in Nat /\ ss[i].kept \in Nat
    BY <2>1 DEF Span
  <2>3. PICK e : e = Encode(ss[i].block, ss[i].len)
    OBVIOUS
  <2>4. PICK c : c = ss[i].kept
    OBVIOUS
  <2>5. e \in Seq(Nat) /\ c <= Len(e) /\ c \in Nat
    BY <1>1, <2>2, <2>3, <2>4, EncodeType
  <2>6. bs[i] = SubSeq(e, 1, c)
    BY <1>4, <2>3, <2>4 DEF BytesOf
  <2>7. PICK b : b = bs[i]
    OBVIOUS
  <2>8. b \in Seq(Nat) /\ Len(b) = c /\ \A k \in 1 .. c : b[k] = e[k]
    BY ONLY <2>5, <2>6, <2>7
  <2> QED BY <2>2, <2>3, <2>4, <2>7, <2>8
<1>6. bs \in Seq(Seq(Nat)) /\ Len(bs) = n /\ DOMAIN bs = 1 .. n
  <2>1. \A i \in 1 .. n : bs[i] \in Seq(Nat)
    BY <1>3, <1>5
  <2> QED BY ONLY <1>3, <1>4, <2>1
<1>7. PICK h : h = FrontsOf(bs)
  OBVIOUS
<1>8. h[0] = << >> /\ h[n] = FlattenSeq(bs) /\ FrontsJoin(Nat, h, bs, n)
  <2>1. bs \in Seq(Seq(Nat)) /\ n = Len(bs)
    BY <1>6
  <2> QED BY ONLY <1>7, <2>1, FlattenPrefix
<1>9. f = h[n]
  BY <1>4, <1>8 DEF FileOf
<1>10. f \in Seq(Nat) /\ Len(f) \in Nat
  <2>1. n \in 0 .. n
    BY <1>3
  <2>2. h[n] \in Seq(Nat)
    BY ONLY <1>8, <2>1 DEF FrontsJoin
  <2> QED BY <1>9, <2>2
<1>11. ASSUME NEW i \in DOMAIN ss PROVE StartOf(ss, i) = Len(h[i - 1])
  <2>1. i - 1 \in 0 .. n /\ \A j \in 1 .. i - 1 : j \in DOMAIN ss
    BY <1>3
  <2>2. [j \in 1 .. i - 1 |-> BytesOf(ss[j])] = [j \in 1 .. i - 1 |-> bs[j]]
    BY <1>4, <2>1
  <2>3. h[i - 1] = FlattenSeq([j \in 1 .. i - 1 |-> bs[j]])
    BY <1>6, <1>7, <2>1 DEF FrontsOf
  <2> QED BY <2>2, <2>3 DEF StartOf
<1>12. bs \in [1 .. n -> Seq(Nat)]
  BY <1>6
<1>13. ASSUME NEW k \in 0 .. n, NEW j \in k .. n
       PROVE  /\ Len(h[k]) \in Nat /\ Len(h[j]) \in Nat /\ Len(h[k]) <= Len(h[j])
              /\ \A x \in 1 .. Len(h[k]) : h[j][x] = h[k][x]
  <2>1. n \in Nat
    BY <1>3
  <2> QED BY ONLY <1>8, <1>12, <2>1, k \in 0 .. n, j \in k .. n, PrefixGrows
<1>14. ASSUME NEW i \in DOMAIN ss
       PROVE  /\ Len(h[i - 1]) \in Nat
              /\ Len(h[i]) = Len(h[i - 1]) + ss[i].kept
              /\ \A k \in 1 .. ss[i].kept : h[i][Len(h[i - 1]) + k] = bs[i][k]
  <2>1. i \in 1 .. n /\ i - 1 \in 0 .. n
    BY <1>3
  <2>2. PICK a, b : a = h[i - 1] /\ b = bs[i]
    OBVIOUS
  <2>3. a \in Seq(Nat) /\ b \in Seq(Nat) /\ h[i] = a \o b
    BY <1>8, <1>12, <2>1, <2>2 DEF FrontsJoin
  <2>4. PICK e : e = h[i]
    OBVIOUS
  <2>5. e = a \o b
    BY <2>3, <2>4
  <2>6. /\ Len(e) = Len(a) + Len(b)
        /\ \A k \in 1 .. Len(b) : e[Len(a) + k] = b[k]
    BY ONLY <2>3, <2>5, JoinAt
  <2>7. Len(b) = ss[i].kept
    BY <1>5, <2>2
  <2>8. Len(a) \in Nat
    BY <2>3
  <2> QED BY <2>2, <2>4, <2>6, <2>7, <2>8
<1>15. ASSUME NEW i \in DOMAIN ss
       PROVE  /\ StartOf(ss, i) \in Nat /\ ss[i].kept \in Nat
              /\ EndOf(ss, i) = StartOf(ss, i) + ss[i].kept
              /\ EndOf(ss, i) = Len(h[i])
              /\ EndOf(ss, i) <= Len(f)
              /\ \A k \in 1 .. ss[i].kept :
                   f[StartOf(ss, i) + k] = Encode(ss[i].block, ss[i].len)[k]
  <2>1. i \in 0 .. n /\ n \in i .. n
    BY <1>3
  <2>2. /\ Len(h[i]) \in Nat /\ Len(h[i]) <= Len(h[n])
        /\ \A x \in 1 .. Len(h[i]) : h[n][x] = h[i][x]
    BY <1>13, <2>1
  <2>3. PICK a, c : a = StartOf(ss, i) /\ c = ss[i].kept
    OBVIOUS
  <2>4. a = Len(h[i - 1]) /\ a \in Nat /\ c \in Nat /\ Len(h[i]) = a + c
    BY <1>5, <1>11, <1>14, <2>3
  <2>5. EndOf(ss, i) = a + c
    BY <2>3 DEF EndOf
  <2>6. ASSUME NEW k \in 1 .. c PROVE f[a + k] = Encode(ss[i].block, ss[i].len)[k]
    <3>1. a + k \in 1 .. Len(h[i])
      BY <2>4
    <3>2. f[a + k] = h[i][a + k]
      BY <1>9, <2>2, <3>1
    <3>3. h[i][a + k] = bs[i][k]
      BY <1>14, <2>3, <2>4
    <3> QED BY <1>5, <2>3, <3>2, <3>3
  <2> QED BY <1>9, <2>2, <2>3, <2>4, <2>5, <2>6
<1>16. ASSUME NEW i \in DOMAIN ss, NEW j \in DOMAIN ss, i < j
       PROVE  EndOf(ss, i) <= StartOf(ss, j)
  <2>1. i \in 0 .. n /\ j - 1 \in i .. n
    BY <1>3, <1>16
  <2>2. Len(h[i]) <= Len(h[j - 1])
    BY <1>13, <2>1
  <2> QED BY <1>11, <1>15, <2>2
<1>17. 1 \in DOMAIN ss => StartOf(ss, 1) = 0
  <2> SUFFICES ASSUME 1 \in DOMAIN ss PROVE StartOf(ss, 1) = 0
    OBVIOUS
  <2>1. StartOf(ss, 1) = Len(h[0])
    BY <1>11
  <2> QED BY <1>8, <2>1
<1>18. 1 \notin DOMAIN ss => Len(f) = 0
  <2> SUFFICES ASSUME 1 \notin DOMAIN ss PROVE Len(f) = 0
    OBVIOUS
  <2>1. n = 0
    BY <1>3
  <2> QED BY <1>8, <1>9, <2>1
<1> QED BY <1>1, <1>10, <1>15, <1>16, <1>17, <1>18 DEF Layout

-----------------------------------------------------------------------------
(* Markers, words and blocks in a file. *)

Piece(f, a, n) == SubSeq(f, a + 1, a + n)

LEMMA PieceProps ==
    ASSUME NEW f \in Seq(Nat), NEW a \in Nat, NEW n \in Nat, a + n <= Len(f)
    PROVE  /\ Piece(f, a, n) \in Seq(Nat) /\ Len(Piece(f, a, n)) = n
           /\ \A k \in 1 .. n : Piece(f, a, n)[k] = f[a + k]
BY DEF Piece

LEMMA MarkerBytes ==
    ASSUME NEW f \in Seq(Nat), NEW p \in Nat
    PROVE  MarkerAt(f, p) <=> /\ p + 3 <= Len(f)
                              /\ f[p + 1] = 61 /\ f[p + 2] = 62 /\ f[p + 3] = 63
<1>1. PICK s : s = Piece(f, p, 3)
  OBVIOUS
<1>2. MarkerAt(f, p) <=> p + 3 <= Len(f) /\ s = Magic
  BY <1>1, Widths DEF MarkerAt, Piece
<1>3. ASSUME p + 3 <= Len(f)
      PROVE  s = Magic <=> f[p + 1] = 61 /\ f[p + 2] = 62 /\ f[p + 3] = 63
  <2>1. s \in Seq(Nat) /\ Len(s) = 3 /\ \A k \in 1 .. 3 : s[k] = f[p + k]
    <3>1. PICK n : n = 3
      OBVIOUS
    <3>2. n \in Nat /\ p + n <= Len(f) /\ s = Piece(f, p, n)
      BY <1>1, <1>3, <3>1
    <3>3. s \in Seq(Nat) /\ Len(s) = n /\ \A k \in 1 .. n : s[k] = f[p + k]
      BY ONLY f \in Seq(Nat), p \in Nat, <3>2, PieceProps
    <3> QED BY ONLY <3>1, <3>3
  <2>2. s[1] = f[p + 1] /\ s[2] = f[p + 2] /\ s[3] = f[p + 3]
    BY ONLY <2>1
  <2>3. s = <<s[1], s[2], s[3]>>
    BY ONLY <2>1
  <2>4. PICK x, y, z : x = s[1] /\ y = s[2] /\ z = s[3]
    OBVIOUS
  <2>5. s = <<x, y, z>>
    BY ONLY <2>3, <2>4
  <2>6. s = Magic <=> x = 61 /\ y = 62 /\ z = 63
    BY ONLY <2>5 DEF Magic
  <2> QED BY ONLY <2>2, <2>4, <2>6
<1> QED BY <1>2, <1>3

(* A marker does not overlap another. *)
LEMMA NoOverlap ==
    ASSUME NEW f \in Seq(Nat), NEW p \in Nat, NEW q \in Nat,
           MarkerAt(f, p), MarkerAt(f, q), p <= q, q < p + 3
    PROVE  q = p
<1>1. f[p + 1] = 61 /\ f[p + 2] = 62 /\ f[p + 3] = 63 /\ f[q + 1] = 61
  BY MarkerBytes
<1>2. q = p \/ q = p + 1 \/ q = p + 2
  OBVIOUS
<1>3. CASE q = p + 1
  <2>1. q + 1 = p + 2
    BY <1>3
  <2> QED BY <1>1, <2>1
<1>4. CASE q = p + 2
  <2>1. q + 1 = p + 3
    BY <1>4
  <2> QED BY <1>1, <2>1
<1> QED BY <1>2, <1>3, <1>4

LEMMA WordBytes ==
    ASSUME NEW f \in Seq(Nat), NEW p \in Nat, p + 2 <= Len(f), NEW n \in Nat,
           f[p + 1] = Word(n)[1], f[p + 2] = Word(n)[2]
    PROVE  WordAt(f, p) = n
<1>1. PICK s : s = Piece(f, p, 2)
  OBVIOUS
<1>2. s \in Seq(Nat) /\ Len(s) = 2 /\ \A k \in 1 .. 2 : s[k] = f[p + k]
  <2>1. PICK m : m = 2
    OBVIOUS
  <2>2. m \in Nat /\ p + m <= Len(f) /\ s = Piece(f, p, m)
    BY <1>1, <2>1
  <2>3. s \in Seq(Nat) /\ Len(s) = m /\ \A k \in 1 .. m : s[k] = f[p + k]
    BY ONLY f \in Seq(Nat), p \in Nat, <2>2, PieceProps
  <2> QED BY ONLY <2>1, <2>3
<1>3. s[1] = f[p + 1] /\ s[2] = f[p + 2]
  BY ONLY <1>2
<1>4. ValueOf(s) = n
  BY <1>2, <1>3, WordValue
<1> QED BY <1>1, <1>4, Widths DEF WordAt, Piece

(* The bytes of a whole block lie at p. *)
BlockAt(f, p, b, c) ==
    /\ c \in Nat /\ p + 14 + c <= Len(f)
    /\ MarkerAt(f, p) /\ WordAt(f, p + 3) = 9 + c
    /\ f[p + 6] = 1 /\ f[p + 7] = b.type /\ f[p + 8] = b.instant
    /\ f[p + 9] = b.target
    /\ WordAt(f, p + 9) = c
    /\ SubSeq(f, p + 10, p + 11 + c) = Word(Len(b.content)) \o b.content
    /\ WordAt(f, p + 12 + c) = 12 + c

LEMMA IntactBlock ==
    ASSUME NEW f, NEW ss, Layout(f, ss), NEW i \in Intact(f, ss),
           NEW p, p = StartOf(ss, i), NEW b, b = ss[i].block
    PROVE  /\ p \in Nat /\ b \in Block /\ Len(f) \in Nat
           /\ \E c \in Nat : /\ EndOf(ss, i) = p + 14 + c
                             /\ BlockAt(f, p, b, c)
           /\ Boundary(f, EndOf(ss, i))
<1>1. i \in DOMAIN ss /\ Whole(ss[i]) /\ Boundary(f, EndOf(ss, i))
  BY DEF Intact
<1>2. f \in Seq(Nat) /\ ss \in Seq(Span)
  BY DEF Layout
<1>3. PICK k : k = ss[i].kept
  OBVIOUS
<1>4. PICK e : e = Encode(b, ss[i].len)
  OBVIOUS
<1>5. /\ p \in Nat /\ EndOf(ss, i) = p + k /\ p + k <= Len(f)
      /\ \A x \in 1 .. k : f[p + x] = e[x]
  BY <1>1, <1>3, <1>4 DEF Layout
<1>6. ss[i] \in Span
  BY <1>1, <1>2
<1>7. b \in Block /\ ss[i].len \in Nat
  BY <1>6 DEF Span
<1>8. PICK c : c = Len(b.content)
  OBVIOUS
<1>9. PICK n : n = ss[i].len
  OBVIOUS
<1>10. n = BodyLen(b) /\ k = Len(e) /\ n \in Nat /\ e = Encode(b, n)
  BY <1>1, <1>3, <1>4, <1>7, <1>9 DEF Whole
<1>11. /\ c \in Nat /\ b.content \in Seq(Nat) /\ BodyLen(b) = 9 + c
       /\ e \in Seq(Nat) /\ Len(e) = 14 + c
       /\ e[1] = 61 /\ e[2] = 62 /\ e[3] = 63
       /\ e[4] = Word(n)[1] /\ e[5] = Word(n)[2]
       /\ e[6] = 1 /\ e[7] = b.type /\ e[8] = b.instant /\ e[9] = b.target
       /\ e[10] = Word(c)[1] /\ e[11] = Word(c)[2]
       /\ \A x \in 1 .. c : e[11 + x] = b.content[x]
       /\ e[13 + c] = Word(12 + c)[1] /\ e[14 + c] = Word(12 + c)[2]
  <2>1. n \in Nat /\ e = Encode(b, n)
    BY <1>10
  <2>2. Encoded(b, n, c, e)
    BY ONLY <1>7, <1>8, <2>1, EncodeAt
  <2> QED BY ONLY <2>2 DEF Encoded
<1>12. \A x \in 1 .. 14 + c : f[p + x] = e[x]
  BY <1>5, <1>10, <1>11
<1>13. /\ p + 14 + c <= Len(f) /\ EndOf(ss, i) = p + 14 + c /\ Len(f) \in Nat
       /\ p \in Nat /\ c \in Nat
  <2>1. k = 14 + c /\ c \in Nat
    BY ONLY <1>10, <1>11
  <2>2. Len(f) \in Nat
    BY ONLY <1>2
  <2>3. p + k = p + 14 + c
    BY ONLY <1>5, <2>1
  <2> QED BY <1>5, <2>1, <2>2, <2>3
<1>14. ASSUME NEW x \in 1 .. 11 PROVE f[p + x] = e[x]
  <2>1. x \in 1 .. 14 + c
    BY ONLY <1>13, x \in 1 .. 11
  <2> QED BY <1>12, <2>1
<1>15. f[p + 1] = 61 /\ f[p + 2] = 62 /\ f[p + 3] = 63
  <2>1. f[p + 1] = e[1] /\ f[p + 2] = e[2] /\ f[p + 3] = e[3]
    BY ONLY <1>14
  <2> QED BY <1>11, <2>1
<1>16. MarkerAt(f, p)
  <2>1. p \in Nat /\ p + 3 <= Len(f)
    BY ONLY <1>13
  <2> QED BY ONLY <1>2, <1>15, <2>1, MarkerBytes
<1>17. WordAt(f, p + 3) = 9 + c
  <2>1. f[p + 3 + 1] = Word(n)[1] /\ f[p + 3 + 2] = Word(n)[2]
    <3>1. f[p + 4] = e[4] /\ f[p + 5] = e[5]
      BY ONLY <1>14
    <3>2. p + 3 + 1 = p + 4 /\ p + 3 + 2 = p + 5
      BY ONLY <1>13
    <3> QED BY ONLY <1>11, <3>1, <3>2
  <2>2. p + 3 \in Nat /\ p + 3 + 2 <= Len(f) /\ n = 9 + c
    <3>1. n = 9 + c
      BY ONLY <1>10, <1>11
    <3> QED BY ONLY <1>13, <3>1
  <2> QED BY <1>2, <1>10, <2>1, <2>2, WordBytes
<1>18. /\ f[p + 6] = 1 /\ f[p + 7] = b.type /\ f[p + 8] = b.instant
       /\ f[p + 9] = b.target
  <2>1. /\ f[p + 6] = e[6] /\ f[p + 7] = e[7] /\ f[p + 8] = e[8]
        /\ f[p + 9] = e[9]
    BY ONLY <1>14
  <2> QED BY <1>11, <2>1
<1>19. f[p + 10] = Word(c)[1] /\ f[p + 11] = Word(c)[2]
  BY ONLY <1>11, <1>14
<1>20. WordAt(f, p + 9) = c
  <2>1. p + 9 + 1 = p + 10 /\ p + 9 + 2 = p + 11
    BY ONLY <1>13
  <2>2. p + 9 \in Nat /\ p + 9 + 2 <= Len(f) /\ c \in Nat
    BY ONLY <1>13
  <2>3. PICK q : q = p + 9
    OBVIOUS
  <2>4. q \in Nat /\ q + 2 <= Len(f) /\ f[q + 1] = Word(c)[1] /\ f[q + 2] = Word(c)[2]
    BY ONLY <1>19, <2>1, <2>2, <2>3
  <2>5. WordAt(f, q) = c
    BY ONLY <1>2, <2>2, <2>4, WordBytes
  <2> QED BY ONLY <2>3, <2>5
<1>21. WordAt(f, p + 12 + c) = 12 + c
  <2>1. f[p + (13 + c)] = e[13 + c] /\ f[p + (14 + c)] = e[14 + c]
    <3>1. 13 + c \in 1 .. 14 + c /\ 14 + c \in 1 .. 14 + c
      BY ONLY <1>13
    <3> QED BY ONLY <1>12, <3>1
  <2>2. p + 12 + c + 1 = p + (13 + c) /\ p + 12 + c + 2 = p + (14 + c)
    BY ONLY <1>13
  <2>3. /\ p + 12 + c \in Nat /\ p + 12 + c + 2 <= Len(f) /\ 12 + c \in Nat
    BY ONLY <1>13
  <2>4. PICK q, m : q = p + 12 + c /\ m = 12 + c
    OBVIOUS
  <2>5. f[q + 1] = Word(m)[1] /\ f[q + 2] = Word(m)[2]
    BY ONLY <1>11, <2>1, <2>2, <2>4
  <2>6. q \in Nat /\ q + 2 <= Len(f) /\ m \in Nat
    BY <2>3, <2>4
  <2>7. WordAt(f, q) = m
    BY ONLY <1>2, <2>5, <2>6, WordBytes
  <2> QED BY <2>4, <2>7
<1>22. SubSeq(f, p + 10, p + 11 + c) = Word(Len(b.content)) \o b.content
  <2>1. PICK w, v : w = Word(c) /\ v = b.content
    OBVIOUS
  <2>2. w \in Seq(Nat) /\ Len(w) = 2 /\ v \in Seq(Nat) /\ Len(v) = c
    BY <1>8, <1>11, <2>1, WordType
  <2>3. PICK u : u = w \o v
    OBVIOUS
  <2>4. /\ u \in Seq(Nat) /\ Len(u) = Len(w) + Len(v)
        /\ \A x \in 1 .. Len(w) : u[x] = w[x]
        /\ \A x \in 1 .. Len(v) : u[Len(w) + x] = v[x]
    <3>1. w \in Seq(Nat) /\ v \in Seq(Nat)
      BY <2>2
    <3> QED BY ONLY <2>3, <3>1, JoinAt
  <2>5. Len(u) = 2 + c /\ u[1] = w[1] /\ u[2] = w[2] /\ \A x \in 1 .. c : u[2 + x] = v[x]
    BY ONLY <2>2, <2>4
  <2>6. PICK q, m : q = p + 9 /\ m = 2 + c
    OBVIOUS
  <2>7. q \in Nat /\ m \in Nat /\ q + m <= Len(f) /\ Len(u) = m
    BY ONLY <1>13, <2>5, <2>6
  <2>8. PICK s : s = Piece(f, q, m)
    OBVIOUS
  <2>9. s \in Seq(Nat) /\ Len(s) = m /\ \A x \in 1 .. m : s[x] = f[q + x]
    BY <1>2, <2>7, <2>8, PieceProps
  <2>10. ASSUME NEW x \in 1 .. m PROVE s[x] = u[x]
    <3>1. CASE x = 1 \/ x = 2
      <4>1. f[q + 1] = w[1] /\ f[q + 2] = w[2]
        <5>1. q + 1 = p + 10 /\ q + 2 = p + 11
          BY <1>5, <2>6
        <5> QED BY <1>19, <2>1, <5>1
      <4> QED BY <2>5, <2>9, <3>1, <4>1
    <3>2. CASE x # 1 /\ x # 2
      <4>1. PICK y : y = x - 2
        OBVIOUS
      <4>2. y \in 1 .. c /\ x = 2 + y
        BY <1>11, <2>6, <3>2, <4>1
      <4>3. s[x] = f[q + x] /\ u[x] = v[y]
        BY <2>5, <2>9, <4>2
      <4>4. 11 + y \in 1 .. 14 + c /\ p + (11 + y) = q + x
        BY <1>5, <1>11, <2>6, <4>2
      <4>5. f[q + x] = e[11 + y]
        BY <1>12, <4>4
      <4>6. e[11 + y] = v[y]
        BY <1>11, <2>1, <4>2
      <4> QED BY <4>3, <4>5, <4>6
    <3> QED BY <3>1, <3>2
  <2>11. s = u
    BY ONLY <2>4, <2>7, <2>9, <2>10
  <2>12. q + 1 = p + 10 /\ q + m = p + 11 + c
    BY ONLY <1>13, <2>6
  <2> QED BY <1>8, <2>1, <2>3, <2>8, <2>11, <2>12 DEF Piece
<1>23. BlockAt(f, p, b, c)
  BY <1>11, <1>13, <1>16, <1>17, <1>18, <1>20, <1>21, <1>22 DEF BlockAt
<1> QED BY <1>1, <1>5, <1>7, <1>11, <1>13, <1>23

(* An intact block passes the checks. *)
LEMMA IntactPasses ==
    ASSUME NEW f, NEW ss, Layout(f, ss), NEW i \in Intact(f, ss)
    PROVE  PassesAt(f, StartOf(ss, i))
<1>1. PICK p, b : p = StartOf(ss, i) /\ b = ss[i].block
  OBVIOUS
<1>2. p \in Nat /\ Len(f) \in Nat /\ Boundary(f, EndOf(ss, i))
  BY <1>1, IntactBlock
<1>3. PICK c \in Nat : EndOf(ss, i) = p + 14 + c /\ BlockAt(f, p, b, c)
  BY <1>1, IntactBlock
<1>4. /\ MarkerAt(f, p) /\ WordAt(f, p + 3) = 9 + c
      /\ WordAt(f, p + 12 + c) = 12 + c /\ p + 14 + c <= Len(f)
  BY <1>3 DEF BlockAt
<1>5. PICK end : end = p + 14 + c
  OBVIOUS
<1>6. /\ p + 3 + 2 + (9 + c) = end /\ end - 2 = p + 12 + c
      /\ 12 + c = (9 + c) + 3 /\ p + 3 + 2 <= Len(f) /\ end <= Len(f)
  BY <1>2, <1>4, <1>5
<1>7. Boundary(f, end)
  BY <1>2, <1>3, <1>5
<1>8. PassesAt(f, p)
  BY <1>4, <1>6, <1>7, Widths DEF PassesAt
<1> QED BY <1>1, <1>8

-----------------------------------------------------------------------------
(* Where a walk may stand, and what it has done when it stands there. *)

(* Not inside an intact block. *)
Outside(f, ss, p) ==
    \A i \in Intact(f, ss) : p <= StartOf(ss, i) \/ EndOf(ss, i) <= p

(* Blocks read are those of intact spans before p; all of those are read, *)
(* in order; and damage before p is reported.                             *)
TrueBlocks(f, in, bl, p) ==
    \A n \in DOMAIN bl :
        \/ bl[n].corrupt
        \/ \E i \in Readable(f, in) :
              StartOf(in.spans, i) < p /\ ReadsAs(bl[n], f, in, i)
AllRead(f, in, bl, p) ==
    \A i \in Readable(f, in) :
        StartOf(in.spans, i) < p =>
            \E n \in DOMAIN bl :
                ~bl[n].corrupt /\ bl[n].at = StartOf(in.spans, i)
InOrder(bl) ==
    \A m, n \in DOMAIN bl :
        m < n /\ ~bl[m].corrupt /\ ~bl[n].corrupt => bl[m].at < bl[n].at
AllReported(f, in, bl, p) ==
    \A i \in DOMAIN in.spans \ Intact(f, in.spans) :
        StartOf(in.spans, i) < p /\ in.spans[i].kept >= MagicLen =>
            \E n \in DOMAIN bl :
                bl[n].corrupt /\ bl[n].at = StartOf(in.spans, i)

Behind(f, in, bl, p) ==
    /\ TrueBlocks(f, in, bl, p) /\ AllRead(f, in, bl, p)
    /\ InOrder(bl) /\ AllReported(f, in, bl, p)

(* A span of which a marker is left begins with it. *)
LEMMA SpanMarker ==
    ASSUME NEW f, NEW ss, Layout(f, ss), NEW i \in DOMAIN ss,
           ss[i].kept >= MagicLen
    PROVE  MarkerAt(f, StartOf(ss, i)) /\ StartOf(ss, i) \in Nat
<1>1. f \in Seq(Nat) /\ ss \in Seq(Span) /\ Len(f) \in Nat
  BY DEF Layout
<1>2. ss[i] \in Span
  BY <1>1
<1>3. PICK p, k, b, n : /\ p = StartOf(ss, i) /\ k = ss[i].kept
                        /\ b = ss[i].block /\ n = ss[i].len
  OBVIOUS
<1>4. b \in Block /\ n \in Nat
  BY <1>2, <1>3 DEF Span
<1>5. PICK e : e = Encode(b, n)
  OBVIOUS
<1>6. /\ p \in Nat /\ k \in Nat /\ p + k <= Len(f)
      /\ \A x \in 1 .. k : f[p + x] = e[x]
  BY <1>3, <1>5 DEF Layout
<1>7. PICK c : c = Len(b.content)
  OBVIOUS
<1>8. Encoded(b, n, c, e)
  BY ONLY <1>4, <1>5, <1>7, EncodeAt
<1>9. e[1] = 61 /\ e[2] = 62 /\ e[3] = 63
  BY ONLY <1>8 DEF Encoded
<1>10. k >= 3
  BY <1>3, Widths
<1>11. f[p + 1] = e[1] /\ f[p + 2] = e[2] /\ f[p + 3] = e[3] /\ p + 3 <= Len(f)
  BY ONLY <1>1, <1>6, <1>10
<1>12. MarkerAt(f, p)
  BY ONLY <1>1, <1>6, <1>9, <1>11, MarkerBytes
<1> QED BY <1>3, <1>6, <1>12

(* What an intact span takes of the file. *)
LEMMA IntactPlace ==
    ASSUME NEW f, NEW ss, Layout(f, ss), NEW i \in Intact(f, ss)
    PROVE  /\ i \in DOMAIN ss /\ MarkerAt(f, StartOf(ss, i))
           /\ StartOf(ss, i) \in Nat /\ EndOf(ss, i) \in Nat /\ Len(f) \in Nat
           /\ StartOf(ss, i) + 14 <= EndOf(ss, i) /\ EndOf(ss, i) <= Len(f)
<1>1. PICK p, b : p = StartOf(ss, i) /\ b = ss[i].block
  OBVIOUS
<1>2. p \in Nat /\ Len(f) \in Nat
  BY <1>1, IntactBlock
<1>3. PICK c \in Nat : EndOf(ss, i) = p + 14 + c /\ BlockAt(f, p, b, c)
  BY <1>1, IntactBlock
<1>4. MarkerAt(f, p) /\ p + 14 + c <= Len(f)
  BY <1>3 DEF BlockAt
<1>5. i \in DOMAIN ss
  BY DEF Intact
<1> QED BY <1>1, <1>2, <1>3, <1>4, <1>5

(* Spans lie one after the other: the end of an intact one is outside all. *)
LEMMA OneByOne ==
    ASSUME NEW f, NEW ss, Layout(f, ss), NEW i \in Intact(f, ss),
           NEW j \in DOMAIN ss, j # i, StartOf(ss, j) < EndOf(ss, i)
    PROVE  EndOf(ss, j) <= StartOf(ss, i) /\ j < i
<1>1. i \in DOMAIN ss /\ StartOf(ss, i) \in Nat /\ EndOf(ss, i) \in Nat
  BY IntactPlace
<1>2. ss \in Seq(Span) /\ StartOf(ss, j) \in Nat
  BY DEF Layout
<1>3. i \in Nat /\ j \in Nat
  BY <1>1, <1>2
<1>4. i < j => EndOf(ss, i) <= StartOf(ss, j)
  BY <1>1 DEF Layout
<1>5. j < i
  BY <1>1, <1>2, <1>3, <1>4
<1>6. EndOf(ss, j) <= StartOf(ss, i)
  BY <1>1, <1>5 DEF Layout
<1> QED BY <1>5, <1>6

LEMMA EndOutside ==
    ASSUME NEW f, NEW ss, Layout(f, ss), NEW i \in Intact(f, ss)
    PROVE  Outside(f, ss, EndOf(ss, i))
<1> SUFFICES ASSUME NEW j \in Intact(f, ss), ~(EndOf(ss, i) <= StartOf(ss, j))
             PROVE  EndOf(ss, j) <= EndOf(ss, i)
  BY DEF Outside
<1>1. /\ StartOf(ss, i) \in Nat /\ EndOf(ss, i) \in Nat
      /\ StartOf(ss, i) + 14 <= EndOf(ss, i)
  BY IntactPlace
<1>2. j \in DOMAIN ss /\ StartOf(ss, j) \in Nat /\ EndOf(ss, j) \in Nat
  BY IntactPlace
<1>3. CASE j = i
  BY <1>1, <1>3
<1>4. CASE j # i
  <2>1. EndOf(ss, j) <= StartOf(ss, i)
    BY <1>1, <1>2, <1>4, OneByOne
  <2> QED BY <1>1, <1>2, <2>1
<1> QED BY <1>3, <1>4

(* The search from a marker that begins no block, to a place before which  *)
(* there is no other marker, passes no intact block, and no other span of  *)
(* which a marker is left.                                                 *)
LEMMA SearchPasses ==
    ASSUME NEW f, NEW ss, Layout(f, ss), NEW p \in Nat, NEW q \in Nat,
           Outside(f, ss, p), MarkerAt(f, p), ~PassesAt(f, p), p + 3 <= q,
           \A x \in p + 3 .. q - 1 : ~MarkerAt(f, x)
    PROVE  /\ Outside(f, ss, q)
           /\ \A i \in Intact(f, ss) : StartOf(ss, i) < q => StartOf(ss, i) < p
           /\ \A i \in DOMAIN ss :
                ss[i].kept >= MagicLen /\ StartOf(ss, i) < q =>
                    StartOf(ss, i) < p \/ StartOf(ss, i) = p
<1>1. f \in Seq(Nat) /\ Len(f) \in Nat
  BY DEF Layout
<1>2. ASSUME NEW x \in Nat, MarkerAt(f, x), x < q PROVE x < p \/ x = p
  <2> SUFFICES ASSUME p <= x PROVE x = p
    OBVIOUS
  <2>1. x < p + 3
    BY <1>2
  <2> QED BY <1>1, <1>2, <2>1, NoOverlap
<1>3. ASSUME NEW i \in Intact(f, ss), StartOf(ss, i) < q PROVE StartOf(ss, i) < p
  <2>1. StartOf(ss, i) \in Nat /\ MarkerAt(f, StartOf(ss, i))
    BY IntactPlace
  <2>2. StartOf(ss, i) # p
    BY IntactPasses
  <2> QED BY <1>2, <1>3, <2>1, <2>2
<1>4. Outside(f, ss, q)
  <2> SUFFICES ASSUME NEW i \in Intact(f, ss), ~(q <= StartOf(ss, i))
               PROVE  EndOf(ss, i) <= q
    BY DEF Outside
  <2>1. StartOf(ss, i) \in Nat /\ EndOf(ss, i) \in Nat
    BY IntactPlace
  <2>2. StartOf(ss, i) < q
    BY <2>1
  <2>3. StartOf(ss, i) < p
    BY <1>3, <2>2
  <2>4. EndOf(ss, i) <= p
    BY <2>1, <2>3 DEF Outside
  <2> QED BY <2>1, <2>4
<1>5. ASSUME NEW i \in DOMAIN ss, ss[i].kept >= MagicLen, StartOf(ss, i) < q
      PROVE  StartOf(ss, i) < p \/ StartOf(ss, i) = p
  <2>1. MarkerAt(f, StartOf(ss, i)) /\ StartOf(ss, i) \in Nat
    BY <1>5, SpanMarker
  <2> QED BY <1>2, <1>5, <2>1
<1> QED BY <1>3, <1>4, <1>5

(* What passes for a block, where a walk may stand, begins one. *)
LEMMA PassStarts ==
    ASSUME NEW f, NEW ss, Layout(f, ss), Legible(f, ss), NEW p \in Nat,
           Outside(f, ss, p), PassesAt(f, p)
    PROVE  \E i \in Intact(f, ss) : p = StartOf(ss, i)
<1>1. f \in Seq(Nat) /\ Len(f) \in Nat
  BY DEF Layout
<1>2. MarkerAt(f, p)
  BY DEF PassesAt
<1>3. p \in 0 .. Len(f)
  <2>1. p + 3 <= Len(f)
    BY <1>1, <1>2, MarkerBytes
  <2> QED BY ONLY <1>1, <2>1, p \in Nat
<1>4. PICK i \in Intact(f, ss) : p \in StartOf(ss, i) .. EndOf(ss, i) - 1
  BY <1>3 DEF Legible
<1>5. StartOf(ss, i) \in Nat /\ EndOf(ss, i) \in Nat
  BY IntactPlace
<1>6. p <= StartOf(ss, i) \/ EndOf(ss, i) <= p
  BY DEF Outside
<1> QED BY <1>4, <1>5, <1>6

(* One more block. *)
LEMMA OneMore ==
    ASSUME NEW bl \in Seq(BlockRecord), NEW b \in BlockRecord,
           NEW bs, bs = Append(bl, b)
    PROVE  \E N \in Nat : /\ DOMAIN bl = 1 .. N /\ DOMAIN bs = 1 .. N + 1
                          /\ \A n \in 1 .. N : bs[n] = bl[n]
                          /\ bs[N + 1] = b
<1>1. PICK N : N = Len(bl)
  OBVIOUS
<1>2. N \in Nat /\ DOMAIN bl = 1 .. N
  BY <1>1
<1>3. Len(bs) = N + 1 /\ DOMAIN bs = 1 .. N + 1
  BY <1>1
<1>4. \A n \in 1 .. N : bs[n] = bl[n]
  BY <1>1
<1>5. bs[N + 1] = b
  BY <1>1
<1> QED BY <1>2, <1>3, <1>4, <1>5

(* A block that begins at p is added, and the walk goes on to q. *)
LEMMA BehindAppend ==
    ASSUME NEW f, NEW in, NEW ss, ss = in.spans, Layout(f, ss),
           NEW p \in Nat, NEW q \in Nat, p < q,
           NEW bl \in Seq(BlockRecord), Behind(f, in, bl, p),
           NEW b \in BlockRecord, b.at = p,
           ~b.corrupt => \E i \in Readable(f, in) :
                            StartOf(ss, i) = p /\ ReadsAs(b, f, in, i),
           \A i \in Intact(f, ss) :
              StartOf(ss, i) < q => StartOf(ss, i) < p
                                    \/ (~b.corrupt /\ StartOf(ss, i) = p),
           \A i \in DOMAIN ss \ Intact(f, ss) :
              ss[i].kept >= MagicLen /\ StartOf(ss, i) < q =>
                  StartOf(ss, i) < p \/ (b.corrupt /\ StartOf(ss, i) = p)
    PROVE  Behind(f, in, Append(bl, b), q)
<1>1. PICK bs : bs = Append(bl, b)
  OBVIOUS
<1>2. PICK N \in Nat : /\ DOMAIN bl = 1 .. N /\ DOMAIN bs = 1 .. N + 1
                       /\ \A n \in 1 .. N : bs[n] = bl[n]
                       /\ bs[N + 1] = b
  BY <1>1, OneMore
<1>3. /\ TrueBlocks(f, in, bl, p) /\ AllRead(f, in, bl, p)
      /\ InOrder(bl) /\ AllReported(f, in, bl, p)
  BY DEF Behind
<1>4. \A i \in DOMAIN ss : StartOf(ss, i) \in Nat
  BY DEF Layout
<1>5. \A i \in Readable(f, in) : i \in Intact(f, ss) /\ i \in DOMAIN ss
  BY DEF Readable, Intact
<1>6. N + 1 \in DOMAIN bs /\ \A n \in DOMAIN bl : n \in DOMAIN bs /\ bs[n] = bl[n]
  BY <1>2
<1>7. ASSUME NEW n \in DOMAIN bs PROVE n = N + 1 \/ (n \in DOMAIN bl /\ bs[n] = bl[n])
  BY <1>2
<1>8. TrueBlocks(f, in, bs, q)
  <2> SUFFICES ASSUME NEW n \in DOMAIN bs, ~bs[n].corrupt
               PROVE  \E i \in Readable(f, in) :
                         StartOf(ss, i) < q /\ ReadsAs(bs[n], f, in, i)
    BY DEF TrueBlocks
  <2>1. CASE n = N + 1
    <3>1. bs[n] = b
      BY <1>2, <2>1
    <3> QED BY <3>1
  <2>2. CASE n \in DOMAIN bl /\ bs[n] = bl[n]
    <3>1. PICK i \in Readable(f, in) :
            StartOf(ss, i) < p /\ ReadsAs(bl[n], f, in, i)
      BY <1>3, <2>2 DEF TrueBlocks
    <3>2. StartOf(ss, i) < q
      BY <1>4, <1>5, <3>1
    <3> QED BY <2>2, <3>1, <3>2
  <2> QED BY <1>7, <2>1, <2>2
<1>9. AllRead(f, in, bs, q)
  <2> SUFFICES ASSUME NEW i \in Readable(f, in), StartOf(ss, i) < q
               PROVE  \E n \in DOMAIN bs : ~bs[n].corrupt /\ bs[n].at = StartOf(ss, i)
    BY DEF AllRead
  <2>1. StartOf(ss, i) < p \/ (~b.corrupt /\ StartOf(ss, i) = p)
    BY <1>5
  <2>2. CASE StartOf(ss, i) < p
    <3>1. PICK n \in DOMAIN bl : ~bl[n].corrupt /\ bl[n].at = StartOf(ss, i)
      BY <1>3, <2>2 DEF AllRead
    <3> QED BY <1>6, <3>1
  <2>3. CASE ~b.corrupt /\ StartOf(ss, i) = p
    BY <1>2, <1>6, <2>3
  <2> QED BY <2>1, <2>2, <2>3
<1>10. InOrder(bs)
  <2> SUFFICES ASSUME NEW m \in DOMAIN bs, NEW n \in DOMAIN bs, m < n,
                      ~bs[m].corrupt, ~bs[n].corrupt
               PROVE  bs[m].at < bs[n].at
    BY DEF InOrder
  <2>1. m \in DOMAIN bl /\ bs[m] = bl[m]
    BY <1>2
  <2>2. CASE n = N + 1
    <3>1. bs[n].at = p
      BY <1>2, <2>2
    <3>2. PICK i \in Readable(f, in) :
            StartOf(ss, i) < p /\ ReadsAs(bl[m], f, in, i)
      BY <1>3, <2>1 DEF TrueBlocks
    <3>3. bl[m].at = StartOf(ss, i)
      BY <3>2 DEF ReadsAs
    <3> QED BY <2>1, <3>1, <3>2, <3>3
  <2>3. CASE n \in DOMAIN bl /\ bs[n] = bl[n]
    BY <1>3, <2>1, <2>3 DEF InOrder
  <2> QED BY <1>7, <2>2, <2>3
<1>11. AllReported(f, in, bs, q)
  <2> SUFFICES ASSUME NEW i \in DOMAIN ss \ Intact(f, ss),
                      StartOf(ss, i) < q, ss[i].kept >= MagicLen
               PROVE  \E n \in DOMAIN bs : bs[n].corrupt /\ bs[n].at = StartOf(ss, i)
    BY DEF AllReported
  <2>1. StartOf(ss, i) < p \/ (b.corrupt /\ StartOf(ss, i) = p)
    OBVIOUS
  <2>2. CASE StartOf(ss, i) < p
    <3>1. PICK n \in DOMAIN bl : bl[n].corrupt /\ bl[n].at = StartOf(ss, i)
      BY <1>3, <2>2 DEF AllReported
    <3> QED BY <1>6, <3>1
  <2>3. CASE b.corrupt /\ StartOf(ss, i) = p
    BY <1>2, <1>6, <2>3
  <2> QED BY <2>1, <2>2, <2>3
<1> QED BY <1>1, <1>8, <1>9, <1>10, <1>11 DEF Behind

(* No block is added. *)
LEMMA BehindGoesOn ==
    ASSUME NEW f, NEW in, NEW ss, ss = in.spans, Layout(f, ss),
           NEW p \in Nat, NEW q \in Nat, p <= q,
           NEW bl, Behind(f, in, bl, p),
           \A i \in Readable(f, in) : StartOf(ss, i) < q => StartOf(ss, i) < p,
           \A i \in DOMAIN ss \ Intact(f, ss) :
              ss[i].kept >= MagicLen /\ StartOf(ss, i) < q => StartOf(ss, i) < p
    PROVE  Behind(f, in, bl, q)
<1>1. \A i \in DOMAIN ss : StartOf(ss, i) \in Nat
  BY DEF Layout
<1>2. \A i \in Readable(f, in) : i \in DOMAIN ss
  BY DEF Readable, Intact
<1>3. \A i \in Readable(f, in) : StartOf(ss, i) < p => StartOf(ss, i) < q
  BY <1>1, <1>2
<1>4. TrueBlocks(f, in, bl, q)
  BY <1>3 DEF Behind, TrueBlocks
<1>5. AllRead(f, in, bl, q)
  BY DEF Behind, AllRead
<1>6. InOrder(bl)
  BY DEF Behind
<1>7. AllReported(f, in, bl, q)
  BY DEF Behind, AllReported
<1> QED BY <1>4, <1>5, <1>6, <1>7 DEF Behind

(* After an intact block. *)
LEMMA AfterIntact ==
    ASSUME NEW f, NEW ss, Layout(f, ss), NEW i \in Intact(f, ss),
           NEW j \in DOMAIN ss, StartOf(ss, j) < EndOf(ss, i),
           NEW p, p = StartOf(ss, i)
    PROVE  StartOf(ss, j) < p \/ j = i
           \/ (StartOf(ss, j) = p /\ ss[j].kept = 0)
<1>1. p \in Nat /\ EndOf(ss, i) \in Nat
  BY IntactPlace
<1>2. /\ StartOf(ss, j) \in Nat /\ ss[j].kept \in Nat
      /\ EndOf(ss, j) = StartOf(ss, j) + ss[j].kept
  BY DEF Layout
<1>3. ASSUME j # i PROVE StartOf(ss, j) + ss[j].kept <= p
  <2>1. EndOf(ss, j) <= p
    BY <1>3, OneByOne
  <2> QED BY <1>2, <2>1
<1> QED BY <1>1, <1>2, <1>3

LEMMA BehindRead ==
    ASSUME NEW f, NEW in, NEW ss, ss = in.spans, Layout(f, ss),
           NEW i \in Readable(f, in), NEW p, p = StartOf(ss, i),
           NEW bl \in Seq(BlockRecord), Behind(f, in, bl, p),
           NEW b \in BlockRecord, ~b.corrupt, ReadsAs(b, f, in, i)
    PROVE  Behind(f, in, Append(bl, b), EndOf(ss, i))
<1>1. i \in Intact(f, ss) /\ i \in DOMAIN ss
  BY DEF Readable, Intact
<1>2. PICK q : q = EndOf(ss, i)
  OBVIOUS
<1>3. p \in Nat /\ q \in Nat /\ p < q
  <2>1. p \in Nat /\ q \in Nat /\ p + 14 <= q
    BY <1>1, <1>2, IntactPlace
  <2> QED BY ONLY <2>1
<1>4. b.at = p
  BY DEF ReadsAs
<1>5. ASSUME NEW j \in DOMAIN ss, StartOf(ss, j) < q
      PROVE  StartOf(ss, j) < p \/ j = i
             \/ (StartOf(ss, j) = p /\ ss[j].kept = 0)
  BY <1>1, <1>2, <1>5, AfterIntact
<1>6. \A j \in Intact(f, ss) :
        StartOf(ss, j) < q => StartOf(ss, j) < p
                              \/ (~b.corrupt /\ StartOf(ss, j) = p)
  <2>1. \A j \in Intact(f, ss) : j \in DOMAIN ss
    BY DEF Intact
  <2> QED BY <1>5, <2>1
<1>7. \A j \in DOMAIN ss \ Intact(f, ss) :
        ss[j].kept >= MagicLen /\ StartOf(ss, j) < q =>
            StartOf(ss, j) < p \/ (b.corrupt /\ StartOf(ss, j) = p)
  BY <1>1, <1>5, Widths
<1>8. Behind(f, in, Append(bl, b), q)
  BY <1>3, <1>4, <1>6, <1>7, BehindAppend
<1> QED BY <1>2, <1>8

LEMMA BehindPass ==
    ASSUME NEW f, NEW in, NEW ss, ss = in.spans, Layout(f, ss),
           NEW i \in Intact(f, ss), i \notin Readable(f, in),
           NEW p, p = StartOf(ss, i), NEW bl, Behind(f, in, bl, p)
    PROVE  Behind(f, in, bl, EndOf(ss, i))
<1>1. i \in DOMAIN ss
  BY DEF Intact
<1>2. PICK q : q = EndOf(ss, i)
  OBVIOUS
<1>3. p \in Nat /\ q \in Nat /\ p <= q
  <2>1. p \in Nat /\ q \in Nat /\ p + 14 <= q
    BY <1>2, IntactPlace
  <2> QED BY ONLY <2>1
<1>4. ASSUME NEW j \in DOMAIN ss, StartOf(ss, j) < q
      PROVE  StartOf(ss, j) < p \/ j = i
             \/ (StartOf(ss, j) = p /\ ss[j].kept = 0)
  BY <1>2, <1>4, AfterIntact
<1>5. ASSUME NEW j \in Intact(f, ss) PROVE j \in DOMAIN ss /\ ss[j].kept # 0
  <2>1. j \in DOMAIN ss /\ StartOf(ss, j) \in Nat
        /\ StartOf(ss, j) + 14 <= EndOf(ss, j)
    BY IntactPlace
  <2>2. EndOf(ss, j) = StartOf(ss, j) + ss[j].kept /\ ss[j].kept \in Nat
    BY <2>1 DEF Layout
  <2> QED BY <2>1, <2>2
<1>6. \A j \in Readable(f, in) : StartOf(ss, j) < q => StartOf(ss, j) < p
  <2>1. \A j \in Readable(f, in) : j \in Intact(f, ss) /\ j # i
    BY DEF Readable
  <2> QED BY <1>4, <1>5, <2>1
<1>7. \A j \in DOMAIN ss \ Intact(f, ss) :
        ss[j].kept >= MagicLen /\ StartOf(ss, j) < q => StartOf(ss, j) < p
  BY <1>4, Widths
<1>8. Behind(f, in, bl, q)
  BY <1>3, <1>6, <1>7, BehindGoesOn
<1> QED BY <1>2, <1>8

(* Too few bytes are left for a marker. *)
LEMMA BehindEnd ==
    ASSUME NEW f, NEW in, NEW ss, ss = in.spans, Layout(f, ss),
           NEW p \in Nat, p <= Len(f), Len(f) < p + 3,
           NEW bl, Behind(f, in, bl, p)
    PROVE  Behind(f, in, bl, Len(f))
<1>1. f \in Seq(Nat) /\ Len(f) \in Nat
  BY DEF Layout
<1>2. ASSUME NEW x \in Nat, MarkerAt(f, x) PROVE x < p
  <2>1. x + 3 <= Len(f)
    BY <1>1, <1>2, MarkerBytes
  <2> QED BY <1>1, <2>1
<1>3. \A i \in Readable(f, in) : StartOf(ss, i) < p
  <2>1. \A i \in Readable(f, in) : i \in Intact(f, ss)
    BY DEF Readable
  <2> QED BY <1>2, <2>1, IntactPlace
<1>4. \A i \in DOMAIN ss : ss[i].kept >= MagicLen => StartOf(ss, i) < p
  BY <1>2, SpanMarker
<1>5. PICK q : q = Len(f)
  OBVIOUS
<1>6. q \in Nat /\ p <= q
  BY <1>1, <1>5
<1>7. Behind(f, in, bl, q)
  BY <1>3, <1>4, <1>6, BehindGoesOn
<1> QED BY <1>5, <1>7

-----------------------------------------------------------------------------
(***************************************************************************)
(* The invariant of the walk over a file that is legible: where it stands  *)
(* in each of its states, and what it has done by then.                    *)
(***************************************************************************)
NoMarker(f, a, b) == \A x \in a .. b - 1 : ~MarkerAt(f, x)

FrontInv ==
    /\ pc = "magic" =>
         /\ Outside(file, input.spans, reader.pos)
         /\ Behind(file, input, blocks, reader.pos)
         /\ reader.pos = 0 \/ Boundary(file, reader.pos)
    /\ pc \in {"length", "check", "body", "resync"} =>
         /\ Outside(file, input.spans, magicPos)
         /\ Behind(file, input, blocks, magicPos)
         /\ MarkerAt(file, magicPos)
    /\ pc \in {"check", "body", "resync"} => length = WordAt(file, magicPos + 3)
    /\ pc = "body" => PassesAt(file, magicPos)
    /\ pc = "resync" =>
         /\ ~PassesAt(file, magicPos)
         /\ magicPos + 3 <= scanPos /\ NoMarker(file, magicPos + 3, scanPos)
    /\ pc \in {"collect", "done"} => Behind(file, input, blocks, Len(file))
    /\ FailsOnlyTorn

OnTrack ==
    /\ CursorInv /\ blocks \in Seq(BlockRecord)
    /\ Layout(file, input.spans) /\ Legible(file, input.spans)
    /\ FileLen <= WordMax
    /\ FrontInv

LEMMA TornFrame ==
    ASSUME FailsOnlyTorn, UNCHANGED <<input, file>>,
           err' = err \/ err' = "storage" \/ err' = "mixed"
    PROVE  FailsOnlyTorn'
<1>1. CASE err' = err
  BY <1>1 DEF FailsOnlyTorn, FileLen, MarkerAt
<1>2. CASE err' = "storage" \/ err' = "mixed"
  BY <1>2 DEF FailsOnlyTorn
<1> QED BY <1>1, <1>2

(* The bytes at the cursor, as the file has them. *)
LEMMA MagicRead ==
    ASSUME CursorInv, NEW r, WindowTrue(r)
    PROVE  /\ Eof(r, MagicLen) <=> FileLen < r.pos + 3
           /\ ~Eof(r, MagicLen) =>
                (BytesAt(r, MagicLen) = Magic <=> MarkerAt(file, r.pos))
<1>1. file \in Seq(Nat) /\ input.eager \in BOOLEAN /\ FileLen \in Nat
  BY DEF CursorInv, FileLen
<1>2. r.pos \in Nat
  BY <1>1, ReaderFields
<1>3. PICK n : n = MagicLen
  OBVIOUS
<1>4. n = 3 /\ n \in Nat /\ n > 0
  BY <1>3, Widths
<1>5. ~Eof(r, n) => r.pos + n <= FileLen
  BY <1>1, <1>4, EofExact
<1>6. r.pos + n <= FileLen =>
        ~Eof(r, n) /\ BytesAt(r, n) = Slice(r.pos, r.pos + n)
  BY <1>1, <1>4, ReadProps
<1>7. r.pos + n <= FileLen =>
        (Slice(r.pos, r.pos + n) = Magic <=> MarkerAt(file, r.pos))
  BY <1>3 DEF Slice, MarkerAt, FileLen
<1>8. Eof(r, n) <=> FileLen < r.pos + 3
  BY <1>1, <1>2, <1>4, <1>5, <1>6
<1> QED BY <1>3, <1>5, <1>6, <1>7, <1>8

LEMMA WordRead ==
    ASSUME CursorInv, NEW r, WindowTrue(r)
    PROVE  /\ Eof(r, WordLen) <=> FileLen < r.pos + 2
           /\ ~Eof(r, WordLen) =>
                ValueOf(BytesAt(r, WordLen)) = WordAt(file, r.pos)
<1>1. file \in Seq(Nat) /\ input.eager \in BOOLEAN /\ FileLen \in Nat
  BY DEF CursorInv, FileLen
<1>2. r.pos \in Nat
  BY <1>1, ReaderFields
<1>3. PICK n : n = WordLen
  OBVIOUS
<1>4. n = 2 /\ n \in Nat /\ n > 0
  BY <1>3, Widths
<1>5. ~Eof(r, n) => r.pos + n <= FileLen
  BY <1>1, <1>4, EofExact
<1>6. r.pos + n <= FileLen =>
        ~Eof(r, n) /\ BytesAt(r, n) = Slice(r.pos, r.pos + n)
  BY <1>1, <1>4, ReadProps
<1>7. ValueOf(Slice(r.pos, r.pos + n)) = WordAt(file, r.pos)
  BY <1>3 DEF Slice, WordAt
<1>8. Eof(r, n) <=> FileLen < r.pos + 2
  BY <1>1, <1>2, <1>4, <1>5, <1>6
<1> QED BY <1>3, <1>5, <1>6, <1>7, <1>8

LEMMA MagicFront ==
    ASSUME OnTrack, ReadMagic
    PROVE  FrontInv'
<1>1. PICK ss, p : ss = input.spans /\ p = reader.pos
  OBVIOUS
<1>2. /\ pc = "magic" /\ magicPos' = p
      /\ UNCHANGED <<input, file, length, scanPos, blocks>>
  BY <1>1 DEF ReadMagic
<1>3. CursorInv /\ Layout(file, ss) /\ FrontInv
  BY <1>1 DEF OnTrack
<1>4. /\ WindowTrue(reader) /\ p <= FileLen /\ p \in Nat /\ FileLen = Len(file)
      /\ FileLen \in Nat /\ file \in Seq(Nat)
  BY <1>1, <1>3, ReaderFields DEF CursorInv, FileLen
<1>5. /\ Outside(file, ss, p) /\ Behind(file, input, blocks, p)
      /\ p = 0 \/ Boundary(file, p)
      /\ FailsOnlyTorn
  BY <1>1, <1>2, <1>3 DEF FrontInv
<1>6. /\ Eof(reader, MagicLen) <=> FileLen < p + 3
      /\ ~Eof(reader, MagicLen) =>
           (BytesAt(reader, MagicLen) = Magic <=> MarkerAt(file, p))
  BY <1>1, <1>3, <1>4, MagicRead
<1>7. CASE Eof(reader, MagicLen)
  <2>1. UNCHANGED <<reader, err>> /\ pc' \in {"collect", "done"}
    BY <1>7 DEF ReadMagic
  <2>2. Behind(file, input, blocks, Len(file))
    BY <1>1, <1>3, <1>4, <1>5, <1>6, <1>7, BehindEnd
  <2>3. FailsOnlyTorn'
    BY <1>2, <1>5, <2>1, TornFrame
  <2> QED BY <1>2, <2>1, <2>2, <2>3 DEF FrontInv
<1>8. CASE ~Eof(reader, MagicLen) /\ MarkerAt(file, p)
  <2>1. pc' = "length" /\ UNCHANGED err
    BY <1>6, <1>8 DEF ReadMagic
  <2>2. FailsOnlyTorn'
    BY <1>2, <1>5, <2>1, TornFrame
  <2> QED BY <1>1, <1>2, <1>5, <1>8, <2>1, <2>2 DEF FrontInv
<1>9. CASE ~Eof(reader, MagicLen) /\ ~MarkerAt(file, p)
  <2>1. pc' = "failed" /\ err' = "magic"
    BY <1>6, <1>9 DEF ReadMagic, Fail
  <2>2. p + 3 <= Len(file)
    BY <1>4, <1>6, <1>9
  <2>3. p = 0
    <3>1. ~ (Len(file) - p < MagicLen)
      BY <1>4, <2>2, Widths
    <3> QED BY <1>5, <1>9, <3>1 DEF Boundary
  <2>4. 1 \in DOMAIN ss
    BY <1>3, <2>2, <2>3 DEF Layout
  <2>5. ~ (ss[1].kept >= MagicLen)
    <3>1. StartOf(ss, 1) = 0
      BY <1>3, <2>4 DEF Layout
    <3> QED BY <1>3, <1>9, <2>3, <2>4, <3>1, SpanMarker
  <2>6. ss[1].kept \in Nat
    BY <1>3, <2>4 DEF Layout
  <2>7. ss[1].kept < MagicLen
    BY <2>5, <2>6, Widths
  <2>8. FailsOnlyTorn'
    BY <1>1, <1>2, <2>1, <2>7 DEF FailsOnlyTorn
  <2> QED BY <2>1, <2>8 DEF FrontInv
<1> QED BY <1>7, <1>8, <1>9

LEMMA LengthFront ==
    ASSUME OnTrack, ReadBlockLength
    PROVE  FrontInv'
<1>1. PICK ss, p : ss = input.spans /\ p = magicPos
  OBVIOUS
<1>2. pc = "length" /\ UNCHANGED <<input, file, magicPos, scanPos, blocks>>
  BY DEF ReadBlockLength
<1>3. CursorInv /\ FrontInv
  BY DEF OnTrack
<1>4. /\ WindowTrue(reader) /\ p \in Nat /\ reader.pos = p + 3
      /\ FileLen = Len(file) /\ FileLen \in Nat /\ file \in Seq(Nat)
  BY <1>1, <1>2, <1>3, ReaderFields, Widths DEF CursorInv, FileLen
<1>5. /\ Outside(file, ss, p) /\ Behind(file, input, blocks, p)
      /\ MarkerAt(file, p) /\ FailsOnlyTorn
  BY <1>1, <1>2, <1>3 DEF FrontInv
<1>6. /\ Eof(reader, WordLen) <=> FileLen < p + 3 + 2
      /\ ~Eof(reader, WordLen) =>
           ValueOf(BytesAt(reader, WordLen)) = WordAt(file, p + 3)
  BY <1>3, <1>4, WordRead
<1>7. CASE Eof(reader, WordLen)
  <2>1. pc' = "failed" /\ err' = "length"
    BY <1>7 DEF ReadBlockLength, Fail
  <2>2. p + 3 <= FileLen
    BY <1>4, <1>5, MarkerBytes
  <2>3. p \in 0 .. FileLen - MagicLen /\ FileLen - (p + MagicLen) < WordLen
    BY <1>4, <1>6, <1>7, <2>2, Widths
  <2>4. \E x \in 0 .. FileLen - MagicLen :
           MarkerAt(file, x) /\ FileLen - (x + MagicLen) < WordLen
    BY <1>5, <2>3
  <2>5. FailsOnlyTorn'
    BY <1>2, <2>1, <2>4 DEF FailsOnlyTorn, FileLen
  <2> QED BY <2>1, <2>5 DEF FrontInv
<1>8. CASE ~Eof(reader, WordLen)
  <2>1. pc' = "check" /\ UNCHANGED err /\ length' = WordAt(file, p + 3)
    BY <1>6, <1>8 DEF ReadBlockLength
  <2>2. FailsOnlyTorn'
    BY <1>2, <1>5, <2>1, TornFrame
  <2> QED BY <1>1, <1>2, <1>5, <2>1, <2>2 DEF FrontInv
<1> QED BY <1>7, <1>8

(* The checks of is_block_corrupted are those that PassesAt asks. *)
LEMMA CheckFront ==
    ASSUME OnTrack, CheckBlock
    PROVE  FrontInv'
<1>1. PICK ss, p, n : ss = input.spans /\ p = magicPos /\ n = length
  OBVIOUS
<1>2. /\ pc = "check" /\ UNCHANGED <<input, file, magicPos, length, blocks, err>>
      /\ scanPos' = p + 3
  BY <1>1, Widths DEF CheckBlock
<1>3. CursorInv /\ FrontInv /\ FileLen <= WordMax
  BY DEF OnTrack
<1>4. /\ WindowTrue(reader) /\ p \in Nat /\ n \in Nat
      /\ FileLen = Len(file) /\ FileLen \in Nat /\ file \in Seq(Nat)
      /\ AfterLength = p + 5 /\ AfterLength <= FileLen
      /\ BlockEnd \in Nat /\ BlockEnd = p + 5 + n
      /\ TrailingPos \in Nat /\ TrailingPos + 2 = BlockEnd
      /\ input.eager \in BOOLEAN
  BY <1>1, <1>2, <1>3, Places DEF CursorInv, FileLen
<1>5. /\ Outside(file, ss, p) /\ Behind(file, input, blocks, p)
      /\ MarkerAt(file, p) /\ FailsOnlyTorn /\ n = WordAt(file, p + 3)
  BY <1>1, <1>2, <1>3 DEF FrontInv
<1>6. PICK e : e = BlockEnd
  OBVIOUS
<1>7. PassesAt(file, p) <=>
         /\ e <= FileLen /\ WordAt(file, e - 2) = n + 3 /\ Boundary(file, e)
  <2>1. p + 3 + 2 + n = e /\ p + 3 + 2 <= Len(file)
    BY <1>4, <1>6
  <2> QED BY <1>4, <1>5, <2>1, Widths DEF PassesAt
<1>8. NoMarker(file, p + 3, p + 3)
  BY <1>4 DEF NoMarker
<1>9. FailsOnlyTorn'
  BY <1>2, <1>5, TornFrame
<1>10. ASSUME pc' = "resync", ~PassesAt(file, p) PROVE FrontInv'
  <2>1. p + 3 <= p + 3 /\ MagicLen = 3
    BY <1>4, Widths
  <2> QED BY <1>1, <1>2, <1>5, <1>8, <1>9, <1>10, <2>1 DEF FrontInv
<1>11. ASSUME pc' = "body", PassesAt(file, p) PROVE FrontInv'
  BY <1>1, <1>2, <1>5, <1>9, <1>11 DEF FrontInv
<1>12. CASE Overflows \/ RunsPastEnd
  <2>1. pc' = "resync"
    BY <1>12 DEF CheckBlock
  <2>2. ~ (e <= FileLen)
    <3>1. WordMax \in Nat
      BY DEF WordMax, Base
    <3> QED BY <1>3, <1>4, <1>6, <1>12, <3>1, Widths DEF Overflows, RunsPastEnd
  <2> QED BY <1>7, <1>10, <2>1, <2>2
<1>13. CASE ~ (Overflows \/ RunsPastEnd)
  <2>1. e <= FileLen
    BY <1>4, <1>6, <1>13, Widths DEF RunsPastEnd
  <2>2. PICK r1 : r1 = Seek(reader, TrailingPos)
    OBVIOUS
  <2>3. WindowTrue(r1) /\ r1.pos = TrailingPos
    BY <1>4, <2>2, SeekProps
  <2>4. PICK v : v = ValueOf(BytesAt(r1, WordLen))
    OBVIOUS
  <2>5. TrailingPos = e - 2
    BY <1>4, <1>6
  <2>6. ~Eof(r1, WordLen) /\ v = WordAt(file, e - 2)
    <3>1. ~ (FileLen < r1.pos + 2)
      BY <1>4, <1>6, <2>1, <2>3
    <3>2. ~Eof(r1, WordLen)
      BY <1>3, <2>3, <3>1, WordRead
    <3> QED BY <1>3, <2>3, <2>4, <2>5, <3>2, WordRead
  <2>7. v \in Nat
    <3>1. PICK w : w = BytesAt(r1, WordLen)
      OBVIOUS
    <3>2. PICK m : m = WordLen
      OBVIOUS
    <3>3. m \in Nat /\ m = 2 /\ r1.pos + m <= FileLen
      BY <1>4, <1>6, <2>1, <2>3, <3>2, Widths
    <3>4. w \in Seq(Nat) /\ Len(w) = m
      BY <1>4, <2>3, <3>1, <3>2, <3>3, ReadProps
    <3> QED BY <2>4, <3>1, <3>3, <3>4, ValueType
  <2>8. SizesDiffer(v) <=> v # n + 3
    BY <1>1, <1>4, <2>7, Widths DEF SizesDiffer
  <2>9. PICK t : t = After(r1, WordLen)
    OBVIOUS
  <2>10. WindowTrue(t)
    <3>1. PICK m : m = WordLen
      OBVIOUS
    <3>2. m \in Nat /\ r1.pos + m <= FileLen
      BY <1>4, <1>6, <2>1, <2>3, <3>1, Widths
    <3> QED BY <1>4, <2>3, <2>9, <3>1, <3>2, ReadProps
  <2>11. PICK r2 : r2 = Seek(t, BlockEnd)
    OBVIOUS
  <2>12. WindowTrue(r2) /\ r2.pos = e
    BY <1>4, <1>6, <2>10, <2>11, SeekProps
  <2>13. FollowedByMagic(r2) <=> Boundary(file, e)
    <3>1. /\ Eof(r2, MagicLen) <=> FileLen < e + 3
          /\ ~Eof(r2, MagicLen) =>
               (BytesAt(r2, MagicLen) = Magic <=> MarkerAt(file, e))
      BY <1>3, <2>12, MagicRead
    <3>2. Len(file) - e < MagicLen <=> FileLen < e + 3
      BY <1>4, <1>6, Widths
    <3>3. MarkerAt(file, e) => ~ (FileLen < e + 3)
      BY <1>4, <1>6, MarkerBytes
    <3> QED BY <3>1, <3>2, <3>3 DEF FollowedByMagic, Boundary
  <2>14. IF SizesDiffer(v) THEN pc' = "resync"
         ELSE pc' = IF FollowedByMagic(r2) THEN "body" ELSE "resync"
    BY <1>13, <2>2, <2>4, <2>9, <2>11 DEF CheckBlock
  <2>15. PassesAt(file, p) <=> ~SizesDiffer(v) /\ FollowedByMagic(r2)
    BY <1>7, <2>1, <2>6, <2>8, <2>13
  <2> QED BY <1>10, <1>11, <2>14, <2>15
<1> QED BY <1>12, <1>13

(* The markers the search finds in a window are those of the file. *)
LEMMA FoundMarkers ==
    ASSUME file \in Seq(Nat), NEW a \in Nat, NEW n \in Nat, a + n <= FileLen,
           NEW s, s = Slice(a, a + n)
    PROVE  MagicIn(s) = {i \in 0 .. n - 3 : MarkerAt(file, a + i)}
<1>1. PICK b : b = a + n
  OBVIOUS
<1>2. b \in Nat /\ a <= b /\ b <= FileLen /\ b - a = n /\ FileLen = Len(file)
  BY <1>1 DEF FileLen
<1>3. s \in Seq(Nat) /\ Len(s) = n
  BY <1>1, <1>2, SliceProps
<1>4. ASSUME NEW i \in 0 .. n - 3
      PROVE  SubSeq(s, i + 1, i + 3) = Magic <=> MarkerAt(file, a + i)
  <2>1. PICK p, q : p = a + i /\ q = a + i + 3
    OBVIOUS
  <2>2. /\ p \in Nat /\ q \in Nat /\ a <= p /\ p <= q /\ q <= b /\ q = p + 3
        /\ p - a + 1 = i + 1 /\ q - a = i + 3 /\ q <= Len(file)
    BY <1>1, <1>2, <2>1
  <2>3. a <= p /\ p <= q /\ q <= b
    BY <2>2
  <2>4. p \in Nat /\ q \in Nat /\ a \in Nat /\ b \in Nat /\ b <= FileLen
    BY <1>2, <2>2
  <2>5. file \in Seq(Nat)
    OBVIOUS
  <2>6. SubSeq(Slice(a, b), p - a + 1, q - a) = Slice(p, q)
    BY ONLY <2>3, <2>4, <2>5, SubSlice
  <2>7. SubSeq(s, i + 1, i + 3) = SubSeq(file, p + 1, p + 3)
    BY <1>1, <2>2, <2>6 DEF Slice
  <2>8. MarkerAt(file, p) <=> SubSeq(file, p + 1, p + 3) = Magic
    BY <2>2, Widths DEF MarkerAt
  <2> QED BY <2>1, <2>7, <2>8
<1>5. MagicIn(s) = {i \in 0 .. n - 3 : SubSeq(s, i + 1, i + 3) = Magic}
  BY <1>3, Widths DEF MagicIn
<1> QED BY <1>4, <1>5

LEMMA Resumed ==
    ASSUME OnTrack, pc = "resync", UNCHANGED <<input, file, err>>,
           NEW c, WindowTrue(c), NEW q \in Nat, ResumeAt(c, q),
           magicPos + 3 <= q, NoMarker(file, magicPos + 3, q),
           Boundary(file, q)
    PROVE  FrontInv'
<1>1. PICK ss, p, b, bl : ss = input.spans /\ p = magicPos /\ b = Corrupted
                          /\ bl = blocks
  OBVIOUS
<1>2. CursorInv /\ FrontInv /\ Layout(file, ss) /\ bl \in Seq(BlockRecord)
  BY <1>1 DEF OnTrack
<1>3. /\ Outside(file, ss, p) /\ Behind(file, input, bl, p)
      /\ MarkerAt(file, p) /\ ~PassesAt(file, p) /\ FailsOnlyTorn
      /\ p \in Nat /\ p + 3 <= q
  BY <1>1, <1>2 DEF FrontInv, CursorInv
<1>4. b \in BlockRecord /\ b.corrupt /\ b.at = p
  <2>1. b \in BlockRecord
    BY <1>1, <1>2, CorruptedType
  <2> QED BY <1>1, <2>1 DEF Corrupted
<1>5. \A x \in p + 3 .. q - 1 : ~MarkerAt(file, x)
  BY <1>1 DEF NoMarker
<1>6. /\ Outside(file, ss, q)
      /\ \A i \in Intact(file, ss) : StartOf(ss, i) < q => StartOf(ss, i) < p
      /\ \A i \in DOMAIN ss :
           ss[i].kept >= MagicLen /\ StartOf(ss, i) < q =>
               StartOf(ss, i) < p \/ StartOf(ss, i) = p
  BY <1>2, <1>3, <1>5, SearchPasses
<1>7. Behind(file, input, Append(bl, b), q)
  <2>1. p < q
    BY ONLY <1>3, q \in Nat
  <2>2. PICK in : in = input
    OBVIOUS
  <2>3. ss = in.spans /\ Behind(file, in, bl, p)
    BY <1>1, <1>3, <2>2
  <2>4. Behind(file, in, Append(bl, b), q)
    BY <1>2, <1>3, <1>4, <1>6, <2>1, <2>3, BehindAppend
  <2> QED BY <2>2, <2>4
<1>8. PICK a : a = Seek(c, q)
  OBVIOUS
<1>9. a.pos = q
  BY <1>8, SeekProps
<1>10. reader' = a /\ pc' = "magic" /\ blocks' = Append(bl, b)
  BY <1>1, <1>8 DEF ResumeAt
<1>11. FailsOnlyTorn'
  BY <1>3, TornFrame
<1> QED BY <1>1, <1>6, <1>7, <1>9, <1>10, <1>11 DEF FrontInv

LEMMA ScanFront ==
    ASSUME OnTrack, ScanForNextBlock
    PROVE  FrontInv'
<1>1. /\ pc = "resync"
      /\ UNCHANGED <<input, file, magicPos, length, budget, scanned, err>>
  BY DEF ScanForNextBlock
<1>2. CursorInv /\ FrontInv
  BY DEF OnTrack
<1>3. /\ file \in Seq(Nat) /\ input.eager \in BOOLEAN
      /\ WindowTrue(reader) /\ scanPos \in Nat /\ AfterLength <= FileLen
      /\ magicPos \in Nat /\ AfterLength = magicPos + 5
      /\ FileLen \in Nat /\ FileLen = Len(file)
  BY <1>1, <1>2, Places DEF CursorInv, FileLen
<1>4. /\ Outside(file, input.spans, magicPos)
      /\ Behind(file, input, blocks, magicPos) /\ MarkerAt(file, magicPos)
      /\ length = WordAt(file, magicPos + 3)
      /\ ~PassesAt(file, magicPos)
      /\ magicPos + 3 <= scanPos /\ NoMarker(file, magicPos + 3, scanPos)
      /\ FailsOnlyTorn
  BY <1>1, <1>2 DEF FrontInv
<1>5. ScanBuffer \in Nat /\ ScanBuffer >= 3 /\ MagicLen = 3
  BY LogFileWalkAssumption, Widths
<1>6. PICK remaining : remaining = FileLen - scanPos
  OBVIOUS
<1>7. PICK window : window = IF remaining < ScanBuffer THEN remaining ELSE ScanBuffer
  OBVIOUS
<1>8. PICK r : r = Seek(reader, scanPos)
  OBVIOUS
<1>9. PICK found : found = MagicIn(BytesAt(r, window))
  OBVIOUS
<1>10. PICK x : x = After(r, window)
  OBVIOUS
<1>11. IF remaining <= 0 THEN ResumeAt(reader, FileLen)
       ELSE IF found # {}
       THEN ResumeAt(x, scanPos + CHOOSE i \in found : \A j \in found : i <= j)
       ELSE IF window < ScanBuffer THEN ResumeAt(x, FileLen)
       ELSE /\ scanPos' = NextScanPos(window)
            /\ reader' = x
            /\ UNCHANGED <<blocks, pc>>
  BY <1>6, <1>7, <1>8, <1>9, <1>10 DEF ScanForNextBlock
<1>12. Boundary(file, FileLen) /\ magicPos + 3 <= FileLen
  BY <1>3, <1>5 DEF Boundary
<1>13. CASE remaining <= 0
  <2>1. FileLen <= scanPos
    BY <1>3, <1>6, <1>13
  <2>2. NoMarker(file, magicPos + 3, FileLen)
    BY <1>3, <1>4, <2>1 DEF NoMarker
  <2> QED BY <1>1, <1>3, <1>11, <1>12, <1>13, <2>2, Resumed
<1>14. CASE ~ (remaining <= 0)
  <2>1. WindowTrue(r) /\ r.pos = scanPos
    BY <1>3, <1>8, SeekProps
  <2>2. window \in Nat /\ scanPos + window <= FileLen
    BY <1>3, <1>5, <1>6, <1>7, <1>14
  <2>3. PICK s : s = BytesAt(r, window)
    OBVIOUS
  <2>4. WindowTrue(x) /\ s = Slice(scanPos, scanPos + window)
    BY <1>3, <1>10, <2>1, <2>2, <2>3, ReadProps
  <2>5. found = {i \in 0 .. window - 3 : MarkerAt(file, scanPos + i)}
    BY <1>3, <1>9, <2>2, <2>3, <2>4, FoundMarkers
  <2>6. CASE found # {}
    <3>1. PICK i : i = CHOOSE k \in found : \A j \in found : k <= j
      OBVIOUS
    <3>2. \E k \in found : \A j \in found : k <= j
      <4>1. found \in SUBSET (0 .. window)
        BY <2>2, <2>5
      <4> QED BY <2>2, <2>6, <4>1, LeastOf
    <3>3. i \in found /\ \A j \in found : i <= j
      BY <3>1, <3>2
    <3>4. PICK q : q = scanPos + i
      OBVIOUS
    <3>5. i \in 0 .. window - 3 /\ MarkerAt(file, q)
      BY <2>5, <3>3, <3>4
    <3>6. q \in Nat /\ magicPos + 3 <= q
      BY <1>3, <1>4, <2>2, <3>4, <3>5
    <3>7. NoMarker(file, magicPos + 3, q)
      <4> SUFFICES ASSUME NEW y \in magicPos + 3 .. q - 1, MarkerAt(file, y)
                   PROVE  FALSE
        BY DEF NoMarker
      <4>1. CASE y < scanPos
        <5>1. y \in magicPos + 3 .. scanPos - 1
          BY <1>3, <3>6, <4>1
        <5> QED BY <1>4, <5>1 DEF NoMarker
      <4>2. CASE ~ (y < scanPos)
        <5>1. PICK j : j = y - scanPos
          OBVIOUS
        <5>2. y = scanPos + j /\ j \in 0 .. window - 3 /\ j < i
          BY <1>3, <2>2, <3>4, <3>5, <3>6, <4>2, <5>1
        <5>3. j \in found
          BY <2>5, <5>2
        <5> QED BY <3>3, <3>5, <5>2, <5>3
      <4> QED BY <4>1, <4>2
    <3>8. Boundary(file, q)
      BY <3>5 DEF Boundary
    <3>9. ResumeAt(x, q)
      BY <1>11, <1>14, <2>6, <3>1, <3>4
    <3> QED BY <1>1, <2>4, <3>6, <3>7, <3>8, <3>9, Resumed
  <2>7. ASSUME found = {}, NEW q \in Nat,
               q = IF window < ScanBuffer THEN FileLen ELSE scanPos + window - 2
        PROVE  NoMarker(file, magicPos + 3, q)
    <3> SUFFICES ASSUME NEW y \in magicPos + 3 .. q - 1, MarkerAt(file, y)
                 PROVE  FALSE
      BY DEF NoMarker
    <3>1. CASE y < scanPos
      <4>1. y \in magicPos + 3 .. scanPos - 1
        BY <1>3, <3>1
      <4> QED BY <1>4, <4>1 DEF NoMarker
    <3>2. CASE ~ (y < scanPos)
      <4>1. PICK j : j = y - scanPos
        OBVIOUS
      <4>2. y \in Nat
        BY <1>3
      <4>3. y + 3 <= FileLen
        BY <1>3, <4>2, MarkerBytes
      <4>4. y = scanPos + j /\ j \in 0 .. window - 3
        <5>1. CASE window < ScanBuffer
          <6>1. window = FileLen - scanPos
            BY <1>6, <1>7, <1>3, <1>5, <5>1
          <6> QED BY <1>3, <2>2, <3>2, <4>1, <4>2, <4>3, <6>1
        <5>2. CASE ~ (window < ScanBuffer)
          <6>1. y <= scanPos + window - 3
            BY <1>3, <2>2, <2>7, <4>2, <5>2
          <6> QED BY <1>3, <2>2, <3>2, <4>1, <4>2, <6>1
        <5> QED BY <5>1, <5>2
      <4>5. j \in found
        BY <2>5, <4>4
      <4> QED BY <2>7, <4>5
    <3> QED BY <3>1, <3>2
  <2>8. CASE found = {} /\ window < ScanBuffer
    <3>1. ResumeAt(x, FileLen)
      BY <1>11, <1>14, <2>8
    <3>2. NoMarker(file, magicPos + 3, FileLen)
      BY <1>3, <2>7, <2>8
    <3> QED BY <1>1, <1>3, <1>12, <2>4, <3>1, <3>2, Resumed
  <2>9. CASE found = {} /\ ~ (window < ScanBuffer)
    <3>1. scanPos' = NextScanPos(window) /\ UNCHANGED <<blocks, pc>>
      BY <1>11, <1>14, <2>9
    <3>2. PICK q : q = scanPos + window - 2
      OBVIOUS
    <3>3. scanPos' = q /\ q \in Nat /\ magicPos + 3 <= q
      BY <1>3, <1>4, <1>5, <1>7, <2>2, <2>9, <3>1, <3>2 DEF NextScanPos
    <3>4. NoMarker(file, magicPos + 3, q)
      BY <2>7, <2>9, <3>2, <3>3
    <3>5. FailsOnlyTorn'
      BY <1>1, <1>4, TornFrame
    <3> QED BY <1>1, <1>4, <3>1, <3>3, <3>4, <3>5 DEF FrontInv
  <2> QED BY <2>6, <2>8, <2>9
<1> QED BY <1>13, <1>14

-----------------------------------------------------------------------------
(* The body: what passed the checks is an intact block, and is read as it *)
(* was written.                                                           *)
BodyAt(i, c) ==
    /\ i \in Intact(file, input.spans) /\ c \in Nat
    /\ magicPos \in Nat /\ magicPos = StartOf(input.spans, i)
    /\ BlockAt(file, magicPos, input.spans[i].block, c)
    /\ input.spans[i].block \in Block
    /\ EndOf(input.spans, i) = magicPos + 14 + c
    /\ BlockEnd = magicPos + 14 + c /\ reader.pos = magicPos + 5
    /\ Boundary(file, EndOf(input.spans, i))

LEMMA BodyPlace ==
    ASSUME OnTrack, pc = "body"
    PROVE  \E i, c : BodyAt(i, c)
<1>1. PICK ss, p : ss = input.spans /\ p = magicPos
  OBVIOUS
<1>2. CursorInv /\ FrontInv /\ Layout(file, ss) /\ Legible(file, ss)
  BY <1>1 DEF OnTrack
<1>3. /\ p \in Nat /\ reader.pos = AfterLength /\ AfterLength = p + 5
      /\ BlockEnd = AfterLength + length /\ length \in Nat
  BY <1>1, <1>2, Places DEF CursorInv
<1>4. Outside(file, ss, p) /\ PassesAt(file, p) /\ length = WordAt(file, p + 3)
  BY <1>1, <1>2 DEF FrontInv
<1>5. PICK i \in Intact(file, ss) : p = StartOf(ss, i)
  BY <1>2, <1>3, <1>4, PassStarts
<1>6. PICK b : b = ss[i].block
  OBVIOUS
<1>7. b \in Block /\ Boundary(file, EndOf(ss, i))
  BY <1>2, <1>5, <1>6, IntactBlock
<1>8. PICK c \in Nat : EndOf(ss, i) = p + 14 + c /\ BlockAt(file, p, b, c)
  BY <1>2, <1>5, <1>6, IntactBlock
<1>9. length = 9 + c
  BY <1>4, <1>8 DEF BlockAt
<1>10. BlockEnd = p + 14 + c /\ reader.pos = p + 5
  BY ONLY <1>3, <1>9, c \in Nat
<1>11. BodyAt(i, c)
  BY <1>1, <1>3, <1>5, <1>6, <1>7, <1>8, <1>10 DEF BodyAt
<1> QED BY <1>11

(* Its header. *)
LEMMA TrueHeader ==
    ASSUME CursorInv, NEW p \in Nat, NEW b \in Block, NEW c,
           BlockAt(file, p, b, c), reader.pos = p + 5,
           NEW h, h = HeaderOf(reader), NEW a, a = After(reader, 4)
    PROVE  /\ ~Eof(reader, 4) /\ ValidHeader(h)
           /\ h.type = b.type /\ h.instant = b.instant /\ h.target = b.target
           /\ h.type \in Nat /\ h.instant \in Nat /\ h.target \in Nat
           /\ WindowTrue(a) /\ a.pos = p + 9
<1>1. /\ file \in Seq(Nat) /\ input.eager \in BOOLEAN /\ WindowTrue(reader)
      /\ FileLen = Len(file) /\ FileLen \in Nat
  BY DEF CursorInv, FileLen
<1>2. /\ c \in Nat /\ p + 14 + c <= FileLen
      /\ file[p + 6] = 1 /\ file[p + 7] = b.type /\ file[p + 8] = b.instant
      /\ file[p + 9] = b.target
  BY <1>1 DEF BlockAt
<1>3. PICK n : n = 4
  OBVIOUS
<1>4. n \in Nat /\ reader.pos + n <= FileLen /\ reader.pos + n = p + 9
  BY ONLY <1>1, <1>2, <1>3, p \in Nat, reader.pos = p + 5
<1>5. PICK s : s = BytesAt(reader, n)
  OBVIOUS
<1>6. /\ ~Eof(reader, n) /\ s = Slice(reader.pos, reader.pos + n)
      /\ WindowTrue(After(reader, n)) /\ After(reader, n).pos = reader.pos + n
  BY <1>1, <1>4, <1>5, ReadProps
<1>7. /\ s[1] = file[p + 6] /\ s[2] = file[p + 7] /\ s[3] = file[p + 8]
      /\ s[4] = file[p + 9]
  <2>1. PICK x, y : x = p + 5 /\ y = p + 9
    OBVIOUS
  <2>2. x \in Nat /\ y \in Nat /\ x <= y /\ y <= FileLen /\ y - x = 4
        /\ s = Slice(x, y)
    BY <1>4, <1>6, <2>1
  <2>3. \A k \in 1 .. (y - x) : s[k] = file[x + k]
    BY <1>1, <2>2, SliceProps
  <2>4. /\ s[1] = file[x + 1] /\ s[2] = file[x + 2] /\ s[3] = file[x + 3]
        /\ s[4] = file[x + 4]
    BY ONLY <2>2, <2>3
  <2>5. x + 1 = p + 6 /\ x + 2 = p + 7 /\ x + 3 = p + 8 /\ x + 4 = p + 9
    BY ONLY <2>1, p \in Nat
  <2> QED BY <2>4, <2>5
<1>8. h = [version |-> s[1], type |-> s[2], instant |-> s[3], target |-> s[4]]
  BY <1>3, <1>5 DEF HeaderOf
<1>9. /\ h.version = 1 /\ h.type = b.type /\ h.instant = b.instant
      /\ h.target = b.target
  BY <1>2, <1>7, <1>8
<1>10. b.type \in BlockTypes /\ b.instant \in Nat /\ b.target \in Nat
  BY DEF Block
<1>11. b.type \in Nat
  BY <1>10 DEF BlockTypes
<1>12. ValidHeader(h)
  BY <1>9, <1>10 DEF ValidHeader
<1> QED BY <1>3, <1>4, <1>6, <1>9, <1>10, <1>11, <1>12

(* Its footer. *)
LEMMA TrueFooter ==
    ASSUME CursorInv, NEW p \in Nat, NEW b, NEW c, BlockAt(file, p, b, c),
           NEW r, WindowTrue(r), r.pos = p + 11 + c,
           NEW a, a = After(After(r, 1), WordLen)
    PROVE  ~Eof(r, FooterLen) /\ a.pos = p + 14 + c
<1>1. /\ file \in Seq(Nat) /\ input.eager \in BOOLEAN
      /\ FileLen = Len(file) /\ FileLen \in Nat
  BY DEF CursorInv, FileLen
<1>2. c \in Nat /\ p + 14 + c <= FileLen
  BY <1>1 DEF BlockAt
<1>3. PICK n, k, m : n = 3 /\ k = 1 /\ m = 2
  OBVIOUS
<1>4. n = FooterLen /\ m = WordLen
  BY <1>3, Widths
<1>5. /\ n \in Nat /\ k \in Nat /\ m \in Nat
      /\ r.pos + n <= FileLen /\ r.pos + k <= FileLen
      /\ r.pos + k + m <= FileLen /\ r.pos + k + m = p + 14 + c
  BY ONLY <1>1, <1>2, <1>3, p \in Nat, r.pos = p + 11 + c
<1>6. ~Eof(r, n)
  BY <1>1, <1>5, ReadProps
<1>7. PICK t : t = After(r, k)
  OBVIOUS
<1>8. WindowTrue(t) /\ t.pos = r.pos + k
  BY <1>1, <1>5, <1>7, ReadProps
<1>9. a = After(t, m)
  BY <1>3, <1>4, <1>7
<1>10. t.pos + m <= FileLen
  BY <1>5, <1>8
<1>11. a.pos = t.pos + m
  BY <1>1, <1>5, <1>8, <1>9, <1>10, ReadProps
<1> QED BY <1>4, <1>5, <1>6, <1>8, <1>11

(* Its content, and so the block. *)
LEMMA TrueBlock ==
    ASSUME OnTrack, NEW i, NEW c, BodyAt(i, c),
           NEW h, h.type = input.spans[i].block.type,
           h.instant = input.spans[i].block.instant,
           h.target = input.spans[i].block.target,
           NEW from, from = magicPos + 9, NEW len, len = c + 2,
           NEW s \in Seq(Nat),
           input.eager \/ s # << >> => s = Slice(from, from + len),
           NEW b, b = BlockRead(h, from, len, s)
    PROVE  b \in BlockRecord /\ ~b.corrupt /\ ReadsAs(b, file, input, i)
<1>1. PICK ss, p, k : ss = input.spans /\ p = magicPos /\ k = ss[i].block
  OBVIOUS
<1>2. /\ c \in Nat /\ p \in Nat /\ p = StartOf(ss, i) /\ BlockAt(file, p, k, c)
      /\ k \in Block
  BY <1>1 DEF BodyAt
<1>3. from \in Nat /\ len \in Nat /\ from + 1 = p + 10 /\ from + len = p + 11 + c
  <2>1. p \in Nat /\ c \in Nat /\ from = p + 9
    BY <1>1, <1>2
  <2> QED BY ONLY <2>1, len = c + 2
<1>4. h.type \in Nat /\ h.instant \in Nat /\ h.target \in Nat
  <2>1. h.type = k.type /\ h.instant = k.instant /\ h.target = k.target
    BY <1>1
  <2>2. k.type \in BlockTypes /\ k.instant \in Nat /\ k.target \in Nat
    BY <1>2 DEF Block
  <2> QED BY ONLY <2>1, <2>2 DEF BlockTypes
<1>5. CursorInv
  BY DEF OnTrack
<1>6. b \in BlockRecord
  BY <1>3, <1>4, <1>5, BlockType
<1>7. /\ b.corrupt = FALSE /\ b.at = p /\ b.type = k.type
      /\ b.instant = k.instant /\ b.target = k.target
      /\ b.from = from /\ b.len = len /\ b.bytes = s
  BY <1>1 DEF BlockRead
<1>8. SubSeq(file, b.from + 1, b.from + b.len)
         = Word(Len(k.content)) \o k.content
  BY <1>2, <1>3, <1>7 DEF BlockAt
<1>9. input.eager \/ b.bytes # << >>
         => b.bytes = SubSeq(file, b.from + 1, b.from + b.len)
  BY <1>7 DEF Slice
<1>10. ReadsAs(b, file, input, i)
  BY <1>1, <1>2, <1>7, <1>8, <1>9 DEF ReadsAs
<1> QED BY <1>6, <1>7, <1>10

(* The walk behind it. *)
LEMMA BodyBehind ==
    ASSUME OnTrack, pc = "body", NEW i, NEW c, BodyAt(i, c), pc' = "magic",
           UNCHANGED <<input, file, err>>,
           NEW a, reader' = a, a.pos = magicPos + 14 + c,
           \/ i \notin Readable(file, input) /\ UNCHANGED blocks
           \/ /\ i \in Readable(file, input)
              /\ \E b \in BlockRecord : /\ ~b.corrupt
                                        /\ ReadsAs(b, file, input, i)
                                        /\ blocks' = Append(blocks, b)
    PROVE  FrontInv'
<1>1. PICK in, ss, p, bl : in = input /\ ss = input.spans /\ p = magicPos
                           /\ bl = blocks
  OBVIOUS
<1>2. /\ Layout(file, ss) /\ FrontInv /\ bl \in Seq(BlockRecord)
  BY <1>1 DEF OnTrack
<1>3. /\ i \in Intact(file, ss) /\ p = StartOf(ss, i)
      /\ a.pos = EndOf(ss, i) /\ Boundary(file, EndOf(ss, i)) /\ ss = in.spans
  BY <1>1 DEF BodyAt
<1>4. Behind(file, in, bl, p) /\ FailsOnlyTorn
  BY <1>1, <1>2 DEF FrontInv
<1>5. Outside(file, ss, EndOf(ss, i))
  BY <1>2, <1>3, EndOutside
<1>6. FailsOnlyTorn'
  BY <1>4, TornFrame
<1>7. PICK bs : bs = blocks'
  OBVIOUS
<1>8. Behind(file, in, bs, EndOf(ss, i))
  <2>1. CASE i \notin Readable(file, input) /\ UNCHANGED blocks
    <3>1. bs = bl /\ i \notin Readable(file, in)
      BY <1>1, <1>7, <2>1
    <3>2. Behind(file, in, bl, EndOf(ss, i))
      BY <1>2, <1>3, <1>4, <3>1, BehindPass
    <3> QED BY <3>1, <3>2
  <2>2. ASSUME i \in Readable(file, input), NEW b \in BlockRecord, ~b.corrupt,
               ReadsAs(b, file, input, i), blocks' = Append(blocks, b)
        PROVE  Behind(file, in, bs, EndOf(ss, i))
    <3>1. bs = Append(bl, b) /\ i \in Readable(file, in) /\ ReadsAs(b, file, in, i)
      BY <1>1, <1>7, <2>2
    <3>2. Behind(file, in, Append(bl, b), EndOf(ss, i))
      BY <1>2, <1>3, <1>4, <2>2, <3>1, BehindRead
    <3> QED BY <3>1, <3>2
  <2> QED BY <2>1, <2>2
<1> QED BY <1>1, <1>3, <1>5, <1>6, <1>7, <1>8 DEF FrontInv

(***************************************************************************)
(* The streaming reader: no check of the body fails, whether the content   *)
(* is kept or stepped over the block is the one written here, and the      *)
(* cursor ends behind it.                                                  *)
(***************************************************************************)
LEMMA MetadataFront ==
    ASSUME OnTrack, ReadBodyMetadataOnly
    PROVE  FrontInv'
<1>1. pc = "body" /\ ~input.eager /\ UNCHANGED <<input, file, magicPos>>
  BY DEF ReadBodyMetadataOnly
<1>2. CursorInv
  BY DEF OnTrack
<1>3. PICK i, c : BodyAt(i, c)
  BY <1>1, BodyPlace
<1>4. PICK p, k : p = magicPos /\ k = input.spans[i].block
  OBVIOUS
<1>5. /\ p \in Nat /\ c \in Nat /\ k \in Block /\ BlockAt(file, p, k, c)
      /\ reader.pos = p + 5 /\ i \in Intact(file, input.spans)
  BY <1>3, <1>4 DEF BodyAt
<1>6. /\ file \in Seq(Nat) /\ input.eager \in BOOLEAN /\ FileLen \in Nat
      /\ FileLen = Len(file)
  BY <1>2 DEF CursorInv, FileLen
<1>7. p + 14 + c <= FileLen /\ WordAt(file, p + 9) = c
  BY <1>5, <1>6 DEF BlockAt
<1>8. PICK h : h = HeaderOf(reader)
  OBVIOUS
<1>9. PICK r1 : r1 = After(reader, 4)
  OBVIOUS
<1>10. PICK from : from = r1.pos
  OBVIOUS
<1>11. PICK len : len = ValueOf(BytesAt(r1, WordLen)) + WordLen
  OBVIOUS
<1>12. PICK r2 : r2 = After(r1, WordLen)
  OBVIOUS
<1>13. PICK keep : keep = (Affordable(len) /\ HasResident(r2, from, from + len))
  OBVIOUS
<1>14. PICK r3 : r3 = IF keep THEN After(Seek(r2, from), len) ELSE r2
  OBVIOUS
<1>15. PICK kept : kept = IF keep THEN BytesAt(Seek(r2, from), len) ELSE << >>
  OBVIOUS
<1>16. PICK r4 : r4 = Seek(r3, from + len)
  OBVIOUS
<1>17. PICK bad : bad = (Eof(reader, 4) \/ ~ValidHeader(h) \/ Eof(r1, WordLen)
                         \/ Eof(r4, FooterLen))
  OBVIOUS
<1>18. IF bad THEN Fail("format") /\ UNCHANGED <<reader, budget, blocks>>
       ELSE /\ blocks' = Append(blocks, BlockRead(h, from, len, kept))
            /\ budget' = IF keep THEN budget - len ELSE budget
            /\ reader' = After(After(r4, 1), WordLen)
            /\ pc' = "magic"
            /\ UNCHANGED err
  BY <1>8, <1>9, <1>10, <1>11, <1>12, <1>13, <1>14, <1>15, <1>16, <1>17
     DEF ReadBodyMetadataOnly
<1>19. /\ ~Eof(reader, 4) /\ ValidHeader(h)
       /\ h.type = k.type /\ h.instant = k.instant /\ h.target = k.target
       /\ WindowTrue(r1) /\ r1.pos = p + 9
  BY <1>2, <1>5, <1>8, <1>9, TrueHeader
<1>20. ~Eof(r1, WordLen) /\ len = c + 2 /\ from = p + 9
  <2>1. ~ (FileLen < r1.pos + 2)
    BY ONLY <1>5, <1>6, <1>7, <1>19
  <2>2. ~Eof(r1, WordLen)
    BY <1>2, <1>19, <2>1, WordRead
  <2>3. ValueOf(BytesAt(r1, WordLen)) = WordAt(file, p + 9)
    BY <1>2, <1>19, <2>2, WordRead
  <2> QED BY <1>7, <1>10, <1>11, <1>19, <2>2, <2>3, Widths
<1>21. PICK e : e = from + len
  OBVIOUS
<1>22. /\ from \in Nat /\ len \in Nat /\ e \in Nat /\ e = p + 11 + c
       /\ e <= FileLen
  BY ONLY <1>5, <1>6, <1>7, <1>20, <1>21
<1>23. WindowTrue(r2)
  <2>1. PICK n : n = WordLen
    OBVIOUS
  <2>2. n \in Nat /\ r1.pos + n <= FileLen
    BY <1>5, <1>6, <1>7, <1>19, <2>1, Widths
  <2> QED BY <1>6, <1>12, <1>19, <2>1, <2>2, ReadProps
<1>24. /\ WindowTrue(r3) /\ kept \in Seq(Nat)
       /\ kept # << >> => kept = Slice(from, e)
  <2>1. CASE keep
    <3>1. PICK s : s = Seek(r2, from)
      OBVIOUS
    <3>2. WindowTrue(s) /\ s.pos = from
      BY <1>22, <1>23, <3>1, SeekProps
    <3>3. r3 = After(s, len) /\ kept = BytesAt(s, len) /\ s.pos + len <= FileLen
      BY <1>14, <1>15, <1>21, <1>22, <2>1, <3>1, <3>2
    <3>4. /\ WindowTrue(r3) /\ kept = Slice(s.pos, s.pos + len)
          /\ kept \in Seq(Nat)
      BY <1>6, <1>22, <3>2, <3>3, ReadProps
    <3> QED BY <1>21, <3>2, <3>4
  <2>2. CASE ~keep
    BY <1>14, <1>15, <1>23, <2>2
  <2> QED BY <2>1, <2>2
<1>25. WindowTrue(r4) /\ r4.pos = p + 11 + c
  <2>1. r4 = Seek(r3, e)
    BY <1>16, <1>21
  <2>2. WindowTrue(r4) /\ r4.pos = e
    BY <1>22, <1>24, <2>1, SeekProps
  <2> QED BY <1>22, <2>2
<1>26. PICK a : a = After(After(r4, 1), WordLen)
  OBVIOUS
<1>27. ~Eof(r4, FooterLen) /\ a.pos = p + 14 + c
  BY <1>2, <1>5, <1>25, <1>26, TrueFooter
<1>28. ~bad
  BY <1>17, <1>19, <1>20, <1>27
<1>29. PICK b : b = BlockRead(h, from, len, kept)
  OBVIOUS
<1>30. /\ blocks' = Append(blocks, b) /\ reader' = a /\ pc' = "magic"
       /\ UNCHANGED err
  BY <1>18, <1>26, <1>28, <1>29
<1>31. b \in BlockRecord /\ ~b.corrupt /\ ReadsAs(b, file, input, i)
  <2>1. input.eager \/ kept # << >> => kept = Slice(from, from + len)
    BY <1>1, <1>21, <1>24
  <2>2. kept \in Seq(Nat)
    BY <1>24
  <2> QED BY <1>3, <1>4, <1>19, <1>20, <1>29, <2>1, <2>2, TrueBlock
<1>32. i \in Readable(file, input)
  BY <1>1, <1>5 DEF Readable
<1>33. \E x \in BlockRecord : /\ ~x.corrupt /\ ReadsAs(x, file, input, i)
                              /\ blocks' = Append(blocks, x)
  BY <1>30, <1>31
<1>34. a.pos = magicPos + 14 + c
  BY <1>4, <1>27
<1> QED BY <1>1, <1>3, <1>30, <1>32, <1>33, <1>34, BodyBehind

(***************************************************************************)
(* The eager reader: a block out of range is passed over whole; any other  *)
(* is decoded out of its own span, and is the one written here.            *)
(***************************************************************************)
LEMMA EagerFront ==
    ASSUME OnTrack, ReadBodyEager
    PROVE  FrontInv'
<1>1. pc = "body" /\ input.eager /\ UNCHANGED <<input, file, magicPos>>
  BY DEF ReadBodyEager
<1>2. CursorInv
  BY DEF OnTrack
<1>3. PICK i, c : BodyAt(i, c)
  BY <1>1, BodyPlace
<1>4. PICK p, k, z : p = magicPos /\ k = input.spans[i].block /\ z = p + 14 + c
  OBVIOUS
<1>5. /\ p \in Nat /\ c \in Nat /\ k \in Block /\ BlockAt(file, p, k, c)
      /\ reader.pos = p + 5 /\ i \in Intact(file, input.spans)
      /\ BlockEnd = z
  BY <1>3, <1>4 DEF BodyAt
<1>6. /\ file \in Seq(Nat) /\ input.eager \in BOOLEAN /\ FileLen \in Nat
      /\ FileLen = Len(file)
  BY <1>2 DEF CursorInv, FileLen
<1>7. p + 14 + c <= FileLen /\ WordAt(file, p + 9) = c
  BY <1>5, <1>6 DEF BlockAt
<1>8. PICK h : h = HeaderOf(reader)
  OBVIOUS
<1>9. PICK r1 : r1 = After(reader, 4)
  OBVIOUS
<1>10. PICK from : from = r1.pos
  OBVIOUS
<1>11. PICK n : n = BlockEnd - from
  OBVIOUS
<1>12. PICK span : span = BytesAt(r1, n)
  OBVIOUS
<1>13. PICK len : len = ValueOf(SubSeq(span, 1, WordLen)) + WordLen
  OBVIOUS
<1>14. PICK r2 : r2 = Seek(r1, from + len)
  OBVIOUS
<1>15. IF Eof(reader, 4) \/ ~ValidHeader(h)
       THEN Fail("format") /\ UNCHANGED <<reader, blocks>>
       ELSE IF h.instant \notin input.range
       THEN reader' = Seek(r1, BlockEnd) /\ pc' = "magic" /\ UNCHANGED <<blocks, err>>
       ELSE IF n < WordLen \/ n < len \/ Eof(r2, FooterLen)
       THEN Fail("format") /\ UNCHANGED <<reader, blocks>>
       ELSE /\ blocks' = Append(blocks, BlockRead(h, from, len, SubSeq(span, 1, len)))
            /\ reader' = After(After(r2, 1), WordLen)
            /\ pc' = "magic"
            /\ UNCHANGED err
  BY <1>8, <1>9, <1>10, <1>11, <1>12, <1>13, <1>14 DEF ReadBodyEager
<1>16. /\ ~Eof(reader, 4) /\ ValidHeader(h)
       /\ h.type = k.type /\ h.instant = k.instant /\ h.target = k.target
       /\ WindowTrue(r1) /\ r1.pos = p + 9
  BY <1>2, <1>5, <1>8, <1>9, TrueHeader
<1>17. /\ z \in Nat /\ z <= FileLen /\ from \in Nat /\ from = p + 9
       /\ n \in Nat /\ n = c + 5 /\ r1.pos + n <= FileLen /\ r1.pos + n = z
       /\ from + 2 <= z
  <2>1. from = p + 9 /\ n = z - from /\ r1.pos = p + 9 /\ z = p + 14 + c
    BY <1>4, <1>5, <1>10, <1>11, <1>16
  <2>2. p \in Nat /\ c \in Nat
    BY <1>5
  <2> QED BY ONLY <1>6, <1>7, <2>1, <2>2
<1>18. i \in Readable(file, input) <=> h.instant \in input.range
  BY <1>1, <1>4, <1>5, <1>16 DEF Readable
<1>19. CASE h.instant \notin input.range
  <2>1. PICK a : a = Seek(r1, BlockEnd)
    OBVIOUS
  <2>2. a.pos = z
    BY <1>5, <1>16, <1>17, <2>1, SeekProps
  <2>3. a.pos = magicPos + 14 + c
    BY <1>4, <2>2
  <2>4. reader' = a /\ pc' = "magic" /\ UNCHANGED <<blocks, err>>
    BY <1>15, <1>16, <1>19, <2>1
  <2>5. i \notin Readable(file, input)
    BY <1>18, <1>19
  <2> QED BY <1>1, <1>3, <2>3, <2>4, <2>5, BodyBehind
<1>20. CASE h.instant \in input.range
  <2>1. span = Slice(from, z)
    <3>1. span = Slice(r1.pos, r1.pos + n)
      BY <1>6, <1>12, <1>16, <1>17, ReadProps
    <3> QED BY <1>10, <1>17, <3>1
  <2>2. len = c + 2
    <3>1. PICK q : q = from + 2
      OBVIOUS
    <3>2. PICK x : x = from
      OBVIOUS
    <3>3. /\ q \in Nat /\ x \in Nat /\ from <= x /\ x <= q /\ q <= z
          /\ x - from + 1 = 1 /\ q - from = 2
      <4>1. from \in Nat /\ from + 2 <= z /\ z \in Nat
        BY <1>17
      <4> QED BY ONLY <3>1, <3>2, <4>1
    <3>4. SubSeq(Slice(from, z), x - from + 1, q - from) = Slice(x, q)
      <4>1. file \in Seq(Nat) /\ z <= FileLen
        BY <1>6, <1>17
      <4>2. from \in Nat /\ z \in Nat
        BY <1>17
      <4>3. q \in Nat /\ x \in Nat /\ from <= x /\ x <= q /\ q <= z
        BY <3>3
      <4> QED BY ONLY <4>1, <4>2, <4>3, SubSlice
    <3>5. SubSeq(span, 1, 2) = Slice(from, q)
      BY ONLY <2>1, <3>2, <3>4, <3>3
    <3>6. SubSeq(span, 1, 2) = SubSeq(file, from + 1, from + 2)
      BY <3>1, <3>5 DEF Slice
    <3>7. ValueOf(SubSeq(span, 1, WordLen)) = WordAt(file, from)
      BY <3>6, Widths DEF WordAt
    <3> QED BY <1>7, <1>13, <1>17, <3>7, Widths
  <2>3. PICK e : e = from + len
    OBVIOUS
  <2>4. /\ len \in Nat /\ e \in Nat /\ e = p + 11 + c /\ from <= e /\ e <= z
        /\ from <= from /\ from - from + 1 = 1 /\ e - from = len
        /\ ~ (n < 2) /\ ~ (n < len) /\ e <= FileLen
    <3>1. p \in Nat /\ c \in Nat /\ z = p + 14 + c
      BY <1>4, <1>5
    <3> QED BY ONLY <1>6, <1>17, <2>2, <2>3, <3>1
  <2>5. PICK s : s = SubSeq(span, 1, len)
    OBVIOUS
  <2>6. s = Slice(from, e)
    <3>1. PICK x : x = from
      OBVIOUS
    <3>2. x \in Nat /\ from <= x /\ x <= e /\ x - from + 1 = 1
      BY <1>17, <2>4, <3>1
    <3>3. SubSeq(Slice(from, z), x - from + 1, e - from) = Slice(x, e)
      <4>1. file \in Seq(Nat) /\ z <= FileLen
        BY <1>6, <1>17
      <4>2. from \in Nat /\ z \in Nat
        BY <1>17
      <4>3. e \in Nat /\ x \in Nat /\ from <= x /\ x <= e /\ e <= z
        BY <2>4, <3>2
      <4> QED BY ONLY <4>1, <4>2, <4>3, SubSlice
    <3> QED BY ONLY <2>1, <2>4, <2>5, <3>1, <3>2, <3>3
  <2>7. s \in Seq(Nat)
    BY ONLY <1>6, <1>17, <2>4, <2>6, SliceProps
  <2>8. WindowTrue(r2) /\ r2.pos = p + 11 + c
    <3>1. r2 = Seek(r1, e)
      BY <1>14, <2>3
    <3>2. WindowTrue(r2) /\ r2.pos = e
      BY <1>16, <2>4, <3>1, SeekProps
    <3> QED BY <2>4, <3>2
  <2>9. PICK a : a = After(After(r2, 1), WordLen)
    OBVIOUS
  <2>10. ~Eof(r2, FooterLen) /\ a.pos = p + 14 + c
    BY <1>2, <1>5, <2>8, <2>9, TrueFooter
  <2>11. PICK b : b = BlockRead(h, from, len, s)
    OBVIOUS
  <2>12. ~ (n < WordLen \/ n < len \/ Eof(r2, FooterLen))
    BY <2>4, <2>10, Widths
  <2>13. /\ blocks' = Append(blocks, b) /\ reader' = a /\ pc' = "magic"
         /\ UNCHANGED err
    BY <1>15, <1>16, <1>20, <2>5, <2>9, <2>11, <2>12
  <2>14. b \in BlockRecord /\ ~b.corrupt /\ ReadsAs(b, file, input, i)
    <3>1. input.eager \/ s # << >> => s = Slice(from, from + len)
      BY <2>3, <2>6
    <3>2. from = magicPos + 9
      BY <1>4, <1>17
    <3> QED BY <1>3, <1>4, <1>16, <2>2, <2>7, <2>11, <3>1, <3>2, TrueBlock
  <2>15. \E x \in BlockRecord : /\ ~x.corrupt /\ ReadsAs(x, file, input, i)
                                /\ blocks' = Append(blocks, x)
    BY <2>13, <2>14
  <2>16. i \in Readable(file, input)
    BY <1>18, <1>20
  <2>17. a.pos = magicPos + 14 + c
    BY <1>4, <2>10
  <2> QED BY <1>1, <1>3, <2>13, <2>15, <2>16, <2>17, BodyBehind
<1> QED BY <1>19, <1>20

-----------------------------------------------------------------------------
(* The invariant, for legible files. *)

Frame == input \in Inputs /\ file = FileOf(input.spans)

ExactInv ==
    /\ WalkInv /\ Frame
    /\ Legible(file, input.spans) => FrontInv

LEMMA FrontInit == Init => FrontInv
<1> SUFFICES ASSUME Init PROVE FrontInv
  OBVIOUS
<1>1. PICK in, ss, bl : in = input /\ ss = input.spans /\ bl = blocks
  OBVIOUS
<1>2. /\ in \in Inputs /\ file = FileOf(ss) /\ bl = << >> /\ pc = "magic"
      /\ reader.pos = 0 /\ err = "none" /\ ss = in.spans
  BY <1>1 DEF Init
<1>3. PICK f : f = file
  OBVIOUS
<1>4. Layout(f, ss)
  BY <1>2, <1>3, LayoutHolds
<1>5. \A i \in DOMAIN ss : StartOf(ss, i) \in Nat /\ ~(StartOf(ss, i) < 0)
  BY <1>4 DEF Layout
<1>6. \A i \in Intact(f, ss) : i \in DOMAIN ss
  BY DEF Intact
<1>7. \A i \in Readable(f, in) : i \in DOMAIN ss
  BY <1>2, <1>6 DEF Readable
<1>8. Outside(f, ss, 0)
  BY <1>5, <1>6 DEF Outside
<1>9. DOMAIN bl = {}
  BY <1>2
<1>10. Behind(f, in, bl, 0)
  BY <1>2, <1>5, <1>7, <1>9
     DEF Behind, TrueBlocks, AllRead, InOrder, AllReported
<1>11. FailsOnlyTorn
  BY <1>2 DEF FailsOnlyTorn
<1> QED BY <1>1, <1>2, <1>3, <1>8, <1>10, <1>11 DEF FrontInv

LEMMA CollectFront ==
    ASSUME FrontInv, Collect
    PROVE  FrontInv'
<1>1. pc = "collect" /\ UNCHANGED <<input, file, blocks>>
  BY DEF Collect
<1>2. \/ pc' = "failed" /\ err' = "mixed"
      \/ pc' = "done" /\ err' = err
  BY DEF Collect, Fail
<1>3. Behind(file, input, blocks, Len(file)) /\ FailsOnlyTorn
  BY <1>1 DEF FrontInv
<1>4. FailsOnlyTorn'
  BY <1>1, <1>2, <1>3, TornFrame
<1> QED BY <1>1, <1>2, <1>3, <1>4 DEF FrontInv

LEMMA FaultFront ==
    ASSUME FrontInv, StorageFails
    PROVE  FrontInv'
<1>1. pc' = "failed" /\ err' = "storage" /\ UNCHANGED <<input, file>>
  BY DEF StorageFails, Fail
<1>2. FailsOnlyTorn
  BY DEF FrontInv
<1>3. FailsOnlyTorn'
  BY <1>1, <1>2, TornFrame
<1> QED BY <1>1, <1>3 DEF FrontInv

LEMMA FrontStutter ==
    ASSUME FrontInv, UNCHANGED vars
    PROVE  FrontInv'
<1>1. UNCHANGED <<input, file, reader, pc, magicPos, length, scanPos, blocks, err>>
  BY DEF vars
<1>2. FailsOnlyTorn
  BY DEF FrontInv
<1>3. FailsOnlyTorn'
  BY <1>1, <1>2, TornFrame
<1> QED BY <1>1, <1>3 DEF FrontInv

LEMMA FrameNext ==
    ASSUME [Next]_vars
    PROVE  UNCHANGED <<input, file>>
<1>1. CASE ReadMagic
  BY <1>1 DEF ReadMagic
<1>2. CASE ReadBlockLength
  BY <1>2 DEF ReadBlockLength
<1>3. CASE CheckBlock
  BY <1>3 DEF CheckBlock
<1>4. CASE ScanForNextBlock
  BY <1>4 DEF ScanForNextBlock
<1>5. CASE ReadBodyMetadataOnly
  BY <1>5 DEF ReadBodyMetadataOnly
<1>6. CASE ReadBodyEager
  BY <1>6 DEF ReadBodyEager
<1>7. CASE Collect
  BY <1>7 DEF Collect
<1>8. CASE StorageFails
  BY <1>8 DEF StorageFails
<1>9. CASE UNCHANGED vars
  BY <1>9 DEF vars
<1> QED
  BY <1>1, <1>2, <1>3, <1>4, <1>5, <1>6, <1>7, <1>8, <1>9
     DEF Next, Walk, Finished

LEMMA ExactInit == Init => ExactInv
BY WalkInit, FrontInit DEF ExactInv, Frame, Init

LEMMA ExactNext == ExactInv /\ [Next]_vars => ExactInv'
<1> SUFFICES ASSUME ExactInv, [Next]_vars PROVE ExactInv'
  OBVIOUS
<1>1. WalkInv /\ Frame
  BY DEF ExactInv
<1>2. WalkInv'
  BY <1>1, WalkNext
<1>3. UNCHANGED <<input, file>>
  BY FrameNext
<1>4. Frame'
  BY <1>1, <1>3 DEF Frame
<1>5. ASSUME Legible(file, input.spans) PROVE FrontInv'
  <2>1. FrontInv
    BY <1>5 DEF ExactInv
  <2>2. Layout(file, input.spans)
    BY <1>1, LayoutHolds DEF Frame
  <2>3. FileLen <= WordMax
    BY <1>1, LogFileWalkAssumption DEF Frame, FileLen
  <2>4. CursorInv /\ blocks \in Seq(BlockRecord)
    BY <1>1 DEF WalkInv, ContentInv
  <2>5. OnTrack
    BY <1>5, <2>1, <2>2, <2>3, <2>4 DEF OnTrack
  <2>6. CASE ReadMagic
    BY <2>5, <2>6, MagicFront
  <2>7. CASE ReadBlockLength
    BY <2>5, <2>7, LengthFront
  <2>8. CASE CheckBlock
    BY <2>5, <2>8, CheckFront
  <2>9. CASE ScanForNextBlock
    BY <2>5, <2>9, ScanFront
  <2>10. CASE ReadBodyMetadataOnly
    BY <2>5, <2>10, MetadataFront
  <2>11. CASE ReadBodyEager
    BY <2>5, <2>11, EagerFront
  <2>12. CASE Collect
    BY <2>1, <2>12, CollectFront
  <2>13. CASE StorageFails
    BY <2>1, <2>13, FaultFront
  <2>14. CASE UNCHANGED vars
    BY <2>1, <2>14, FrontStutter
  <2> QED
    BY <2>6, <2>7, <2>8, <2>9, <2>10, <2>11, <2>12, <2>13, <2>14
       DEF Next, Walk, Finished
<1>6. Legible(file, input.spans)' => FrontInv'
  BY <1>3, <1>5
<1> QED BY <1>2, <1>4, <1>6 DEF ExactInv

(***************************************************************************)
(* The invariant from which the theorems below follow: over a legible file *)
(* the walk never stands inside an intact block, and all that lies before  *)
(* it has been read or reported.                                           *)
(***************************************************************************)
THEOREM ExactInductive == Spec => []ExactInv
<1>1. Init => ExactInv
  BY ExactInit
<1>2. ExactInv /\ [Next]_vars => ExactInv'
  BY ExactNext
<1> QED BY <1>1, <1>2, PTL DEF Spec

LEMMA WalkExactHolds ==
    ASSUME ExactInv, Legible(file, input.spans)
    PROVE  WalkExact
<1> SUFFICES ASSUME pc = "done"
             PROVE  /\ \A n \in Found : \E i \in Readable(file, input) :
                         ReadsAs(blocks[n], file, input, i)
                    /\ \A i \in Readable(file, input) : \E n \in Found :
                         blocks[n].at = StartOf(input.spans, i)
                    /\ \A m, n \in Found : m < n => blocks[m].at < blocks[n].at
  BY DEF WalkExact
<1>1. Behind(file, input, blocks, Len(file))
  BY DEF ExactInv, FrontInv
<1>2. Layout(file, input.spans)
  BY LayoutHolds DEF ExactInv, Frame
<1>3. \A i \in Readable(file, input) : StartOf(input.spans, i) < Len(file)
  <2> SUFFICES ASSUME NEW i \in Intact(file, input.spans)
               PROVE  StartOf(input.spans, i) < Len(file)
    BY DEF Readable
  <2>1. PICK x, y, z : /\ x = StartOf(input.spans, i)
                       /\ y = EndOf(input.spans, i) /\ z = Len(file)
    OBVIOUS
  <2>2. x \in Nat /\ y \in Nat /\ z \in Nat /\ x + 14 <= y /\ y <= z
    BY <1>2, <2>1, IntactPlace
  <2>3. x < z
    BY ONLY <2>2
  <2> QED BY <2>1, <2>3
<1>4. \A n \in Found : \E i \in Readable(file, input) :
        ReadsAs(blocks[n], file, input, i)
  BY <1>1 DEF Behind, TrueBlocks, Found
<1>5. \A i \in Readable(file, input) : \E n \in Found :
        blocks[n].at = StartOf(input.spans, i)
  BY <1>1, <1>3 DEF Behind, AllRead, Found
<1>6. \A m, n \in Found : m < n => blocks[m].at < blocks[n].at
  BY <1>1 DEF Behind, InOrder, Found
<1> QED BY <1>4, <1>5, <1>6

LEMMA DamageSeenHolds ==
    ASSUME ExactInv, Legible(file, input.spans)
    PROVE  DamageSeen
<1> SUFFICES ASSUME pc = "done",
                    NEW i \in DOMAIN input.spans \ Intact(file, input.spans),
                    input.spans[i].kept >= MagicLen
             PROVE  \E n \in DOMAIN blocks :
                       /\ blocks[n].corrupt
                       /\ blocks[n].at = StartOf(input.spans, i)
  BY DEF DamageSeen
<1>1. Behind(file, input, blocks, Len(file))
  BY DEF ExactInv, FrontInv
<1>2. Layout(file, input.spans)
  BY LayoutHolds DEF ExactInv, Frame
<1>3. PICK x, f : x = StartOf(input.spans, i) /\ f = file
  OBVIOUS
<1>4. x \in Nat /\ MarkerAt(f, x)
  BY <1>2, <1>3, SpanMarker
<1>5. f \in Seq(Nat) /\ Len(f) \in Nat
  BY <1>2, <1>3 DEF Layout
<1>6. x + 3 <= Len(f)
  BY <1>4, <1>5, MarkerBytes
<1>7. x < Len(f)
  BY ONLY <1>4, <1>5, <1>6
<1> QED BY <1>1, <1>3, <1>7 DEF Behind, AllReported

(***************************************************************************)
(* However a file was damaged and wherever windows were cut, a walk that   *)
(* ends has read exactly the blocks that were written whole, once each and *)
(* in order, with their own headers and content (read_next_block and       *)
(* read_next_block_metadata_only, is_block_corrupted,                      *)
(* scan_for_next_block_offset), as long as what is left of torn blocks     *)
(* does not itself look like a block.                                      *)
(***************************************************************************)
THEOREM WalkExactTheorem ==
    Spec => [](Legible(file, input.spans) => WalkExact)
<1>1. ExactInv => (Legible(file, input.spans) => WalkExact)
  BY WalkExactHolds
<1> QED BY <1>1, ExactInductive, PTL

(***************************************************************************)
(* A walk that ends has left a corrupt marker where each span begins that  *)
(* could not be read and of which a marker is left                         *)
(* (create_corrupted_block), in a legible file.                            *)
(***************************************************************************)
THEOREM DamageSeenTheorem ==
    Spec => [](Legible(file, input.spans) => DamageSeen)
<1>1. ExactInv => (Legible(file, input.spans) => DamageSeen)
  BY DamageSeenHolds
<1> QED BY <1>1, ExactInductive, PTL

(***************************************************************************)
(* A legible file fails to read only where it begins with a torn marker or *)
(* ends inside a length field: no check of a block's body ever fails       *)
(* (read_magic, read_block_length, the header and footer readers).         *)
(***************************************************************************)
THEOREM FailsOnlyTornTheorem ==
    Spec => [](Legible(file, input.spans) => FailsOnlyTorn)
<1>1. ExactInv => (Legible(file, input.spans) => FailsOnlyTorn)
  BY DEF ExactInv, FrontInv
<1> QED BY <1>1, ExactInductive, PTL
=============================================================================
