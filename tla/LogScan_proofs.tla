-------------------------- MODULE LogScan_proofs ---------------------------
(***************************************************************************)
(* Theorems about the log scan, for every number of instants, of files and *)
(* of blocks, every budget and every request.                              *)
(***************************************************************************)
EXTENDS LogScan, FiniteLemmas

(* A sequence of block positions stays one when blocks are appended. *)
LEMMA SeqGrows ==
    ASSUME NEW n \in Nat, NEW m \in Nat, n <= m, NEW s \in Seq(1 .. n)
    PROVE  s \in Seq(1 .. m)
<1>1. \A k \in 1 .. Len(s) : s[k] \in 1 .. m
  OBVIOUS
<1>2. Len(s) \in Nat /\ s = [k \in 1 .. Len(s) |-> s[k]]
  OBVIOUS
<1> QED BY <1>1, <1>2

(* What retain leaves is a sequence. *)
LEMMA RetainType ==
    ASSUME NEW S, NEW s \in Seq(S), NEW t
    PROVE  RetainOthers(s, t) \in Seq(S)
BY DEF RetainOthers, RemoveAt

(* Of a list without repetition, retain leaves the other entries in order. *)
LEMMA RetainProps ==
    ASSUME NEW S, NEW s \in Seq(S), NEW t,
           \A m, n \in DOMAIN s : s[m] = s[n] => m = n
    PROVE  LET r == RetainOthers(s, t)
           IN  /\ ToSet(r) = ToSet(s) \ {t}
               /\ \A m, n \in DOMAIN r : m < n =>
                    \E a, b \in DOMAIN s : a < b /\ r[m] = s[a] /\ r[n] = s[b]
<1>1. CASE \E n \in DOMAIN s : s[n] = t
  <2> DEFINE p == CHOOSE n \in DOMAIN s : s[n] = t
             r == RemoveAt(s, p)
  <2>1. p \in DOMAIN s /\ s[p] = t
    BY <1>1
  <2>2. RetainOthers(s, t) = r
    BY <1>1 DEF RetainOthers
  <2> HIDE DEF p
  <2>3. /\ r \in Seq(S) /\ Len(r) = Len(s) - 1
        /\ \A k \in 1 .. Len(r) : r[k] = IF k < p THEN s[k] ELSE s[k + 1]
    <3> DEFINE u == SubSeq(s, 1, p - 1)
               v == SubSeq(s, p + 1, Len(s))
    <3>1. /\ u \in Seq(S) /\ Len(u) = p - 1
          /\ \A k \in 1 .. Len(u) : u[k] = s[k]
      BY <2>1
    <3>2. /\ v \in Seq(S) /\ Len(v) = Len(s) - p
          /\ \A k \in 1 .. Len(v) : v[k] = s[p + k]
      BY <2>1
    <3>3. r = u \o v
      BY DEF RemoveAt
    <3> HIDE DEF u, v, r
    <3>4. r \in Seq(S) /\ Len(r) = Len(s) - 1
      BY <2>1, <3>1, <3>2, <3>3
    <3>5. ASSUME NEW k \in 1 .. Len(r)
          PROVE  r[k] = IF k < p THEN s[k] ELSE s[k + 1]
      <4>1. CASE k < p
        BY <2>1, <3>1, <3>2, <3>3, <3>4, <4>1
      <4>2. CASE k >= p
        <5>1. r[k] = v[k - (p - 1)] /\ k - (p - 1) \in 1 .. Len(v)
          BY <2>1, <3>1, <3>2, <3>3, <3>4, <4>2
        <5> QED BY <2>1, <3>2, <4>2, <5>1
      <4> QED BY <2>1, <4>1, <4>2
    <3> QED BY <3>4, <3>5
  <2> HIDE DEF r
  <2>4. ToSet(r) = ToSet(s) \ {t}
    <3>1. ASSUME NEW x \in ToSet(r) PROVE x \in ToSet(s) \ {t}
      BY <2>1, <2>3 DEF ToSet
    <3>2. ASSUME NEW x \in ToSet(s) \ {t} PROVE x \in ToSet(r)
      <4>1. PICK k \in 1 .. Len(s) : s[k] = x
        BY DEF ToSet
      <4>2. k # p
        BY <2>1, <4>1
      <4>3. CASE k < p
        BY <2>1, <2>3, <4>1, <4>3 DEF ToSet
      <4>4. CASE k > p
        <5>1. k - 1 \in 1 .. Len(r) /\ r[k - 1] = x
          BY <2>1, <2>3, <4>1, <4>4
        <5> QED BY <5>1, <2>3 DEF ToSet
      <4> QED BY <2>1, <4>2, <4>3, <4>4
    <3> QED BY <3>1, <3>2
  <2>5. ASSUME NEW m \in DOMAIN r, NEW n \in DOMAIN r, m < n
        PROVE  \E a, b \in DOMAIN s : a < b /\ r[m] = s[a] /\ r[n] = s[b]
    <3> DEFINE a == IF m < p THEN m ELSE m + 1
               b == IF n < p THEN n ELSE n + 1
    <3>1. a \in DOMAIN s /\ b \in DOMAIN s /\ a < b
      BY <2>1, <2>3, <2>5
    <3>2. r[m] = s[a] /\ r[n] = s[b]
      BY <2>3, <2>5
    <3> QED BY <3>1, <3>2
  <2> QED BY <2>2, <2>4, <2>5
<1>2. CASE ~\E n \in DOMAIN s : s[n] = t
  <2>1. RetainOthers(s, t) = s
    BY <1>2 DEF RetainOthers
  <2> QED BY <1>2, <2>1 DEF ToSet
<1> QED BY <1>1, <1>2

-----------------------------------------------------------------------------
(***************************************************************************)
(* What each phase has not touched yet: the results of a later pass are    *)
(* empty while an earlier pass runs.                                       *)
(***************************************************************************)
Phases ==
    /\ pc = "walk" => scanned = 0
    /\ pc \in {"walk", "pass1"} => togo = 0
    /\ pc \in {"walk", "pass1", "pass2"} =>
         /\ ordered = << >> /\ windows = << >> /\ planned = 0
         /\ cursor = 0 /\ merged = << >> /\ fetched = {}
    /\ pc = "merge" => windows # << >>

TypeInv == TypeOK /\ Phases

LEMMA TypeInit == Init => TypeInv
<1> SUFFICES ASSUME Init PROVE TypeInv
  OBVIOUS
<1> USE ScanAssumption DEF Init, ScanReset, Idx, NoInstant
<1>1. InputTypes
  BY DEF ScanInput, InputTypes
<1>2. [i \in Instants |-> << >>] \in [Instants -> Seq(Idx)]
  OBVIOUS
<1>3. WalkTypes /\ Pass1Types /\ Pass2Types /\ Pass3Types
  BY <1>2 DEF WalkTypes, Pass1Types, Pass2Types, Pass3Types
<1> QED BY <1>1, <1>3 DEF TypeInv, TypeOK, Phases, PCs

-----------------------------------------------------------------------------
(* A pass that is not running keeps its types. *)
LEMMA InputsKept == InputTypes /\ UNCHANGED inputVars => InputTypes'
BY DEF InputTypes, inputVars

LEMMA WalkKept ==
    WalkTypes /\ UNCHANGED <<inputVars, walkVars>> => WalkTypes'
BY DEF WalkTypes, inputVars, walkVars, Idx

LEMMA Pass1Kept ==
    Pass1Types /\ UNCHANGED <<blocks, pass1Vars>> => Pass1Types'
BY DEF Pass1Types, pass1Vars, Idx

LEMMA Pass2Kept ==
    Pass2Types /\ UNCHANGED <<blocks, ordered_instants_list, pass2Vars>>
        => Pass2Types'
BY DEF Pass2Types, pass2Vars, Idx

LEMMA Pass3Kept ==
    Pass3Types /\ UNCHANGED <<blocks, pass3Vars>> => Pass3Types'
BY DEF Pass3Types, pass3Vars, Idx

(* The walk keeps the types and the phases. *)
LEMMA TypeWalk ==
    ASSUME TypeInv, Walk PROVE TypeInv'
<1> USE DEF TypeInv, TypeOK, PCs
<1>1. CASE OpenLogFile
  <2> USE <1>1 DEF OpenLogFile
  <2>1. file + 1 \in 1 .. NumFiles
    BY ScanAssumption DEF WalkTypes
  <2>2. Len(files[file + 1]) \in Nat
    BY <2>1 DEF InputTypes
  <2>3. WalkTypes'
    BY <2>1, <2>2 DEF WalkTypes, inputVars, Idx
  <2> QED
    BY <2>3, InputsKept, Pass1Kept, Pass2Kept, Pass3Kept
       DEF Phases, pass1Vars, pass2Vars, pass3Vars
<1>2. ASSUME NEW keep \in BOOLEAN, ReadBlockHeader(keep) PROVE TypeInv'
  <2> USE <1>2 DEF ReadBlockHeader
  <2>1. files[file] \in Seq(LogBlock) /\ at + 1 \in 1 .. Len(files[file])
        /\ file \in 1 .. NumFiles
    BY DEF WalkTypes, InputTypes
  <2>a. files[file][at + 1] \in LogBlock
    BY <2>1
  <2>2. files[file][at + 1] \in LogBlock /\ files[file][at + 1].len \in Nat
    BY <2>a DEF LogBlock
  <2>3. blocks' \in Seq(LogBlock) /\ Len(blocks') = Len(blocks) + 1
    BY <2>2 DEF WalkTypes
  <2>4. Idx \subseteq Idx' /\ Len(blocks) + 1 \in Idx'
    BY <2>3 DEF Idx, WalkTypes
  <2>5. \A s \in Seq(Idx) : s \in Seq(Idx')
    BY <2>3, SeqGrows DEF Idx, WalkTypes
  <2>6. WalkTypes'
    BY <2>1, <2>2, <2>3, <2>4 DEF WalkTypes, Affordable, inputVars
  <2>7. Pass1Types' /\ Pass2Types'
    BY <2>3, <2>5 DEF Pass1Types, Pass2Types, WalkTypes, pass1Vars, pass2Vars
  <2>8. Pass3Types'
    BY <2>3, <2>4, <2>5 DEF Pass3Types, WalkTypes, pass3Vars
  <2> QED
    BY <2>6, <2>7, <2>8, InputsKept
       DEF Phases, pass1Vars, pass2Vars, pass3Vars
<1>3. CASE WalkDone
  BY <1>3, InputsKept, WalkKept, Pass1Kept, Pass2Kept, Pass3Kept
     DEF WalkDone, Phases, walkVars, pass1Vars, pass2Vars, pass3Vars
<1> QED BY <1>1, <1>2, <1>3 DEF Walk

(* The forward sweep keeps the types and the phases. *)
LEMMA TypePass1 ==
    ASSUME TypeInv, ForwardScanPass1 PROVE TypeInv'
<1> USE DEF TypeInv, TypeOK, PCs
<1>1. Sweeping => /\ NextBlock \in LogBlock
                  /\ scanned + 1 \in Idx
                  /\ scanned + 1 \in 0 .. Len(blocks)
  BY DEF Sweeping, NextBlock, WalkTypes, Pass1Types, Idx
<1>2. CASE KeepBlock
  <2> USE <1>2 DEF KeepBlock
  <2>1. NextBlock.instant \in Instants
    BY <1>1 DEF Admitted, LogBlock, Sweeping
  <2>b. instant_to_blocks_map' \in [Instants -> Seq(Idx)]
    BY <1>1, <2>1 DEF Pass1Types, Sweeping
  <2>c. ordered_instants_list' \in Seq(Instants)
    BY <2>1 DEF Pass1Types
  <2>2. Pass1Types'
    BY <1>1, <2>b, <2>c DEF Pass1Types, walkVars, Idx, Sweeping
  <2>3. Len(ordered_instants_list) <= Len(ordered_instants_list')
    BY <2>1 DEF Pass1Types
  <2>4. Pass2Types'
    BY <2>2, <2>3 DEF Pass2Types, Pass1Types, pass2Vars, walkVars, Idx
  <2> QED
    BY <2>2, <2>4, InputsKept, WalkKept, Pass3Kept
       DEF Phases, Sweeping, walkVars, pass2Vars, pass3Vars
<1>3. CASE ApplyRollback
  <2> USE <1>3 DEF ApplyRollback
  <2>1. ordered_instants_list' \in Seq(Instants)
    BY RetainType DEF Pass1Types
  <2>b. instant_to_blocks_map' \in [Instants -> Seq(Idx)]
    <3>1. << >> \in Seq(Idx)
      OBVIOUS
    <3> QED BY <3>1 DEF Pass1Types
  <2>2. Pass1Types'
    BY <1>1, <2>1, <2>b DEF Pass1Types, walkVars, Idx, Sweeping
  <2>3. Pass2Types'
    BY <2>1 DEF Pass2Types, Phases, Sweeping, pass2Vars, walkVars, Idx
  <2> QED
    BY <2>2, <2>3, InputsKept, WalkKept, Pass3Kept
       DEF Phases, Sweeping, walkVars, pass2Vars, pass3Vars
<1>4. CASE SkipBlock
  <2> USE <1>4 DEF SkipBlock
  <2>1. Pass1Types'
    BY <1>1 DEF Pass1Types, walkVars, Idx, Sweeping
  <2> QED
    BY <2>1, InputsKept, WalkKept, Pass2Kept, Pass3Kept
       DEF Phases, Sweeping, walkVars, pass2Vars, pass3Vars
<1>5. CASE Pass1Done
  <2>1. Pass2Types'
    BY <1>5 DEF Pass1Done, Pass1Types, Pass2Types, walkVars, pass1Vars, Idx
  <2> QED
    BY <1>5, <2>1, InputsKept, WalkKept, Pass1Kept, Pass3Kept
       DEF Pass1Done, Phases, walkVars, pass1Vars, pass3Vars
<1> QED BY <1>2, <1>3, <1>4, <1>5 DEF ForwardScanPass1

(* The reverse scan keeps the types and the phases. *)
LEMMA TypePass2 ==
    ASSUME TypeInv, ReverseScanPass2 PROVE TypeInv'
<1> USE DEF TypeInv, TypeOK, PCs
<1>1. Visiting => /\ Visited \in Instants
                  /\ FinalInstant(Visited) \in Instants
                  /\ togo - 1 \in 0 .. Len(ordered_instants_list)
  BY DEF Visiting, Visited, FinalInstant, Pass1Types, Pass2Types
<1>2. ReverseScanPass2 =>
        Visiting /\ UNCHANGED <<inputVars, pc, walkVars, pass1Vars, pass3Vars>>
  BY DEF ReverseScanPass2, NoteCompaction, EnqueueInstant, SkipIncluded
<1>3. Pass2Types'
  <2>1. CASE NoteCompaction
    BY <1>1, <2>1
       DEF NoteCompaction, Pass2Types, walkVars, pass1Vars, Idx
  <2>2. CASE EnqueueInstant
    <3>1. instant_to_blocks_map[FinalInstant(Visited)] \in Seq(Idx)
      BY <1>1, <1>2 DEF Pass1Types
    <3>2. Reverse(instant_to_blocks_map[FinalInstant(Visited)]) \in Seq(Idx)
      BY <3>1, ReverseProps
    <3> QED
      BY <1>1, <2>2, <3>2
         DEF EnqueueInstant, Pass2Types, walkVars, pass1Vars, Idx
  <2>3. CASE SkipIncluded
    BY <1>1, <2>3 DEF SkipIncluded, Pass2Types, walkVars, pass1Vars, Idx
  <2> QED BY <2>1, <2>2, <2>3 DEF ReverseScanPass2
<1> QED
  BY <1>2, <1>3, InputsKept, WalkKept, Pass1Kept, Pass3Kept
     DEF Phases, Visiting, walkVars, pass1Vars, pass3Vars

(* Planning, fetching and merging keep the types and the phases. *)
LEMMA TypePass3 ==
    ASSUME TypeInv, FetchAndMergeWindows PROVE TypeInv'
<1> USE DEF TypeInv, TypeOK, PCs
<1>1. FetchAndMergeWindows =>
        UNCHANGED <<inputVars, walkVars, pass1Vars, pass2Vars>>
  BY DEF FetchAndMergeWindows, FinishWithoutMerging, StartPass3, PlanResident,
         PlanJoin, PlanCut, PlanDone, FetchWindow, MergeBlock, WindowDone,
         MergeDone
<1>2. FetchAndMergeWindows => pc' \in PCs /\ Phases'
  BY DEF FetchAndMergeWindows, FinishWithoutMerging, StartPass3, PlanResident,
         PlanJoin, PlanCut, PlanDone, FetchWindow, MergeBlock, WindowDone,
         MergeDone, Phases, Planning, walkVars, pass1Vars, pass2Vars
<1>3. Planning => Planned \in Idx /\ blocks[Planned].len \in Nat
  <2>1. Planning => Planned \in Idx
    BY DEF Planning, Planned, Pass3Types
  <2>2. \A k \in Idx : blocks[k] \in LogBlock
    BY DEF WalkTypes, Idx
  <2> QED BY <2>1, <2>2 DEF LogBlock
<1>4. Pass3Types'
  <2> USE DEF Pass3Types
  <2>a. Idx' = Idx
    BY <1>1 DEF walkVars, Idx
  <2>1. CASE FinishWithoutMerging \/ PlanDone \/ MergeDone
    BY <1>1, <2>1, Pass3Kept
       DEF FinishWithoutMerging, PlanDone, MergeDone, walkVars, pass3Vars
  <2>2. CASE StartPass3
    <3>1. ordered' \in Seq(Idx)
      BY <2>2, ReverseProps DEF StartPass3, DrainBack, Pass2Types
    <3> QED
      BY <2>2, <2>a, <3>1 DEF StartPass3, Phases
  <2>3. CASE PlanResident
    BY <2>3, <2>a DEF PlanResident, Planning
  <2>4. CASE PlanJoin
    <3> USE DEF PlanJoin, Planning
    <3>1. Len(windows) \in DOMAIN windows /\ planned + 1 \in DOMAIN ordered
      BY <2>4 DEF Joins
    <3> DEFINE w1 == Append(windows[Len(windows)], planned + 1)
    <3>2. w1 \in Seq(DOMAIN ordered) /\ Len(w1) > 0
      BY <3>1
    <3>3. windows' = [windows EXCEPT ![Len(windows)] = w1]
      BY <2>4
    <3> HIDE DEF w1
    <3>4. windows' \in Seq(Seq(DOMAIN ordered))
      BY <3>1, <3>2, <3>3
    <3>5. \A w \in DOMAIN windows' : windows'[w] # << >>
      BY <3>1, <3>2, <3>3
    <3>6. /\ current_bytes' \in Nat /\ planned' \in 0 .. Len(ordered)
          /\ UNCHANGED <<ordered, fetched, cursor, merged>>
      BY <1>3, <2>4
    <3> HIDE DEF PlanJoin
    <3> QED BY <2>a, <3>4, <3>5, <3>6
  <2>5. CASE PlanCut
    <3> USE <2>5 DEF PlanCut, Planning
    <3>1. <<planned + 1>> \in Seq(DOMAIN ordered)
      OBVIOUS
    <3>2. windows' \in Seq(Seq(DOMAIN ordered))
      BY <3>1
    <3>3. \A w \in DOMAIN windows' : windows'[w] # << >>
      BY <3>1
    <3> QED BY <1>3, <2>a, <3>2, <3>3
  <2>6. CASE FetchWindow
    <3>1. Head(windows) \in Seq(DOMAIN ordered)
      BY <2>6 DEF FetchWindow
    <3>2. \A p \in ToSet(Head(windows)) : ordered[p] \in Idx
      BY <3>1 DEF ToSet
    <3> QED BY <2>6, <2>a, <3>2 DEF FetchWindow
  <2>7. CASE MergeBlock
    <3>1. Through \in 0 .. Len(ordered)
      <4>1. CASE windows = << >>
        BY <4>1 DEF Through
      <4>2. CASE windows # << >>
        <5>1. Head(windows) \in Seq(DOMAIN ordered) /\ Head(windows) # << >>
          BY <4>2
        <5> QED BY <4>2, <5>1 DEF Through, Last
      <4> QED BY <4>1, <4>2
    <3>2. cursor + 1 \in DOMAIN ordered
      BY <2>7, <3>1 DEF MergeBlock
    <3>3. ordered[cursor + 1] \in Idx
      BY <3>2
    <3> QED BY <2>7, <2>a, <3>2, <3>3 DEF MergeBlock
  <2>8. CASE WindowDone
    <3>1. windows # << >>
      BY <2>8 DEF WindowDone, Phases
    <3> QED BY <2>8, <2>a, <3>1 DEF WindowDone
  <2> QED
    BY <2>1, <2>2, <2>3, <2>4, <2>5, <2>6, <2>7, <2>8
       DEF FetchAndMergeWindows
<1> QED
  BY <1>1, <1>2, <1>4, InputsKept, WalkKept, Pass1Kept, Pass2Kept
     DEF walkVars, pass1Vars

(* Every step keeps the types and the phases. *)
LEMMA TypeStep == TypeInv /\ [Next]_vars => TypeInv'
<1> SUFFICES ASSUME TypeInv, [Next]_vars PROVE TypeInv'
  OBVIOUS
<1>1. CASE ScanFails
  BY <1>1, InputsKept, WalkKept, Pass1Kept, Pass2Kept, Pass3Kept
     DEF ScanFails, TypeInv, TypeOK, Phases, PCs, walkVars, pass1Vars,
         pass2Vars, pass3Vars
<1>2. CASE UNCHANGED vars
  BY <1>2, InputsKept, WalkKept, Pass1Kept, Pass2Kept, Pass3Kept
     DEF vars, TypeInv, TypeOK, Phases, PCs, walkVars, pass1Vars,
         pass2Vars, pass3Vars
<1> QED
  BY <1>1, <1>2, TypeWalk, TypePass1, TypePass2, TypePass3
     DEF Next, ScanStep, Returned

(***************************************************************************)
(* The scan is type correct: in particular the shared resident budget of   *)
(* the walk never goes below zero (an unsigned subtraction in              *)
(* read_next_block_metadata_only), every index that reverse_scan_pass2 and *)
(* fetch_and_merge_windows use is in bounds, and plan_content_windows      *)
(* emits no empty window (the `expect` in fetch_and_merge_windows).        *)
(***************************************************************************)
THEOREM TypeCorrect == Spec => []TypeOK
<1>1. TypeInv => TypeOK
  BY DEF TypeInv
<1> QED BY <1>1, TypeInit, TypeStep, PTL DEF Spec

-----------------------------------------------------------------------------
(***************************************************************************)
(* Pass 1.  How the survivors change when one more block is swept.         *)
(***************************************************************************)
LEMMA SurvivorStep ==
    ASSUME TypeInv, Sweeping, NEW i \in Instants
    PROVE  /\ Admitted(NextBlock) =>
                SurvivorsOf(i, scanned + 1) =
                    IF i = NextBlock.instant
                    THEN SurvivorsOf(i, scanned) \cup {scanned + 1}
                    ELSE SurvivorsOf(i, scanned)
           /\ RollsBack(NextBlock) =>
                SurvivorsOf(i, scanned + 1) =
                    IF i = NextBlock.target THEN {} ELSE SurvivorsOf(i, scanned)
           /\ ~Admitted(NextBlock) /\ ~RollsBack(NextBlock) =>
                SurvivorsOf(i, scanned + 1) = SurvivorsOf(i, scanned)
<1>1. scanned \in Nat /\ NextBlock = blocks[scanned + 1]
  BY DEF TypeInv, TypeOK, Pass1Types, NextBlock, Sweeping
<1>2. ASSUME NEW k \in 1 .. scanned
      PROVE  RolledBackBy(k, scanned + 1) <=>
               \/ RolledBackBy(k, scanned)
               \/ RollsBack(NextBlock) /\ NextBlock.target = blocks[k].instant
  <2>1. (k + 1) .. (scanned + 1) = ((k + 1) .. scanned) \cup {scanned + 1}
    BY <1>1
  <2> QED BY <1>1, <2>1 DEF RolledBackBy
<1>3. ~RolledBackBy(scanned + 1, scanned + 1)
  BY <1>1 DEF RolledBackBy
<1>4. 1 .. (scanned + 1) = (1 .. scanned) \cup {scanned + 1}
  BY <1>1
<1>5. Admitted(NextBlock) => ~RollsBack(NextBlock)
  BY DEF Admitted, RollsBack, MergedTypes
<1>6. RollsBack(NextBlock) => ~Admitted(NextBlock)
  BY <1>5
<1> QED BY <1>1, <1>2, <1>3, <1>4, <1>5, <1>6 DEF SurvivorsOf, Surviving

Pass1Inv == TypeInv /\ Pass1Exact /\ ListMatchesMap

LEMMA Pass1Init == Init => Pass1Inv
<1> SUFFICES ASSUME Init PROVE Pass1Inv
  OBVIOUS
<1>1. /\ scanned = 0 /\ ordered_instants_list = << >>
      /\ instant_to_blocks_map = [i \in Instants |-> << >>]
  BY DEF Init, ScanReset
<1>2. Pass1Exact
  BY <1>1 DEF Pass1Exact, SurvivorsOf, ToSet
<1>3. ListMatchesMap
  BY <1>1 DEF ListMatchesMap, ToSet
<1> QED BY <1>2, <1>3, TypeInit DEF Pass1Inv

(* Swept positions are what pass 1 has put in the map. *)
LEMMA MapRange ==
    ASSUME Pass1Inv, NEW i \in Instants
    PROVE  /\ instant_to_blocks_map[i] \in Seq(Idx)
           /\ \A m \in DOMAIN instant_to_blocks_map[i] :
                instant_to_blocks_map[i][m] \in SurvivorsOf(i, scanned)
           /\ \A m \in DOMAIN instant_to_blocks_map[i] :
                instant_to_blocks_map[i][m] \in 1 .. scanned
BY DEF Pass1Inv, TypeInv, TypeOK, Pass1Types, Pass1Exact, ToSet, SurvivorsOf

(* The list of instants has no repetition. *)
LEMMA ListInjective ==
    ASSUME Pass1Inv,
           NEW m \in DOMAIN ordered_instants_list,
           NEW n \in DOMAIN ordered_instants_list,
           ordered_instants_list[m] = ordered_instants_list[n]
    PROVE  m = n
<1>1. ordered_instants_list \in Seq(Instants)
  BY DEF Pass1Inv, TypeInv, TypeOK, Pass1Types
<1>2. ASSUME NEW k \in DOMAIN ordered_instants_list
      PROVE  Head(instant_to_blocks_map[ordered_instants_list[k]]) \in Nat
  <2>1. /\ ordered_instants_list[k] \in Instants
        /\ instant_to_blocks_map[ordered_instants_list[k]] # << >>
    BY <1>1 DEF Pass1Inv, ListMatchesMap, ToSet
  <2> QED BY <2>1, MapRange DEF Idx
<1> QED BY <1>1, <1>2 DEF Pass1Inv, ListMatchesMap

(* Steps outside pass 1 leave its results and what they mean alone. *)
LEMMA Pass1Frame ==
    ASSUME Pass1Inv, UNCHANGED pass1Vars, UNCHANGED <<blocks, req>>
    PROVE  (Pass1Exact /\ ListMatchesMap)'
<1>1. \A k \in Nat : Admitted(blocks[k])' <=> Admitted(blocks[k])
  BY DEF Admitted
<1>2. \A k \in Nat : RollsBack(blocks[k])' <=> RollsBack(blocks[k])
  BY DEF RollsBack
<1>3. \A i \in Instants : SurvivorsOf(i, scanned)' = SurvivorsOf(i, scanned)
  BY DEF SurvivorsOf, Surviving, RolledBackBy, RollsBack, Admitted, pass1Vars
<1>4. Pass1Exact'
  BY <1>3 DEF Pass1Inv, Pass1Exact, pass1Vars
<1> QED BY <1>4 DEF Pass1Inv, ListMatchesMap, pass1Vars

(* Sweeping one block: what the survivors are afterwards. *)
LEMMA SweptSurvivors ==
    ASSUME Pass1Inv, Sweeping, scanned' = scanned + 1, UNCHANGED <<blocks, req>>
    PROVE  \A i \in Instants :
             SurvivorsOf(i, scanned)' = SurvivorsOf(i, scanned + 1)
BY DEF SurvivorsOf, Surviving, RolledBackBy, RollsBack, Admitted

LEMMA Pass1Keep ==
    ASSUME Pass1Inv, KeepBlock
    PROVE  (Pass1Exact /\ ListMatchesMap)'
<1> DEFINE b == NextBlock.instant
           n == scanned + 1
           old == instant_to_blocks_map
           list == ordered_instants_list
<1> USE DEF Pass1Inv
<1>1. /\ scanned \in Nat /\ n \in Idx
      /\ old \in [Instants -> Seq(Idx)] /\ list \in Seq(Instants)
      /\ NextBlock \in LogBlock
  BY DEF TypeInv, TypeOK, Pass1Types, WalkTypes, KeepBlock, Sweeping, NextBlock, Idx
<1>2. b \in Instants
  BY <1>1 DEF KeepBlock, Admitted, LogBlock
<1>3. instant_to_blocks_map' = [old EXCEPT ![b] = Append(old[b], n)]
  BY DEF KeepBlock
<1>4. \A i \in Instants :
        SurvivorsOf(i, scanned)' =
          IF i = b THEN SurvivorsOf(i, scanned) \cup {n} ELSE SurvivorsOf(i, scanned)
  BY SweptSurvivors, SurvivorStep DEF KeepBlock, walkVars, inputVars
<1>5. list' = IF old[b] = << >> THEN Append(list, b) ELSE list
  BY DEF KeepBlock
<1>6. /\ \A i \in Instants \ {b} : instant_to_blocks_map'[i] = old[i]
      /\ instant_to_blocks_map'[b] = Append(old[b], n)
  BY <1>1, <1>2, <1>3
<1>7. ToSet(Append(old[b], n)) = ToSet(old[b]) \cup {n}
  BY <1>1, <1>2, AppendProps
<1>8. ASSUME NEW x \in DOMAIN Append(old[b], n), NEW y \in DOMAIN Append(old[b], n),
             x < y
      PROVE  Append(old[b], n)[x] < Append(old[b], n)[y]
  <2>1. old[b] \in Seq(Idx) /\ \A m \in DOMAIN old[b] : old[b][m] \in 1 .. scanned
    BY <1>2, MapRange
  <2>a. Len(Append(old[b], n)) = Len(old[b]) + 1 /\ Len(old[b]) \in Nat
    BY <1>1, <2>1
  <2>b. x \in 1 .. (Len(old[b]) + 1) /\ y \in 1 .. (Len(old[b]) + 1)
    BY <1>1, <2>1
  <2>2. CASE y = Len(old[b]) + 1
    BY <1>1, <1>8, <2>1, <2>2
  <2>3. CASE y # Len(old[b]) + 1
    <3>1. x \in DOMAIN old[b] /\ y \in DOMAIN old[b]
      BY <1>8, <2>1, <2>3, <2>a, <2>b
    <3>2. old[b][x] < old[b][y]
      BY <1>2, <1>8, <3>1 DEF Pass1Exact
    <3> QED BY <1>1, <2>1, <3>1, <3>2
  <2> QED BY <2>2, <2>3
<1>9. Pass1Exact'
  <2>1. \A i \in Instants :
          ToSet(instant_to_blocks_map'[i]) = SurvivorsOf(i, scanned)'
    BY <1>2, <1>4, <1>6, <1>7 DEF Pass1Exact
  <2>2. \A i \in Instants : \A x, y \in DOMAIN instant_to_blocks_map'[i] :
          x < y => instant_to_blocks_map'[i][x] < instant_to_blocks_map'[i][y]
    BY <1>2, <1>6, <1>8 DEF Pass1Exact
  <2> QED BY <2>1, <2>2 DEF Pass1Exact
<1>10. ListMatchesMap'
  <2>1. Append(old[b], n) # << >>
    BY <1>1, <1>2, AppendProps
  <2>2. CASE old[b] = << >>
    <3>1. \A k \in DOMAIN list : list[k] \in Instants /\ list[k] # b /\ old[list[k]] # << >>
      BY <1>1, <2>2 DEF ListMatchesMap, ToSet
    <3>2. list' = Append(list, b)
      BY <1>5, <2>2
    <3>3. ToSet(list') = ToSet(list) \cup {b}
      BY <1>1, <1>2, <3>2, AppendProps
    <3>4. ToSet(list') = {i \in Instants : instant_to_blocks_map'[i] # << >>}
      BY <1>2, <1>6, <2>1, <2>2, <3>3 DEF ListMatchesMap
    <3>5. Head(instant_to_blocks_map'[b]) = n
      BY <1>1, <1>2, <1>6, <2>2, AppendProps
    <3>6. \A k \in DOMAIN list : Head(old[list[k]]) \in 1 .. scanned
      BY <1>1, <3>1, MapRange
    <3>7. ASSUME NEW x \in DOMAIN list', NEW y \in DOMAIN list', x < y
          PROVE  Head(instant_to_blocks_map'[list'[x]])
                   < Head(instant_to_blocks_map'[list'[y]])
      <4>1. x \in DOMAIN list /\ list'[x] = list[x]
        BY <1>1, <1>2, <3>2, <3>7
      <4>2. CASE y = Len(list) + 1
        <5>1. list'[y] = b
          BY <1>1, <1>2, <3>2, <4>2
        <5>2. instant_to_blocks_map'[list'[x]] = old[list[x]]
          BY <1>6, <3>1, <4>1
        <5> QED BY <1>1, <3>5, <3>6, <4>1, <5>1, <5>2
      <4>3. CASE y # Len(list) + 1
        <5>1. y \in DOMAIN list /\ list'[y] = list[y]
          BY <1>1, <1>2, <3>2, <3>7, <4>3
        <5> QED BY <1>6, <3>1, <3>7, <4>1, <5>1 DEF ListMatchesMap
      <4> QED BY <4>2, <4>3
    <3> QED BY <3>4, <3>7 DEF ListMatchesMap
  <2>3. CASE old[b] # << >>
    <3>1. list' = list
      BY <1>5, <2>3
    <3>2. Head(instant_to_blocks_map'[b]) = Head(old[b])
      BY <1>1, <1>2, <1>6, <2>3, AppendProps
    <3>3. \A k \in DOMAIN list : list[k] \in Instants
      BY <1>1
    <3> QED BY <1>2, <1>6, <2>1, <2>3, <3>1, <3>2, <3>3 DEF ListMatchesMap
  <2> QED BY <2>2, <2>3
<1> QED BY <1>9, <1>10

LEMMA Pass1Rollback ==
    ASSUME Pass1Inv, ApplyRollback
    PROVE  (Pass1Exact /\ ListMatchesMap)'
<1> DEFINE t == NextBlock.target
           old == instant_to_blocks_map
           list == ordered_instants_list
<1> USE DEF Pass1Inv
<1>1. /\ old \in [Instants -> Seq(Idx)] /\ list \in Seq(Instants)
      /\ NextBlock \in LogBlock
  BY DEF TypeInv, TypeOK, Pass1Types, WalkTypes, ApplyRollback, Sweeping, NextBlock
<1>2. t \in Instants
  BY <1>1 DEF ApplyRollback, RollsBack, LogBlock
<1>3. /\ \A i \in Instants \ {t} : instant_to_blocks_map'[i] = old[i]
      /\ instant_to_blocks_map'[t] = << >>
  BY <1>1, <1>2 DEF ApplyRollback
<1>4. \A i \in Instants :
        SurvivorsOf(i, scanned)' =
          IF i = t THEN {} ELSE SurvivorsOf(i, scanned)
  BY SweptSurvivors, SurvivorStep DEF ApplyRollback, walkVars, inputVars
<1>5. Pass1Exact'
  BY <1>2, <1>3, <1>4 DEF Pass1Exact, ToSet
<1>6. list' = RetainOthers(list, t)
  BY DEF ApplyRollback
<1>7. /\ ToSet(list') = ToSet(list) \ {t}
      /\ \A m, n \in DOMAIN list' : m < n =>
           \E x, y \in DOMAIN list :
             x < y /\ list'[m] = list[x] /\ list'[n] = list[y]
  BY <1>1, <1>6, ListInjective, RetainProps
<1>8. ToSet(list') = {i \in Instants : instant_to_blocks_map'[i] # << >>}
  BY <1>2, <1>3, <1>7 DEF ListMatchesMap
<1>9. ASSUME NEW m \in DOMAIN list', NEW n \in DOMAIN list', m < n
      PROVE  Head(instant_to_blocks_map'[list'[m]])
               < Head(instant_to_blocks_map'[list'[n]])
  <2>1. PICK x \in DOMAIN list, y \in DOMAIN list :
          x < y /\ list'[m] = list[x] /\ list'[n] = list[y]
    BY <1>7, <1>9
  <2>2. list'[m] \in ToSet(list') /\ list'[n] \in ToSet(list')
    BY DEF ToSet
  <2>3. list'[m] \in Instants \ {t} /\ list'[n] \in Instants \ {t}
    BY <1>7, <1>8, <2>2
  <2> QED BY <1>3, <2>1, <2>3 DEF ListMatchesMap
<1>10. ListMatchesMap'
  BY <1>8, <1>9 DEF ListMatchesMap
<1> QED BY <1>5, <1>10

LEMMA Pass1Skip ==
    ASSUME Pass1Inv, SkipBlock
    PROVE  (Pass1Exact /\ ListMatchesMap)'
<1> USE DEF Pass1Inv
<1>1. \A i \in Instants :
        SurvivorsOf(i, scanned)' = SurvivorsOf(i, scanned)
  BY SweptSurvivors, SurvivorStep DEF SkipBlock, walkVars, inputVars
<1>2. Pass1Exact'
  BY <1>1 DEF Pass1Exact, SkipBlock
<1> QED BY <1>2 DEF ListMatchesMap, SkipBlock

(* The walk appends blocks while nothing has been swept. *)
LEMMA Pass1Walk ==
    ASSUME Pass1Inv, Walk
    PROVE  (Pass1Exact /\ ListMatchesMap)'
<1>1. scanned = 0 /\ UNCHANGED pass1Vars
  BY DEF Pass1Inv, TypeInv, Phases, Walk, OpenLogFile, ReadBlockHeader, WalkDone
<1>2. \A i \in Instants : SurvivorsOf(i, scanned) = {} /\ SurvivorsOf(i, scanned)' = {}
  BY <1>1 DEF SurvivorsOf, pass1Vars
<1>3. Pass1Exact'
  BY <1>1, <1>2 DEF Pass1Inv, Pass1Exact, pass1Vars
<1> QED BY <1>1, <1>3 DEF Pass1Inv, ListMatchesMap, pass1Vars

LEMMA Pass1Step == Pass1Inv /\ [Next]_vars => Pass1Inv'
<1> SUFFICES ASSUME Pass1Inv, [Next]_vars PROVE Pass1Inv'
  OBVIOUS
<1>1. TypeInv'
  BY TypeStep DEF Pass1Inv
<1>2. CASE ForwardScanPass1
  <2>1. CASE Pass1Done
    BY <1>1, <2>1, Pass1Frame DEF Pass1Done, Pass1Inv, inputVars, walkVars
  <2> QED
    BY <1>1, <1>2, <2>1, Pass1Keep, Pass1Rollback, Pass1Skip
       DEF ForwardScanPass1, Pass1Inv
<1>3. CASE Walk
  BY <1>1, <1>3, Pass1Walk DEF Pass1Inv
<1>4. CASE ReverseScanPass2
  <2>1. UNCHANGED <<inputVars, walkVars, pass1Vars>>
    BY <1>4 DEF ReverseScanPass2, NoteCompaction, EnqueueInstant, SkipIncluded
  <2> QED BY <1>1, <2>1, Pass1Frame DEF Pass1Inv, inputVars, walkVars
<1>5. CASE FetchAndMergeWindows
  <2>1. UNCHANGED <<inputVars, walkVars, pass1Vars>>
    BY <1>5
       DEF FetchAndMergeWindows, FinishWithoutMerging, StartPass3,
           PlanResident, PlanJoin, PlanCut, PlanDone, FetchWindow, MergeBlock,
           WindowDone, MergeDone
  <2> QED BY <1>1, <2>1, Pass1Frame DEF Pass1Inv, inputVars, walkVars
<1>6. CASE ScanFails \/ UNCHANGED vars
  <2>1. UNCHANGED <<inputVars, walkVars, pass1Vars>>
    BY <1>6 DEF ScanFails, vars
  <2> QED BY <1>1, <2>1, Pass1Frame DEF Pass1Inv, inputVars, walkVars
<1> QED
  BY <1>2, <1>3, <1>4, <1>5, <1>6 DEF Next, ScanStep, Returned

(***************************************************************************)
(* forward_scan_pass1 computes exactly what the gates and the rollback     *)
(* blocks mean, for every log and every request.                           *)
(***************************************************************************)
THEOREM GatesExact == Spec => []Pass1Exact
<1>1. Pass1Inv => Pass1Exact
  BY DEF Pass1Inv
<1> QED BY <1>1, Pass1Init, Pass1Step, PTL DEF Spec

(***************************************************************************)
(* ordered_instants_list and instant_to_blocks_map never disagree, so the  *)
(* empty-instant `continue` of reverse_scan_pass2 is dead code.            *)
(***************************************************************************)
THEOREM ListAndMapAgree == Spec => []ListMatchesMap
<1>1. Pass1Inv => ListMatchesMap
  BY DEF Pass1Inv
<1> QED BY <1>1, Pass1Init, Pass1Step, PTL DEF Spec

-----------------------------------------------------------------------------
(***************************************************************************)
(* Pass 2.  An instant is queued, or named as a compaction, only once the  *)
(* reverse scan has passed its place in the list; the list has no          *)
(* repetition, so the instant visited now cannot have been queued.         *)
(***************************************************************************)
Passed(i) ==
    \E m \in (togo + 1) .. Len(ordered_instants_list) :
        ordered_instants_list[m] = i

QueueFresh ==
    pc \in {"walk", "pass1"} =>
        /\ compactionOf = [i \in Instants |-> NoInstant]
        /\ instant_times_included = {} /\ valid_block_instants = << >>
        /\ current_instant_log_blocks = << >>

PassedOnly ==
    /\ \A x \in Instants : compactionOf[x] # NoInstant => Passed(compactionOf[x])
    /\ \A i \in instant_times_included : Passed(i)

(* The queue holds the blocks of the queued instants, each once. *)
QueueExact ==
    /\ ToSet(current_instant_log_blocks) =
         UNION {ToSet(instant_to_blocks_map[i]) : i \in instant_times_included}
    /\ IsInjective(current_instant_log_blocks)

QueueInv == QueueFresh /\ PassedOnly /\ QueuedOnce /\ QueueExact

LEMMA QueueInit == Init => QueueInv
<1> SUFFICES ASSUME Init PROVE QueueInv
  OBVIOUS
<1>1. /\ compactionOf = [i \in Instants |-> NoInstant]
      /\ instant_times_included = {} /\ valid_block_instants = << >>
      /\ current_instant_log_blocks = << >>
  BY DEF Init, ScanReset
<1> QED
  BY <1>1
     DEF QueueInv, QueueFresh, PassedOnly, QueuedOnce, QueueExact, ToSet,
         IsInjective

(* Steps that touch neither the queue nor what it is built from. *)
LEMMA QueueFrame ==
    ASSUME QueueInv,
           UNCHANGED <<pass2Vars, ordered_instants_list, instant_to_blocks_map>>,
           pc' \in {"walk", "pass1"} => pc \in {"walk", "pass1"}
    PROVE  QueueInv'
<1> USE DEF QueueInv, pass2Vars
<1>1. QueueFresh'
  BY DEF QueueFresh
<1>2. PassedOnly'
  BY DEF PassedOnly, Passed
<1>3. QueuedOnce'
  BY DEF QueuedOnce, ToSet, IsInjective
<1>4. QueueExact'
  BY DEF QueueExact
<1> QED BY <1>1, <1>2, <1>3, <1>4

(* While pass 1 runs the queue is empty, whatever the list and the map are. *)
LEMMA QueueEmpty ==
    ASSUME QueueFresh', pc' \in {"walk", "pass1"}
    PROVE  QueueInv'
BY DEF QueueInv, QueueFresh, PassedOnly, QueuedOnce, QueueExact, ToSet, IsInjective

LEMMA QueuePass1 ==
    ASSUME Pass1Inv, QueueInv, ForwardScanPass1
    PROVE  QueueInv'
<1>1. CASE KeepBlock \/ ApplyRollback \/ SkipBlock
  <2>1. QueueFresh' /\ pc' \in {"walk", "pass1"}
    BY <1>1
       DEF KeepBlock, ApplyRollback, SkipBlock, Sweeping, QueueInv, QueueFresh,
           pass2Vars
  <2> QED BY <2>1, QueueEmpty
<1>2. CASE Pass1Done
  <2>1. /\ compactionOf' = [i \in Instants |-> NoInstant]
        /\ instant_times_included' = {} /\ valid_block_instants' = << >>
        /\ current_instant_log_blocks' = << >>
        /\ pc' = "pass2"
    BY <1>2 DEF Pass1Done, QueueInv, QueueFresh
  <2> QED
    BY <2>1
       DEF QueueInv, QueueFresh, PassedOnly, QueuedOnce, QueueExact, ToSet,
           IsInjective
<1> QED BY <1>1, <1>2 DEF ForwardScanPass1

(* What one step back through the list does to Passed. *)
LEMMA StepBack ==
    ASSUME Pass1Inv, Visiting, togo' = togo - 1, UNCHANGED ordered_instants_list
    PROVE  /\ \A i : Passed(i) => Passed(i)'
           /\ \A i : i = Visited => Passed(i)'
           /\ ~Passed(Visited)
<1>1. /\ togo \in 1 .. Len(ordered_instants_list)
      /\ ordered_instants_list \in Seq(Instants)
  BY DEF Pass1Inv, TypeInv, TypeOK, Pass1Types, Pass2Types, Visiting
<1>2. \A i : Passed(i) => Passed(i)'
  BY <1>1 DEF Passed
<1>3. \A i : i = Visited => Passed(i)'
  BY <1>1 DEF Passed, Visited
<1>4. ~Passed(Visited)
  BY <1>1, ListInjective DEF Passed, Visited
<1> QED BY <1>2, <1>3, <1>4

LEMMA QueuePass2 ==
    ASSUME Pass1Inv, QueueInv, ReverseScanPass2
    PROVE  QueueInv'
<1> DEFINE f == FinalInstant(Visited)
<1>1. /\ Visiting /\ togo' = togo - 1
      /\ UNCHANGED <<pc, ordered_instants_list, instant_to_blocks_map>>
  BY DEF ReverseScanPass2, NoteCompaction, EnqueueInstant, SkipIncluded, pass1Vars
<1>2. /\ \A i : Passed(i) => Passed(i)'
      /\ \A i : i = Visited => Passed(i)'
      /\ ~Passed(Visited)
  BY <1>1, StepBack
<1>3. Visited \in Instants /\ f \in Instants
  BY <1>1
     DEF Visiting, Visited, FinalInstant, Pass1Inv, TypeInv, TypeOK,
         Pass1Types, Pass2Types
<1>4. \A i : i = f => Passed(i)'
  BY <1>2, <1>3 DEF FinalInstant, QueueInv, PassedOnly
<1>5. QueueFresh'
  BY <1>1 DEF QueueFresh, Visiting
<1> HIDE DEF f
<1>6. CASE NoteCompaction
  <2>1. compactionOf' = [i \in Instants |-> IF i \in Originals THEN f
                                                              ELSE compactionOf[i]]
    BY <1>6 DEF NoteCompaction, f
  <2>2. UNCHANGED <<instant_times_included, valid_block_instants,
                    current_instant_log_blocks>>
    BY <1>6 DEF NoteCompaction
  <2>3. PassedOnly'
    BY <1>2, <1>4, <2>1, <2>2 DEF QueueInv, PassedOnly
  <2> QED
    BY <1>1, <1>5, <2>2, <2>3 DEF QueueInv, QueuedOnce, QueueExact
<1>7. CASE SkipIncluded
  <2>1. UNCHANGED <<compactionOf, instant_times_included,
                    valid_block_instants, current_instant_log_blocks>>
    BY <1>7 DEF SkipIncluded
  <2>2. PassedOnly'
    BY <1>2, <2>1 DEF QueueInv, PassedOnly
  <2> QED
    BY <1>1, <1>5, <2>1, <2>2 DEF QueueInv, QueuedOnce, QueueExact
<1>8. CASE EnqueueInstant
  <2> DEFINE bs == instant_to_blocks_map[f]
             q == current_instant_log_blocks
  <2>1. /\ q' = q \o Reverse(bs)
        /\ instant_times_included' = instant_times_included \cup {f}
        /\ valid_block_instants' = Append(valid_block_instants, f)
        /\ UNCHANGED compactionOf
    BY <1>8 DEF EnqueueInstant, f
  <2>2. f \notin instant_times_included
    BY <1>2, <1>3, <1>8
       DEF EnqueueInstant, AlreadyIncluded, FinalInstant, f, QueueInv, PassedOnly
  <2>3. PassedOnly'
    BY <1>2, <1>4, <2>1 DEF QueueInv, PassedOnly
  <2>4. QueuedOnce'
    <3>1. /\ valid_block_instants \in Seq(Instants)
          /\ ToSet(valid_block_instants) = instant_times_included
          /\ IsInjective(valid_block_instants)
      BY DEF Pass1Inv, TypeInv, TypeOK, Pass2Types, QueueInv, QueuedOnce
    <3>2. ToSet(valid_block_instants') = instant_times_included'
      BY <1>3, <2>1, <3>1, AppendProps
    <3>3. IsInjective(valid_block_instants')
      BY <1>3, <2>1, <2>2, <3>1 DEF IsInjective, ToSet
    <3> QED BY <3>2, <3>3 DEF QueuedOnce
  <2>5. QueueExact'
    <3>1. /\ q \in Seq(Idx) /\ bs \in Seq(Idx)
          /\ \A i \in Instants : ToSet(instant_to_blocks_map[i])
                                   = SurvivorsOf(i, scanned)
          /\ instant_times_included \subseteq Instants
      BY <1>3
         DEF Pass1Inv, TypeInv, TypeOK, Pass1Types, Pass2Types, Pass1Exact
    <3>2. /\ ToSet(q) = UNION {ToSet(instant_to_blocks_map[i]) :
                                 i \in instant_times_included}
          /\ IsInjective(q)
      BY DEF QueueInv, QueueExact
    <3>3. Reverse(bs) \in Seq(Idx) /\ ToSet(Reverse(bs)) = ToSet(bs)
      BY <3>1, ReverseProps, ReverseSet
    <3>4. IsInjective(bs)
      <4>1. \A m \in DOMAIN bs : bs[m] \in Nat
        BY <3>1 DEF Idx
      <4>2. \A m, n \in DOMAIN bs : m < n => bs[m] < bs[n]
        BY <1>3 DEF Pass1Inv, Pass1Exact
      <4> QED BY <3>1, <4>1, <4>2 DEF IsInjective
    <3>5. ToSet(q) \cap ToSet(bs) = {}
      BY <1>3, <2>2, <3>1, <3>2 DEF SurvivorsOf
    <3>6. ToSet(q') = ToSet(q) \cup ToSet(bs) /\ IsInjective(q')
      BY <2>1, <3>1, <3>2, <3>3, <3>4, <3>5, ConcatSet, ReverseSet
    <3>7. ToSet(q') = UNION {ToSet(instant_to_blocks_map'[i]) :
                               i \in instant_times_included'}
      BY <1>1, <2>1, <3>2, <3>6
    <3> QED BY <3>6, <3>7 DEF QueueExact
  <2> QED BY <1>5, <2>3, <2>4, <2>5 DEF QueueInv
<1> QED BY <1>6, <1>7, <1>8 DEF ReverseScanPass2

LEMMA QueueStep == Pass1Inv /\ QueueInv /\ [Next]_vars => QueueInv'
<1> SUFFICES ASSUME Pass1Inv, QueueInv, [Next]_vars PROVE QueueInv'
  OBVIOUS
<1>1. CASE Walk \/ FetchAndMergeWindows \/ ScanFails \/ UNCHANGED vars
  <2>1. /\ UNCHANGED <<pass2Vars, ordered_instants_list, instant_to_blocks_map>>
        /\ pc' \in {"walk", "pass1"} => pc \in {"walk", "pass1"}
    BY <1>1
       DEF Walk, OpenLogFile, ReadBlockHeader, WalkDone, FetchAndMergeWindows,
           FinishWithoutMerging, StartPass3, PlanResident, PlanJoin, PlanCut,
           PlanDone, FetchWindow, MergeBlock, WindowDone, MergeDone, ScanFails,
           vars, pass1Vars
  <2> QED BY <2>1, QueueFrame
<1> QED
  BY <1>1, QueuePass1, QueuePass2 DEF Next, ScanStep, Returned

(***************************************************************************)
(* Pass 3.  What is merged is a prefix of the reversed queue, and pass 1   *)
(* had swept every block before anything was queued.                       *)
(***************************************************************************)
MergeInv ==
    /\ pc \in {"pass2", "plan", "fetch", "merge"} => scanned = Len(blocks)
    /\ ordered # << >> => /\ scanned = Len(blocks)
                          /\ ordered = Reverse(current_instant_log_blocks)
    /\ pc \in {"plan", "fetch", "merge"} =>
         ordered = Reverse(current_instant_log_blocks)
    /\ pc \in {"walk", "pass1", "pass2"} => ordered = << >>
    /\ Len(merged) = cursor
    /\ \A p \in 1 .. cursor : merged[p] = ordered[p]
    /\ pc = "done" /\ ~req.skip =>
         \/ ordered = Reverse(current_instant_log_blocks) /\ cursor = Len(ordered)
         \/ current_instant_log_blocks = << >> /\ cursor = 0

LEMMA MergeInit == Init => MergeInv
BY DEF Init, ScanReset, MergeInv

LEMMA MergeStep == TypeInv /\ MergeInv /\ [Next]_vars => MergeInv'
<1> SUFFICES ASSUME TypeInv, MergeInv, [Next]_vars PROVE MergeInv'
  OBVIOUS
<1>1. CASE Walk
  <2>1. ordered = << >> /\ ordered' = << >> /\ pc' \in {"walk", "pass1"}
        /\ UNCHANGED <<cursor, merged>>
    BY <1>1
       DEF Walk, OpenLogFile, ReadBlockHeader, WalkDone, MergeInv, pass3Vars
  <2> QED BY <2>1 DEF MergeInv
<1>2. CASE ForwardScanPass1
  <2>1. /\ pc = "pass1" /\ pc' \in {"pass1", "pass2"}
        /\ pc' = "pass2" => scanned' = Len(blocks')
        /\ UNCHANGED <<ordered, cursor, merged>>
    BY <1>2
       DEF ForwardScanPass1, KeepBlock, ApplyRollback, SkipBlock, Pass1Done,
           Sweeping, walkVars, pass1Vars, pass3Vars
  <2> QED BY <2>1 DEF MergeInv
<1>3. CASE ReverseScanPass2
  <2>1. pc = "pass2" /\ UNCHANGED <<pc, blocks, scanned, ordered, cursor, merged>>
    BY <1>3
       DEF ReverseScanPass2, NoteCompaction, EnqueueInstant, SkipIncluded,
           Visiting, walkVars, pass1Vars, pass3Vars
  <2> QED BY <2>1 DEF MergeInv
<1>4. CASE FetchAndMergeWindows
  <2>1. UNCHANGED <<blocks, scanned, current_instant_log_blocks, req>>
    BY <1>4
       DEF FetchAndMergeWindows, FinishWithoutMerging, StartPass3,
           PlanResident, PlanJoin, PlanCut, PlanDone, FetchWindow, MergeBlock,
           WindowDone, MergeDone, inputVars, walkVars, pass1Vars, pass2Vars
  <2>2. CASE FinishWithoutMerging
    BY <2>1, <2>2
       DEF FinishWithoutMerging, MergeInv, pass3Vars, TypeInv, Phases
  <2>3. CASE StartPass3
    BY <2>1, <2>3 DEF StartPass3, MergeInv, DrainBack, TypeInv, Phases
  <2>4. CASE PlanResident \/ PlanJoin \/ PlanCut \/ PlanDone
             \/ FetchWindow \/ WindowDone
    <3>1. /\ pc \in {"plan", "fetch", "merge"} /\ pc' \in {"plan", "fetch", "merge"}
          /\ UNCHANGED <<ordered, cursor, merged>>
      BY <2>4
         DEF PlanResident, PlanJoin, PlanCut, PlanDone, FetchWindow, WindowDone,
             Planning, pass3Vars
    <3> QED BY <2>1, <3>1 DEF MergeInv
  <2>5. CASE MergeBlock
    <3>1. /\ pc \in {"fetch", "merge"} /\ UNCHANGED <<pc, ordered>>
          /\ cursor' = cursor + 1
          /\ merged' = Append(merged, ordered[cursor + 1])
      BY <2>5 DEF MergeBlock
    <3>2. cursor \in Nat /\ merged \in Seq(Idx) /\ Len(merged) = cursor
      BY DEF TypeInv, TypeOK, Pass3Types, MergeInv
    <3>3. ordered[cursor + 1] \in Idx
      <4>1. TypeInv'
        BY TypeStep
      <4>2. cursor + 1 \in 1 .. Len(ordered)
        BY <3>1, <3>2, <4>1 DEF TypeInv, TypeOK, Pass3Types
      <4> QED BY <4>2 DEF TypeInv, TypeOK, Pass3Types
    <3>4. Len(merged') = cursor' /\ \A p \in 1 .. cursor' : merged'[p] = ordered'[p]
      BY <3>1, <3>2, <3>3 DEF MergeInv
    <3> QED BY <2>1, <3>1, <3>4 DEF MergeInv
  <2>6. CASE MergeDone
    BY <2>1, <2>6 DEF MergeDone, MergeInv, Through, pass3Vars
  <2> QED
    BY <1>4, <2>2, <2>3, <2>4, <2>5, <2>6 DEF FetchAndMergeWindows
<1>5. CASE ScanFails
  BY <1>5
     DEF ScanFails, MergeInv, inputVars, walkVars, pass1Vars, pass2Vars, pass3Vars
<1>6. CASE UNCHANGED vars
  BY <1>6
     DEF vars, MergeInv, inputVars, walkVars, pass1Vars, pass2Vars, pass3Vars
<1> QED
  BY <1>1, <1>2, <1>3, <1>4, <1>5, <1>6 DEF Next, ScanStep, Returned

ScanInv == Pass1Inv /\ QueueInv /\ MergeInv

(* The merged prefix of the queue: distinct blocks that survive the whole log. *)
LEMMA MergedFromQueue == ScanInv => MergedOnlySurvivors
<1> SUFFICES ASSUME ScanInv PROVE MergedOnlySurvivors
  OBVIOUS
<1> DEFINE q == current_instant_log_blocks
<1>1. /\ q \in Seq(Idx) /\ ordered \in Seq(Idx) /\ merged \in Seq(Idx)
      /\ cursor \in 0 .. Len(ordered) /\ instant_times_included \subseteq Instants
      /\ Len(merged) = cursor /\ \A p \in 1 .. cursor : merged[p] = ordered[p]
      /\ IsInjective(q)
      /\ ToSet(q) = UNION {ToSet(instant_to_blocks_map[i]) :
                             i \in instant_times_included}
  BY DEF ScanInv, Pass1Inv, TypeInv, TypeOK, Pass2Types, Pass3Types, MergeInv,
         QueueInv, QueueExact
<1>2. CASE ordered = << >>
  BY <1>1, <1>2 DEF MergedOnlySurvivors, IsInjective
<1>3. CASE ordered # << >>
  <2>1. ordered = Reverse(q) /\ scanned = Len(blocks)
    BY <1>3 DEF ScanInv, MergeInv
  <2>2. ToSet(ordered) = ToSet(q) /\ IsInjective(ordered)
    BY <1>1, <2>1, ReverseSet
  <2>3. IsInjective(merged)
    BY <1>1, <2>2 DEF IsInjective
  <2>4. ASSUME NEW p \in DOMAIN merged PROVE Surviving(merged[p], Len(blocks))
    <3>1. merged[p] \in ToSet(q)
      <4>1. p \in 1 .. Len(ordered) /\ merged[p] = ordered[p]
        BY <1>1
      <4>2. merged[p] \in ToSet(ordered)
        BY <1>1, <4>1 DEF ToSet
      <4> QED BY <2>2, <4>2
    <3>2. PICK i \in instant_times_included :
            merged[p] \in ToSet(instant_to_blocks_map[i])
      BY <1>1, <3>1
    <3>3. merged[p] \in SurvivorsOf(i, scanned)
      BY <1>1, <3>2 DEF ScanInv, Pass1Inv, Pass1Exact
    <3> QED BY <2>1, <3>3 DEF SurvivorsOf
  <2> QED BY <2>3, <2>4 DEF MergedOnlySurvivors
<1> QED BY <1>2, <1>3

LEMMA WholeQueueMerged == ScanInv => NothingLeftOut
<1> SUFFICES ASSUME ScanInv, pc = "done", ~req.skip
             PROVE  ToSet(merged) = UNION {ToSet(instant_to_blocks_map[i]) :
                                             i \in instant_times_included}
  BY DEF NothingLeftOut
<1> DEFINE q == current_instant_log_blocks
<1>1. /\ q \in Seq(Idx) /\ ordered \in Seq(Idx) /\ merged \in Seq(Idx)
      /\ Len(merged) = cursor /\ \A p \in 1 .. cursor : merged[p] = ordered[p]
      /\ ToSet(q) = UNION {ToSet(instant_to_blocks_map[i]) :
                             i \in instant_times_included}
  BY DEF ScanInv, Pass1Inv, TypeInv, TypeOK, Pass2Types, Pass3Types, MergeInv,
         QueueInv, QueueExact
<1>2. CASE ordered = Reverse(q) /\ cursor = Len(ordered)
  <2>1. ToSet(merged) = ToSet(ordered)
    BY <1>1, <1>2 DEF ToSet
  <2>2. ToSet(ordered) = ToSet(q)
    BY <1>1, <1>2, ReverseSet
  <2> QED BY <1>1, <2>1, <2>2
<1>3. CASE q = << >> /\ cursor = 0
  <2>1. ToSet(q) = {} /\ ToSet(merged) = {}
    BY <1>1, <1>3 DEF ToSet
  <2> QED BY <1>1, <2>1
<1> QED BY <1>2, <1>3 DEF ScanInv, MergeInv

LEMMA ScanInductive == Spec => []ScanInv
<1>1. Init => ScanInv
  BY Pass1Init, QueueInit, MergeInit DEF ScanInv
<1>2. ScanInv /\ [Next]_vars => ScanInv'
  BY Pass1Step, QueueStep, MergeStep DEF ScanInv, Pass1Inv
<1> QED BY <1>1, <1>2, PTL DEF Spec

(***************************************************************************)
(* reverse_scan_pass2 queues no instant twice, whatever the compaction     *)
(* headers say: no assumption on how writers compact is needed.            *)
(***************************************************************************)
THEOREM NoInstantTwice == Spec => []QueuedOnce
<1>1. ScanInv => QueuedOnce
  BY DEF ScanInv, QueueInv
<1> QED BY <1>1, ScanInductive, PTL

(***************************************************************************)
(* End to end, from the headers on storage to the record buffer: no        *)
(* rejected or rolled-back block is merged and none is merged twice.       *)
(***************************************************************************)
THEOREM OnlySurvivorsMerged == Spec => []MergedOnlySurvivors
BY ScanInductive, MergedFromQueue, PTL

(* A scan that succeeds has merged every block of every valid instant. *)
THEOREM NoBlockLeftOut == Spec => []NothingLeftOut
BY ScanInductive, WholeQueueMerged, PTL
-----------------------------------------------------------------------------
(***************************************************************************)
(* Log compaction.  While pass 2 runs and after it, when writers compact   *)
(* as CompactionsInOrder says, the instants behind togo are resolved:      *)
(*   Carried     what an instant is mapped to carries its writes;          *)
(*   Outermost   and is a compaction that none behind togo compacted;      *)
(*   Followed    a compaction has mapped all that it compacted;            *)
(*   Reached     every ordinary instant ended up in the queue;             *)
(*   Explained   and nothing is queued but on behalf of one;               *)
(*   QueueSorted the queue is ordered by the newest ordinary instant       *)
(*               behind each entry;                                        *)
(*   BlockOrder  the queued blocks are in the order of the queue, an       *)
(*               instant's own newest first.                               *)
(***************************************************************************)
First(i) == Head(instant_to_blocks_map[i])

Resolving == pc = "pass2" \/ Merging \/ ordered # << >>

Pass2Over == Merging \/ ordered # << >> => togo = 0

Carried ==
    \A x \in Instants : compactionOf[x] # NoInstant => x \in StandsFor(compactionOf[x])

Outermost ==
    \A x \in Instants : compactionOf[x] # NoInstant =>
        /\ compactionOf[x] \in Survivors \ Ordinary
        /\ compactionOf[compactionOf[x]] = NoInstant

Followed ==
    \A d \in Survivors : Passed(d) =>
        \A x \in CompactedBy(d) : compactionOf[x] = FinalInstant(d)

Reached ==
    \A i \in Ordinary : Passed(i) => FinalInstant(i) \in instant_times_included

Explained ==
    \A c \in instant_times_included :
        \E i \in Ordinary : Passed(i) /\ FinalInstant(i) = c

QueueSorted ==
    \A m, n \in DOMAIN valid_block_instants : m < n =>
        \E v \in Ordinary :
            /\ Passed(v) /\ FinalInstant(v) = valid_block_instants[m]
            /\ \A w \in Ordinary :
                 Passed(w) /\ FinalInstant(w) = valid_block_instants[n] =>
                     First(w) < First(v)

BlockOrder ==
    \A p, q \in DOMAIN current_instant_log_blocks : p < q =>
        LET a == current_instant_log_blocks[p]
            b == current_instant_log_blocks[q]
        IN  \/ blocks[a].instant = blocks[b].instant /\ b < a
            \/ \E m, n \in DOMAIN valid_block_instants :
                 /\ m < n
                 /\ valid_block_instants[m] = blocks[a].instant
                 /\ valid_block_instants[n] = blocks[b].instant

CompactionInv ==
    /\ Pass2Over
    /\ Resolving => BlockOrder
    /\ Resolving /\ CompactionsInOrder =>
         Carried /\ Outermost /\ Followed /\ Reached /\ Explained /\ QueueSorted

LEMMA CompactionInit == Init => CompactionInv
BY DEF Init, ScanReset, CompactionInv, Pass2Over, Resolving, Merging

(* Facts about the survivors of pass 1. *)
LEMMA SurvivorFacts ==
    ASSUME Pass1Inv, NEW i \in Survivors
    PROVE  /\ i \in Instants
           /\ First(i) \in Idx
           /\ CompactedBy(i) \subseteq Instants
<1>1. i \in Instants /\ instant_to_blocks_map[i] # << >>
  BY DEF Survivors
<1>2. instant_to_blocks_map[i] \in Seq(Idx)
  BY <1>1, MapRange
<1>3. First(i) \in Idx
  BY <1>1, <1>2 DEF First
<1>4. blocks[First(i)] \in LogBlock
  BY <1>3 DEF Pass1Inv, TypeInv, TypeOK, WalkTypes, Idx
<1> QED BY <1>1, <1>3, <1>4 DEF CompactedBy, First, LogBlock

(* What the properties say of the log is a matter of the map and the blocks. *)
LEMMA CompactionFrame ==
    ASSUME UNCHANGED <<instant_to_blocks_map, blocks>>
    PROVE  /\ Survivors' = Survivors /\ Ordinary' = Ordinary
           /\ \A i : CompactedBy(i)' = CompactedBy(i) /\ First(i)' = First(i)
           /\ \A i : StandsFor(i)' = StandsFor(i)
           /\ CompactionsInOrder' <=> CompactionsInOrder
<1>1. Survivors' = Survivors
  BY DEF Survivors
<1>2. \A i : CompactedBy(i)' = CompactedBy(i) /\ First(i)' = First(i)
  BY DEF CompactedBy, First
<1>3. Ordinary' = Ordinary
  BY <1>1, <1>2 DEF Ordinary
<1>4. \A i, S : ClosedFor(i, S)' <=> ClosedFor(i, S)
  BY <1>1, <1>2 DEF ClosedFor
<1>5. \A i : StandsFor(i)' = StandsFor(i)
  BY <1>4 DEF StandsFor
<1>6. CompactionsInOrder' <=> CompactionsInOrder
  BY <1>1, <1>2 DEF CompactionsInOrder
<1> QED BY <1>1, <1>2, <1>3, <1>5, <1>6

(* Steps outside pass 2. *)
LEMMA CompactionKept ==
    ASSUME CompactionInv,
           UNCHANGED <<pass2Vars, ordered_instants_list, instant_to_blocks_map, blocks>>,
           Resolving' => Resolving, Pass2Over'
    PROVE  CompactionInv'
<1>1. /\ Survivors' = Survivors /\ Ordinary' = Ordinary
      /\ \A i : CompactedBy(i)' = CompactedBy(i) /\ First(i)' = First(i)
      /\ \A i : StandsFor(i)' = StandsFor(i)
      /\ CompactionsInOrder' <=> CompactionsInOrder
  BY CompactionFrame
<1>2. /\ \A i : Passed(i)' <=> Passed(i)
      /\ \A i : FinalInstant(i)' = FinalInstant(i)
  BY DEF Passed, FinalInstant, pass2Vars
<1>3. BlockOrder => BlockOrder'
  BY DEF BlockOrder, pass2Vars
<1>4. Carried => Carried'
  BY <1>1 DEF Carried, pass2Vars
<1>5. Outermost => Outermost'
  BY <1>1 DEF Outermost, pass2Vars
<1>6. Followed => Followed'
  BY <1>1, <1>2 DEF Followed, pass2Vars
<1>7. Reached => Reached'
  BY <1>1, <1>2 DEF Reached, pass2Vars
<1>8. Explained => Explained'
  BY <1>1, <1>2 DEF Explained, pass2Vars
<1>9. QueueSorted => QueueSorted'
  BY <1>1, <1>2 DEF QueueSorted, pass2Vars
<1> QED
  BY <1>1, <1>3, <1>4, <1>5, <1>6, <1>7, <1>8, <1>9 DEF CompactionInv

(* Nothing is resolved before the sweep of pass 1 ends. *)
LEMMA CompactionSweep ==
    ASSUME Pass1Inv, QueueInv, MergeInv, ForwardScanPass1
    PROVE  CompactionInv'
<1>1. CASE KeepBlock \/ ApplyRollback \/ SkipBlock
  <2>1. pc' = "pass1" /\ ordered' = << >>
    BY <1>1 DEF KeepBlock, ApplyRollback, SkipBlock, Sweeping, MergeInv, pass3Vars
  <2> QED BY <2>1 DEF CompactionInv, Pass2Over, Resolving, Merging
<1>2. CASE Pass1Done
  <2>1. /\ compactionOf' = [i \in Instants |-> NoInstant]
        /\ instant_times_included' = {} /\ valid_block_instants' = << >>
        /\ current_instant_log_blocks' = << >>
        /\ pc' = "pass2" /\ ordered' = << >>
        /\ togo' = Len(ordered_instants_list)
        /\ ordered_instants_list' = ordered_instants_list
    BY <1>2 DEF Pass1Done, QueueInv, QueueFresh, MergeInv, pass1Vars, pass3Vars
  <2>2. \A i : ~Passed(i)'
    BY <2>1 DEF Passed, Pass1Inv, TypeInv, TypeOK, Pass1Types
  <2>3. Carried' /\ Outermost'
    BY <2>1 DEF Carried, Outermost
  <2>4. Followed' /\ Reached' /\ Explained'
    BY <2>1, <2>2 DEF Followed, Reached, Explained
  <2>5. QueueSorted' /\ BlockOrder'
    BY <2>1 DEF QueueSorted, BlockOrder
  <2> QED
    BY <2>1, <2>3, <2>4, <2>5 DEF CompactionInv, Pass2Over, Merging
<1> QED BY <1>1, <1>2 DEF ForwardScanPass1

(* The visited instant: a survivor, older than all that were passed. *)
LEMMA VisitedFacts ==
    ASSUME Pass1Inv, Visiting
    PROVE  /\ Visited \in Survivors
           /\ Originals = CompactedBy(Visited)
           /\ \A i : Passed(i) => i \in Survivors /\ First(Visited) < First(i)
           /\ ~Passed(Visited)
<1>1. /\ togo \in 1 .. Len(ordered_instants_list)
      /\ ordered_instants_list \in Seq(Instants)
  BY DEF Pass1Inv, TypeInv, TypeOK, Pass1Types, Pass2Types, Visiting
<1>2. \A m \in DOMAIN ordered_instants_list : ordered_instants_list[m] \in Survivors
  BY <1>1 DEF Pass1Inv, ListMatchesMap, ToSet, Survivors
<1>3. Visited \in Survivors
  BY <1>1, <1>2 DEF Visited
<1>4. Originals = CompactedBy(Visited)
  BY DEF Originals, CompactedBy
<1>5. ASSUME NEW i, Passed(i) PROVE i \in Survivors /\ First(Visited) < First(i)
  <2>1. PICK m \in (togo + 1) .. Len(ordered_instants_list) :
          ordered_instants_list[m] = i
    BY <1>5 DEF Passed
  <2>2. m \in DOMAIN ordered_instants_list /\ togo \in DOMAIN ordered_instants_list
        /\ togo < m
    BY <1>1
  <2> QED BY <1>2, <2>1, <2>2 DEF Pass1Inv, ListMatchesMap, First, Visited
<1>6. ~Passed(Visited)
  BY <1>1, ListInjective DEF Passed, Visited
<1> QED BY <1>3, <1>4, <1>5, <1>6

(* One step back passes the visited instant and no other. *)
LEMMA PassedNext ==
    ASSUME Pass1Inv, Visiting, togo' = togo - 1, UNCHANGED ordered_instants_list
    PROVE  \A i : Passed(i)' <=> Passed(i) \/ i = Visited
<1>1. /\ togo \in 1 .. Len(ordered_instants_list)
      /\ ordered_instants_list \in Seq(Instants)
  BY DEF Pass1Inv, TypeInv, TypeOK, Pass1Types, Pass2Types, Visiting
<1> QED BY <1>1 DEF Passed, Visited

(* A compacted instant: its originals are mapped to where it ended up. *)
LEMMA NoteResolves ==
    ASSUME Pass1Inv, QueueInv, NoteCompaction, CompactionsInOrder,
           Carried, Outermost, Followed, Reached, Explained, QueueSorted
    PROVE  (Carried /\ Outermost /\ Followed /\ Reached /\ Explained /\ QueueSorted)'
<1> DEFINE v == Visited
           f == FinalInstant(Visited)
<1>1. /\ Visiting /\ togo' = togo - 1 /\ Originals # {}
      /\ UNCHANGED <<ordered_instants_list, instant_to_blocks_map, blocks,
                     instant_times_included, valid_block_instants>>
      /\ compactionOf' = [i \in Instants |-> IF i \in Originals THEN f
                                                               ELSE compactionOf[i]]
  BY DEF NoteCompaction, pass1Vars, walkVars
<1>2. /\ v \in Survivors /\ Originals = CompactedBy(v)
      /\ \A i : Passed(i) => i \in Survivors /\ First(v) < First(i)
      /\ ~Passed(v)
  BY <1>1, VisitedFacts
<1>3. v \in Instants /\ CompactedBy(v) \subseteq Instants /\ First(v) \in Nat
  BY <1>2, SurvivorFacts DEF Idx
<1>4. compactionOf \in [Instants -> Instants \cup {NoInstant}]
      /\ NoInstant \notin Instants
  BY DEF Pass1Inv, TypeInv, TypeOK, Pass2Types, Instants, NoInstant
<1>5. /\ Survivors' = Survivors /\ Ordinary' = Ordinary
      /\ \A i : CompactedBy(i)' = CompactedBy(i) /\ First(i)' = First(i)
      /\ \A i : StandsFor(i)' = StandsFor(i)
  BY <1>1, CompactionFrame
<1>6. \A i : Passed(i)' <=> Passed(i) \/ i = v
  BY <1>1, PassedNext
<1>7. \A x : x \in CompactedBy(v) => ~Passed(x) /\ x # v
  <2> SUFFICES ASSUME NEW x \in CompactedBy(v) PROVE ~Passed(x) /\ x # v
    OBVIOUS
  <2>1. x \in Survivors => First(x) < First(v) /\ First(x) \in Nat
    BY <1>2, SurvivorFacts DEF CompactionsInOrder, First, Idx
  <2> QED BY <1>2, <1>3, <2>1
<1>8. f \in Instants /\ f \in Survivors \ Ordinary /\ compactionOf[f] = NoInstant
      /\ (Passed(f) \/ f = v)
  <2>1. CASE compactionOf[v] = NoInstant
    <3>1. f = v
      BY <2>1 DEF FinalInstant
    <3> QED BY <1>1, <1>2, <1>3, <2>1, <3>1 DEF Ordinary
  <2>2. CASE compactionOf[v] # NoInstant
    <3>1. f = compactionOf[v]
      BY <2>2 DEF FinalInstant
    <3> QED BY <1>3, <1>4, <2>2, <3>1 DEF Outermost, QueueInv, PassedOnly
  <2> QED BY <2>1, <2>2
<1>9. f \notin CompactedBy(v)
  BY <1>7, <1>8
<1>10. CompactedBy(v) \subseteq StandsFor(f)
  <2> SUFFICES ASSUME NEW x \in CompactedBy(v), NEW S \in SUBSET Instants,
                      ClosedFor(f, S)
               PROVE  x \in S
    BY <1>3 DEF StandsFor
  <2>1. CASE f = v
    BY <2>1 DEF ClosedFor
  <2>2. CASE f # v
    <3>1. v \in StandsFor(f)
      BY <1>3, <2>2 DEF Carried, FinalInstant
    <3> QED BY <1>2, <3>1 DEF StandsFor, ClosedFor
  <2> QED BY <2>1, <2>2
<1> HIDE DEF v, f
<1>11. Carried'
  BY <1>1, <1>2, <1>4, <1>5, <1>10 DEF Carried
<1>12. Outermost'
  <2> SUFFICES ASSUME NEW x \in Instants, compactionOf'[x] # NoInstant
               PROVE  /\ compactionOf'[x] \in Survivors \ Ordinary
                      /\ compactionOf'[compactionOf'[x]] = NoInstant
    BY <1>5 DEF Outermost
  <2>1. CASE x \in CompactedBy(v)
    <3>1. compactionOf'[x] = f /\ compactionOf'[f] = NoInstant
      BY <1>1, <1>2, <1>8, <1>9, <2>1
    <3> QED BY <1>8, <3>1
  <2>2. CASE x \notin CompactedBy(v)
    <3>1. compactionOf'[x] = compactionOf[x]
      BY <1>1, <1>2, <2>2
    <3>2. /\ compactionOf[x] \in Survivors \ Ordinary
          /\ compactionOf[compactionOf[x]] = NoInstant
          /\ Passed(compactionOf[x])
      BY <3>1 DEF Outermost, QueueInv, PassedOnly
    <3>3. compactionOf[x] \in Instants /\ compactionOf[x] \notin CompactedBy(v)
      BY <1>4, <1>7, <3>1, <3>2
    <3> QED BY <1>1, <1>2, <3>1, <3>2, <3>3
  <2> QED BY <2>1, <2>2
<1>13. \A d : (Passed(d) \/ d = v) => FinalInstant(d)' = FinalInstant(d)
  <2> SUFFICES ASSUME NEW d, Passed(d) \/ d = v
               PROVE  FinalInstant(d)' = FinalInstant(d)
    OBVIOUS
  <2>1. d \in Instants /\ d \notin CompactedBy(v)
    BY <1>2, <1>3, <1>7, SurvivorFacts
  <2>2. compactionOf'[d] = compactionOf[d]
    BY <1>1, <1>2, <2>1
  <2> QED BY <2>2 DEF FinalInstant
<1>14. Followed'
  <2> SUFFICES ASSUME NEW d \in Survivors, Passed(d) \/ d = v, NEW x \in CompactedBy(d)
               PROVE  compactionOf'[x] = FinalInstant(d)
    BY <1>5, <1>6, <1>13 DEF Followed
  <2>1. x \in Instants
    BY SurvivorFacts
  <2>2. CASE d = v
    BY <1>1, <1>2, <2>1, <2>2 DEF f, v
  <2>3. CASE d # v
    <3>1. x \notin CompactedBy(v)
      BY <1>2, <2>3 DEF CompactionsInOrder
    <3>2. compactionOf'[x] = compactionOf[x]
      BY <1>1, <1>2, <2>1, <3>1
    <3> QED BY <2>3, <3>2 DEF Followed
  <2> QED BY <2>2, <2>3
<1>15. v \notin Ordinary
  BY <1>1, <1>2 DEF Ordinary
<1>16. Reached'
  BY <1>1, <1>5, <1>6, <1>13, <1>15 DEF Reached
<1>17. Explained'
  BY <1>1, <1>5, <1>6, <1>13 DEF Explained
<1>18. QueueSorted'
  <2> SUFFICES ASSUME NEW m \in DOMAIN valid_block_instants,
                      NEW n \in DOMAIN valid_block_instants, m < n
               PROVE  \E u \in Ordinary :
                        /\ Passed(u)' /\ FinalInstant(u)' = valid_block_instants[m]
                        /\ \A w \in Ordinary :
                             Passed(w)' /\ FinalInstant(w)' = valid_block_instants[n] =>
                                 First(w)' < First(u)'
    BY <1>1, <1>5 DEF QueueSorted
  <2>1. PICK u \in Ordinary :
          /\ Passed(u) /\ FinalInstant(u) = valid_block_instants[m]
          /\ \A w \in Ordinary :
               Passed(w) /\ FinalInstant(w) = valid_block_instants[n] =>
                   First(w) < First(u)
    BY DEF QueueSorted
  <2>2. Passed(u)' /\ FinalInstant(u)' = valid_block_instants[m]
    BY <1>6, <1>13, <2>1
  <2>3. ASSUME NEW w \in Ordinary, Passed(w)', FinalInstant(w)' = valid_block_instants[n]
        PROVE  First(w)' < First(u)'
    <3>1. Passed(w) /\ FinalInstant(w) = valid_block_instants[n]
      BY <1>6, <1>13, <1>15, <2>3
    <3> QED BY <1>5, <2>1, <3>1
  <2> QED BY <2>2, <2>3
<1> QED BY <1>11, <1>12, <1>14, <1>16, <1>17, <1>18

(* The instants behind an ordinary instant: itself, or outermost compactions. *)
LEMMA FinalFacts ==
    ASSUME Pass1Inv, Outermost, NEW i \in Ordinary
    PROVE  /\ FinalInstant(i) \in Instants
           /\ compactionOf[FinalInstant(i)] = NoInstant
           /\ FinalInstant(i) \in Ordinary => FinalInstant(i) = i
<1>1. i \in Instants
  BY DEF Ordinary, Survivors
<1>2. compactionOf \in [Instants -> Instants \cup {NoInstant}]
  BY DEF Pass1Inv, TypeInv, TypeOK, Pass2Types
<1>3. CASE compactionOf[i] = NoInstant
  BY <1>1, <1>3 DEF FinalInstant
<1>4. CASE compactionOf[i] # NoInstant
  BY <1>1, <1>2, <1>4 DEF FinalInstant, Outermost
<1> QED BY <1>3, <1>4

(* An ordinary instant whose compaction is queued already adds nothing. *)
LEMMA SkipResolves ==
    ASSUME Pass1Inv, QueueInv, SkipIncluded,
           Carried, Outermost, Followed, Reached, Explained, QueueSorted
    PROVE  (Carried /\ Outermost /\ Followed /\ Reached /\ Explained /\ QueueSorted)'
<1> DEFINE v == Visited
<1>1. /\ Visiting /\ togo' = togo - 1 /\ Originals = {} /\ AlreadyIncluded(v)
      /\ UNCHANGED <<ordered_instants_list, instant_to_blocks_map, blocks,
                     compactionOf, instant_times_included, valid_block_instants>>
  BY DEF SkipIncluded, pass1Vars, walkVars
<1>2. /\ v \in Survivors /\ Originals = CompactedBy(v)
      /\ \A i : Passed(i) => i \in Survivors /\ First(v) < First(i)
  BY <1>1, VisitedFacts
<1>3. /\ Survivors' = Survivors /\ Ordinary' = Ordinary
      /\ \A i : CompactedBy(i)' = CompactedBy(i) /\ First(i)' = First(i)
      /\ \A i : StandsFor(i)' = StandsFor(i)
      /\ \A i : FinalInstant(i)' = FinalInstant(i)
  BY <1>1, CompactionFrame DEF FinalInstant
<1>4. \A i : Passed(i)' <=> Passed(i) \/ i = v
  BY <1>1, PassedNext
<1>5. v \in Ordinary
  BY <1>1, <1>2 DEF Ordinary
<1>6. FinalInstant(v) \in instant_times_included
  BY <1>1 DEF AlreadyIncluded, FinalInstant
<1> HIDE DEF v
<1>7. Carried' /\ Outermost'
  BY <1>1, <1>3 DEF Carried, Outermost
<1>8. CompactedBy(v) = {}
  BY <1>1, <1>2
<1>9. Followed'
  BY <1>1, <1>3, <1>4, <1>8 DEF Followed
<1>10. Reached' /\ Explained'
  BY <1>1, <1>3, <1>4, <1>6 DEF Reached, Explained
<1>11. QueueSorted'
  <2> SUFFICES ASSUME NEW m \in DOMAIN valid_block_instants,
                      NEW n \in DOMAIN valid_block_instants, m < n
               PROVE  \E u \in Ordinary :
                        /\ Passed(u)' /\ FinalInstant(u)' = valid_block_instants[m]
                        /\ \A w \in Ordinary :
                             Passed(w)' /\ FinalInstant(w)' = valid_block_instants[n] =>
                                 First(w)' < First(u)'
    BY <1>1, <1>3 DEF QueueSorted
  <2>1. PICK u \in Ordinary :
          /\ Passed(u) /\ FinalInstant(u) = valid_block_instants[m]
          /\ \A w \in Ordinary :
               Passed(w) /\ FinalInstant(w) = valid_block_instants[n] =>
                   First(w) < First(u)
    BY DEF QueueSorted
  <2>2. Passed(u)' /\ FinalInstant(u)' = valid_block_instants[m]
    BY <1>3, <1>4, <2>1
  <2>3. ASSUME NEW w \in Ordinary, Passed(w)', FinalInstant(w)' = valid_block_instants[n]
        PROVE  First(w)' < First(u)'
    BY <1>2, <1>3, <1>4, <2>1, <2>3
  <2> QED BY <2>2, <2>3
<1> QED BY <1>7, <1>9, <1>10, <1>11

(* An ordinary instant enters the queue, itself or as its compaction. *)
LEMMA EnqueueResolves ==
    ASSUME Pass1Inv, QueueInv, EnqueueInstant,
           Carried, Outermost, Followed, Reached, Explained, QueueSorted
    PROVE  (Carried /\ Outermost /\ Followed /\ Reached /\ Explained /\ QueueSorted)'
<1> DEFINE v == Visited
           f == FinalInstant(Visited)
           vs == valid_block_instants
<1>1. /\ Visiting /\ togo' = togo - 1 /\ Originals = {} /\ ~AlreadyIncluded(v)
      /\ UNCHANGED <<ordered_instants_list, instant_to_blocks_map, blocks,
                     compactionOf>>
      /\ instant_times_included' = instant_times_included \cup {f}
      /\ vs' = Append(vs, f)
  BY DEF EnqueueInstant, pass1Vars, walkVars
<1>2. /\ v \in Survivors /\ Originals = CompactedBy(v)
      /\ \A i : Passed(i) => i \in Survivors /\ First(v) < First(i)
      /\ ~Passed(v)
  BY <1>1, VisitedFacts
<1>3. /\ Survivors' = Survivors /\ Ordinary' = Ordinary
      /\ \A i : CompactedBy(i)' = CompactedBy(i) /\ First(i)' = First(i)
      /\ \A i : StandsFor(i)' = StandsFor(i)
      /\ \A i : FinalInstant(i)' = FinalInstant(i)
  BY <1>1, CompactionFrame DEF FinalInstant
<1>4. \A i : Passed(i)' <=> Passed(i) \/ i = v
  BY <1>1, PassedNext
<1>5. v \in Ordinary /\ v \in Instants
  BY <1>1, <1>2 DEF Ordinary, Survivors
<1>6. f \in Instants
  BY <1>5, FinalFacts
<1>7. vs \in Seq(Instants) /\ ToSet(vs) = instant_times_included
  BY DEF Pass1Inv, TypeInv, TypeOK, Pass2Types, QueueInv, QueuedOnce
<1>8. f \notin instant_times_included
  BY <1>1, <1>2, <1>5 DEF AlreadyIncluded, FinalInstant, QueueInv, PassedOnly
<1>9. CompactedBy(v) = {}
  BY <1>1, <1>2
<1> HIDE DEF v, f
<1>10. Carried' /\ Outermost'
  BY <1>1, <1>3 DEF Carried, Outermost
<1>11. Followed'
  BY <1>1, <1>3, <1>4, <1>9 DEF Followed
<1>12. f = FinalInstant(v)
  BY DEF f, v
<1>13. Reached' /\ Explained'
  BY <1>1, <1>3, <1>4, <1>5, <1>12 DEF Reached, Explained
<1>14. QueueSorted'
  <2> SUFFICES ASSUME NEW m \in DOMAIN vs', NEW n \in DOMAIN vs', m < n
               PROVE  \E u \in Ordinary :
                        /\ Passed(u)' /\ FinalInstant(u)' = vs'[m]
                        /\ \A w \in Ordinary :
                             Passed(w)' /\ FinalInstant(w)' = vs'[n] =>
                                 First(w)' < First(u)'
    BY <1>3 DEF QueueSorted
  <2>1. /\ Len(vs) \in Nat /\ DOMAIN vs = 1 .. Len(vs) /\ DOMAIN vs' = 1 .. Len(vs) + 1
        /\ \A k \in 1 .. Len(vs) : vs'[k] = vs[k]
        /\ vs'[Len(vs) + 1] = f
    BY <1>1, <1>6, <1>7
  <2>2. m \in DOMAIN vs /\ vs'[m] = vs[m]
    BY <2>1
  <2>3. CASE n \in DOMAIN vs
    <3>1. PICK u \in Ordinary :
            /\ Passed(u) /\ FinalInstant(u) = vs[m]
            /\ \A w \in Ordinary :
                 Passed(w) /\ FinalInstant(w) = vs[n] => First(w) < First(u)
      BY <2>2, <2>3 DEF QueueSorted
    <3>2. Passed(u)' /\ FinalInstant(u)' = vs'[m]
      BY <1>3, <1>4, <2>2, <3>1
    <3>3. vs'[n] = vs[n]
      BY <2>1, <2>3
    <3>4. ASSUME NEW w \in Ordinary, Passed(w)', FinalInstant(w)' = vs'[n]
          PROVE  First(w)' < First(u)'
      BY <1>2, <1>3, <1>4, <3>1, <3>3, <3>4
    <3> QED BY <3>2, <3>4
  <2>4. CASE n = Len(vs) + 1
    <3>1. vs[m] \in instant_times_included
      BY <1>7, <2>2 DEF ToSet
    <3>2. PICK u \in Ordinary : Passed(u) /\ FinalInstant(u) = vs[m]
      BY <3>1 DEF Explained
    <3>3. Passed(u)' /\ FinalInstant(u)' = vs'[m]
      BY <1>3, <1>4, <2>2, <3>2
    <3>4. ASSUME NEW w \in Ordinary, Passed(w)', FinalInstant(w)' = vs'[n]
          PROVE  First(w)' < First(u)'
      <4>1. w = v
        BY <1>3, <1>4, <1>8, <2>1, <2>4, <3>4 DEF Reached
      <4> QED BY <1>2, <1>3, <3>2, <4>1
    <3> QED BY <3>3, <3>4
  <2> QED BY <2>1, <2>3, <2>4
<1> QED BY <1>10, <1>11, <1>13, <1>14

(* Queueing an instant's blocks keeps the queued blocks in order. *)
LEMMA EnqueueOrders ==
    ASSUME Pass1Inv, QueueInv, EnqueueInstant, BlockOrder
    PROVE  BlockOrder'
<1> DEFINE f == FinalInstant(Visited)
           bs == instant_to_blocks_map[f]
           r == Reverse(bs)
           vs == valid_block_instants
           cs == current_instant_log_blocks
<1>1. /\ Visiting /\ UNCHANGED blocks /\ cs' = cs \o r /\ vs' = Append(vs, f)
  BY DEF EnqueueInstant, walkVars
<1>2. /\ vs \in Seq(Instants) /\ cs \in Seq(Idx)
      /\ ToSet(vs) = instant_times_included
      /\ instant_times_included \subseteq Instants
      /\ ToSet(cs) = UNION {ToSet(instant_to_blocks_map[i]) :
                              i \in instant_times_included}
      /\ compactionOf \in [Instants -> Instants \cup {NoInstant}]
  BY DEF Pass1Inv, TypeInv, TypeOK, Pass2Types, QueueInv, QueuedOnce, QueueExact
<1>3. f \in Instants
  <2>1. Visited \in Instants
    BY <1>1, VisitedFacts, SurvivorFacts
  <2> QED BY <1>2, <2>1 DEF FinalInstant
<1>4. bs \in Seq(Idx) /\ \A m \in DOMAIN bs : blocks[bs[m]].instant = f
  BY <1>3, MapRange DEF SurvivorsOf
<1>5. \A m, n \in DOMAIN bs : m < n => bs[m] < bs[n]
  BY <1>3 DEF Pass1Inv, Pass1Exact
<1>6. /\ r \in Seq(Idx) /\ Len(r) = Len(bs)
      /\ \A k \in 1 .. Len(bs) : r[k] = bs[Len(bs) - k + 1]
  BY <1>4, ReverseProps
<1>7. \A k \in 1 .. Len(r) : blocks[r[k]].instant = f
  BY <1>4, <1>6
<1>8. \A k, l \in 1 .. Len(r) : k < l => r[l] < r[k]
  BY <1>4, <1>5, <1>6
<1> HIDE DEF bs, r, f
<1>9. \A p \in DOMAIN cs : \E m \in DOMAIN vs : vs[m] = blocks[cs[p]].instant
  <2> SUFFICES ASSUME NEW p \in DOMAIN cs
               PROVE  \E m \in DOMAIN vs : vs[m] = blocks[cs[p]].instant
    OBVIOUS
  <2>1. cs[p] \in ToSet(cs)
    BY <1>2 DEF ToSet
  <2>2. PICK i \in instant_times_included : cs[p] \in ToSet(instant_to_blocks_map[i])
    BY <1>2, <2>1
  <2>3. blocks[cs[p]].instant = i
    BY <1>2, <2>2 DEF Pass1Inv, Pass1Exact, SurvivorsOf
  <2>4. i \in ToSet(vs)
    BY <1>2
  <2> QED BY <1>2, <2>3, <2>4 DEF ToSet
<1>10. /\ Len(cs) \in Nat /\ Len(r) \in Nat /\ DOMAIN cs = 1 .. Len(cs)
       /\ DOMAIN cs' = 1 .. Len(cs) + Len(r)
       /\ \A k \in 1 .. Len(cs) : cs'[k] = cs[k]
       /\ \A k \in Len(cs) + 1 .. Len(cs) + Len(r) : cs'[k] = r[k - Len(cs)]
  BY <1>1, <1>2, <1>6, ConcatAt
<1>11. /\ Len(vs) \in Nat /\ DOMAIN vs = 1 .. Len(vs) /\ DOMAIN vs' = 1 .. Len(vs) + 1
       /\ \A k \in 1 .. Len(vs) : vs'[k] = vs[k]
       /\ vs'[Len(vs) + 1] = f
  BY <1>1, <1>2, <1>3
<1> SUFFICES ASSUME NEW p \in DOMAIN cs', NEW q \in DOMAIN cs', p < q
             PROVE  \/ /\ blocks'[cs'[p]].instant = blocks'[cs'[q]].instant
                       /\ cs'[q] < cs'[p]
                    \/ \E m, n \in DOMAIN vs' :
                         /\ m < n
                         /\ vs'[m] = blocks'[cs'[p]].instant
                         /\ vs'[n] = blocks'[cs'[q]].instant
  BY DEF BlockOrder
<1>12. blocks' = blocks
  BY <1>1
<1>13. CASE q <= Len(cs)
  <2>1. p \in DOMAIN cs /\ q \in DOMAIN cs /\ cs'[p] = cs[p] /\ cs'[q] = cs[q]
    BY <1>10, <1>13
  <2>2. \/ blocks[cs[p]].instant = blocks[cs[q]].instant /\ cs[q] < cs[p]
        \/ \E m, n \in DOMAIN vs : /\ m < n
                                   /\ vs[m] = blocks[cs[p]].instant
                                   /\ vs[n] = blocks[cs[q]].instant
    BY <2>1 DEF BlockOrder
  <2>3. \A k \in DOMAIN vs : k \in DOMAIN vs' /\ vs'[k] = vs[k]
    BY <1>11
  <2> HIDE DEF vs, cs
  <2> QED BY <1>12, <2>1, <2>2, <2>3
<1>14. CASE p <= Len(cs) /\ q > Len(cs)
  <2>1. p \in DOMAIN cs /\ cs'[p] = cs[p]
    BY <1>10, <1>14
  <2>2. blocks[cs'[q]].instant = f
    <3>1. q - Len(cs) \in 1 .. Len(r) /\ cs'[q] = r[q - Len(cs)]
      BY <1>10, <1>14
    <3> QED BY <1>7, <3>1
  <2>3. PICK m \in DOMAIN vs : vs[m] = blocks[cs[p]].instant
    BY <1>9, <2>1
  <2>4. /\ m \in DOMAIN vs' /\ Len(vs) + 1 \in DOMAIN vs' /\ m < Len(vs) + 1
        /\ vs'[m] = vs[m]
    BY <1>11
  <2> QED BY <1>11, <1>12, <2>1, <2>2, <2>3, <2>4
<1>15. CASE p > Len(cs)
  <2>1. /\ p - Len(cs) \in 1 .. Len(r) /\ cs'[p] = r[p - Len(cs)]
        /\ q - Len(cs) \in 1 .. Len(r) /\ cs'[q] = r[q - Len(cs)]
        /\ p - Len(cs) < q - Len(cs)
    BY <1>10, <1>15
  <2> QED BY <1>7, <1>8, <1>12, <2>1
<1> QED BY <1>10, <1>13, <1>14, <1>15

LEMMA CompactionPass2 ==
    ASSUME Pass1Inv, QueueInv, MergeInv, CompactionInv, ReverseScanPass2
    PROVE  CompactionInv'
<1>1. /\ pc = "pass2" /\ pc' = "pass2" /\ ordered' = << >>
      /\ UNCHANGED <<instant_to_blocks_map, blocks>>
  BY DEF ReverseScanPass2, NoteCompaction, EnqueueInstant, SkipIncluded, Visiting,
         MergeInv, pass1Vars, walkVars, pass3Vars
<1>2. Resolving /\ Pass2Over'
  BY <1>1 DEF Resolving, Pass2Over, Merging
<1>3. BlockOrder'
  <2>1. BlockOrder
    BY <1>2 DEF CompactionInv
  <2>2. CASE NoteCompaction \/ SkipIncluded
    <3>1. UNCHANGED <<blocks, valid_block_instants, current_instant_log_blocks>>
      BY <1>1, <2>2 DEF NoteCompaction, SkipIncluded
    <3> QED BY <2>1, <3>1 DEF BlockOrder
  <2>3. CASE EnqueueInstant
    BY <2>1, <2>3, EnqueueOrders
  <2> QED BY <2>2, <2>3 DEF ReverseScanPass2
<1>4. ASSUME CompactionsInOrder'
      PROVE  (Carried /\ Outermost /\ Followed /\ Reached /\ Explained /\ QueueSorted)'
  <2>1. CompactionsInOrder
    BY <1>1, <1>4, CompactionFrame
  <2>2. Carried /\ Outermost /\ Followed /\ Reached /\ Explained /\ QueueSorted
    BY <1>2, <2>1 DEF CompactionInv
  <2> QED
    BY <2>1, <2>2, NoteResolves, EnqueueResolves, SkipResolves DEF ReverseScanPass2
<1> QED BY <1>2, <1>3, <1>4 DEF CompactionInv

LEMMA CompactionStep == ScanInv /\ CompactionInv /\ [Next]_vars => CompactionInv'
<1> SUFFICES ASSUME Pass1Inv, QueueInv, MergeInv, CompactionInv, [Next]_vars
             PROVE  CompactionInv'
  BY DEF ScanInv
<1>1. CASE Walk
  <2>1. pc' \in {"walk", "pass1"} /\ ordered' = << >>
    BY <1>1
       DEF Walk, OpenLogFile, ReadBlockHeader, WalkDone, MergeInv, pass3Vars
  <2> QED BY <2>1 DEF CompactionInv, Pass2Over, Resolving, Merging
<1>2. CASE FetchAndMergeWindows
  <2>1. /\ UNCHANGED <<pass2Vars, ordered_instants_list, instant_to_blocks_map,
                       blocks>>
        /\ Resolving /\ togo = 0
    <3>1. UNCHANGED <<pass2Vars, ordered_instants_list, instant_to_blocks_map,
                      blocks>>
      BY <1>2
         DEF FetchAndMergeWindows, FinishWithoutMerging, StartPass3, PlanResident,
             PlanJoin, PlanCut, PlanDone, FetchWindow, MergeBlock, WindowDone,
             MergeDone, pass1Vars, walkVars
    <3>2. (pc = "pass2" /\ togo = 0) \/ Merging
      BY <1>2
         DEF FetchAndMergeWindows, FinishWithoutMerging, StartPass3, PlanResident,
             PlanJoin, PlanCut, PlanDone, Planning, FetchWindow, MergeBlock,
             WindowDone, MergeDone, Merging
    <3> QED BY <3>1, <3>2 DEF Resolving, CompactionInv, Pass2Over
  <2>2. togo' = 0
    BY <2>1 DEF pass2Vars
  <2> QED BY <2>1, <2>2, CompactionKept DEF Pass2Over
<1>3. CASE ScanFails
  <2>1. /\ UNCHANGED <<pass2Vars, ordered_instants_list, instant_to_blocks_map,
                       blocks, ordered>>
        /\ pc' = "failed"
    BY <1>3 DEF ScanFails, pass1Vars, walkVars, pass3Vars
  <2>2. Resolving' => Resolving
    BY <2>1 DEF Resolving, Merging
  <2>3. Pass2Over'
    BY <2>1 DEF CompactionInv, Pass2Over, Merging, pass2Vars
  <2> QED BY <2>1, <2>2, <2>3, CompactionKept
<1>4. CASE UNCHANGED vars
  <2>1. UNCHANGED <<pass2Vars, ordered_instants_list, instant_to_blocks_map,
                    blocks, ordered, pc>>
    BY <1>4 DEF vars, pass1Vars, walkVars, pass3Vars
  <2>2. (Resolving' => Resolving) /\ Pass2Over'
    BY <2>1 DEF Resolving, Merging, CompactionInv, Pass2Over, pass2Vars
  <2> QED BY <2>1, <2>2, CompactionKept
<1> QED
  BY <1>1, <1>2, <1>3, <1>4, CompactionSweep, CompactionPass2
     DEF Next, ScanStep, Returned

LEMMA CompactionInductive == Spec => [](ScanInv /\ CompactionInv)
<1>1. Init => CompactionInv
  BY CompactionInit
<1> QED BY <1>1, ScanInductive, CompactionStep, PTL DEF Spec

(* Once pass 2 is over every survivor has been visited. *)
LEMMA AllPassed ==
    ASSUME Pass1Inv, togo = 0, NEW i \in Survivors
    PROVE  Passed(i)
<1>1. i \in ToSet(ordered_instants_list)
  BY DEF Survivors, Pass1Inv, ListMatchesMap
<1>2. ordered_instants_list \in Seq(Instants)
  BY DEF Pass1Inv, TypeInv, TypeOK, Pass1Types
<1> QED BY <1>1, <1>2 DEF ToSet, Passed

(* What a queued instant stands for is what was mapped to it. *)
LEMMA StandsForMapped ==
    ASSUME Pass1Inv, togo = 0, Outermost, Followed, Carried,
           NEW c \in Survivors, compactionOf[c] = NoInstant
    PROVE  StandsFor(c) = {x \in Instants : compactionOf[x] = c}
<1> DEFINE M == {x \in Instants : compactionOf[x] = c}
<1>1. c # NoInstant
  BY SurvivorFacts DEF Instants, NoInstant
<1>2. CompactedBy(c) \subseteq M
  BY AllPassed, SurvivorFacts DEF Followed, FinalInstant
<1>3. \A x \in M \cap Survivors : CompactedBy(x) \subseteq M
  BY <1>1, AllPassed, SurvivorFacts DEF Followed, FinalInstant
<1>4. StandsFor(c) \subseteq M
  BY <1>2, <1>3 DEF StandsFor, ClosedFor
<1>5. M \subseteq StandsFor(c)
  BY <1>1 DEF Carried
<1> QED BY <1>4, <1>5

(* A queued instant is an outermost survivor. *)
LEMMA QueuedOutermost ==
    ASSUME Pass1Inv, Outermost, Explained, NEW c \in instant_times_included
    PROVE  c \in Survivors /\ compactionOf[c] = NoInstant
<1>1. PICK i \in Ordinary : FinalInstant(i) = c
  BY DEF Explained
<1>2. compactionOf[c] = NoInstant
  BY <1>1, FinalFacts
<1> QED BY <1>1, <1>2 DEF FinalInstant, Outermost, Ordinary, Survivors

LEMMA ResolvedOnce == ScanInv /\ CompactionInv => RepresentedOnce
<1> SUFFICES ASSUME ScanInv, CompactionInv, Merging, CompactionsInOrder,
                    NEW i \in Ordinary
             PROVE  Cardinality({c \in instant_times_included :
                                   c = i \/ i \in StandsFor(c)}) = 1
  BY DEF RepresentedOnce
<1>1. /\ Pass1Inv /\ togo = 0
      /\ Carried /\ Outermost /\ Followed /\ Reached /\ Explained
  BY DEF ScanInv, CompactionInv, Resolving, Pass2Over
<1>2. i \in Survivors /\ i \in Instants
  BY DEF Ordinary, Survivors
<1>3. Passed(i)
  BY <1>1, <1>2, AllPassed
<1>4. FinalInstant(i) \in instant_times_included
  BY <1>1, <1>3 DEF Reached
<1>5. ASSUME NEW c \in instant_times_included
      PROVE  (c = i \/ i \in StandsFor(c)) <=> c = FinalInstant(i)
  <2>1. c \in Survivors /\ compactionOf[c] = NoInstant
    BY <1>1, QueuedOutermost
  <2>2. StandsFor(c) = {x \in Instants : compactionOf[x] = c}
    BY <1>1, <2>1, StandsForMapped
  <2>3. c # NoInstant
    BY <1>1, <2>1, SurvivorFacts DEF Instants, NoInstant
  <2> QED BY <1>2, <2>1, <2>2, <2>3 DEF FinalInstant
<1>6. {c \in instant_times_included : c = i \/ i \in StandsFor(c)} = {FinalInstant(i)}
  BY <1>4, <1>5
<1> QED BY <1>6, FS_Singleton

(***************************************************************************)
(* However compactions nest, for every log whose compactions are in order: *)
(* reverse_scan_pass2 neither loses nor repeats the writes of a surviving  *)
(* instant.                                                                *)
(***************************************************************************)
THEOREM WritesOnce == Spec => []RepresentedOnce
BY CompactionInductive, ResolvedOnce, PTL

(***************************************************************************)
(* Rank is the place of the newest ordinary instant that ended up in a     *)
(* queued instant.                                                         *)
(***************************************************************************)
LEMMA RankProps ==
    ASSUME Pass1Inv, togo = 0, Carried, Outermost, Followed, Explained,
           NEW c \in instant_times_included
    PROVE  /\ \E w \in Ordinary : FinalInstant(w) = c /\ Rank(c) = First(w)
           /\ \A w \in Ordinary : FinalInstant(w) = c => First(w) <= Rank(c)
<1>1. c \in Survivors /\ compactionOf[c] = NoInstant
  BY QueuedOutermost
<1>2. \A w \in Ordinary : w \in Instants /\ First(w) \in Nat /\ First(w) \in Idx
  BY SurvivorFacts DEF Ordinary, Idx
<1>3. CASE c \in Ordinary
  <2>1. Rank(c) = First(c) /\ FinalInstant(c) = c
    BY <1>1, <1>3 DEF Rank, First, FinalInstant
  <2>2. \A w \in Ordinary : FinalInstant(w) = c => w = c
    BY <1>3, FinalFacts
  <2> QED BY <1>2, <1>3, <2>1, <2>2
<1>4. CASE c \notin Ordinary
  <2> DEFINE R == {First(o) : o \in StandsFor(c) \cap Ordinary}
  <2>1. Rank(c) = Max(R)
    BY <1>4 DEF Rank, First
  <2>2. StandsFor(c) = {x \in Instants : compactionOf[x] = c}
    BY <1>1, StandsForMapped
  <2>3. c # NoInstant
    BY <1>1, SurvivorFacts DEF Instants, NoInstant
  <2>4. \A w \in Ordinary : w \in StandsFor(c) <=> FinalInstant(w) = c
    BY <1>2, <1>4, <2>2, <2>3 DEF FinalInstant
  <2>5. R # {}
    BY <2>4 DEF Explained
  <2>6. R \in SUBSET (1 .. Len(blocks)) /\ Len(blocks) \in Nat
    BY <1>2 DEF Idx, Pass1Inv, TypeInv, TypeOK, WalkTypes
  <2>7. Max(R) \in R /\ \A y \in R : y <= Max(R)
    BY <2>5, <2>6, MaxProps
  <2> QED BY <2>1, <2>4, <2>7
<1> QED BY <1>3, <1>4

(* The ranks of the queue descend. *)
LEMMA RanksDescend ==
    ASSUME Pass1Inv, QueueInv, togo = 0,
           Carried, Outermost, Followed, Explained, QueueSorted,
           NEW m \in DOMAIN valid_block_instants,
           NEW n \in DOMAIN valid_block_instants, m < n
    PROVE  /\ valid_block_instants[m] \in instant_times_included
           /\ valid_block_instants[n] \in instant_times_included
           /\ Rank(valid_block_instants[n]) < Rank(valid_block_instants[m])
           /\ valid_block_instants[m] # valid_block_instants[n]
<1>1. /\ valid_block_instants \in Seq(Instants)
      /\ ToSet(valid_block_instants) = instant_times_included
      /\ IsInjective(valid_block_instants)
  BY DEF Pass1Inv, TypeInv, TypeOK, Pass2Types, QueueInv, QueuedOnce
<1>2. PICK c : c = valid_block_instants[m]
  OBVIOUS
<1>3. PICK d : d = valid_block_instants[n]
  OBVIOUS
<1>4. c \in instant_times_included /\ d \in instant_times_included
  BY <1>1, <1>2, <1>3 DEF ToSet
<1>5. c # d
  BY <1>1, <1>2, <1>3 DEF IsInjective
<1>6. PICK v \in Ordinary :
        /\ FinalInstant(v) = c
        /\ \A w \in Ordinary : Passed(w) /\ FinalInstant(w) = d => First(w) < First(v)
  BY <1>2, <1>3 DEF QueueSorted
<1>7. PICK w \in Ordinary : FinalInstant(w) = d /\ Rank(d) = First(w)
  BY <1>4, RankProps
<1>8. Passed(w)
  BY AllPassed DEF Ordinary
<1>9. First(v) <= Rank(c)
  BY <1>4, <1>6, RankProps
<1>10. PICK u \in Ordinary : Rank(c) = First(u)
  BY <1>4, RankProps
<1>11. First(v) \in Nat /\ First(w) \in Nat /\ First(u) \in Nat
  BY SurvivorFacts DEF Ordinary, Idx
<1>12. Rank(d) < Rank(c)
  BY <1>6, <1>7, <1>8, <1>9, <1>10, <1>11
<1> QED BY <1>2, <1>3, <1>4, <1>5, <1>12

LEMMA MergedInOrder == ScanInv /\ CompactionInv => OldestFirst
<1> SUFFICES ASSUME ScanInv, CompactionInv, merged # << >>, CompactionsInOrder,
                    NEW m \in DOMAIN merged, NEW n \in DOMAIN merged, m < n
             PROVE  LET rank == [i \in instant_times_included |-> Rank(i)]
                        i == blocks[merged[m]].instant
                        j == blocks[merged[n]].instant
                    IN  \/ i # j /\ rank[i] < rank[j]
                        \/ i = j /\ merged[m] < merged[n]
  BY DEF OldestFirst
<1> DEFINE cs == current_instant_log_blocks
           vs == valid_block_instants
<1>1. Pass1Inv /\ QueueInv /\ MergeInv
  BY DEF ScanInv
<1>2. /\ cs \in Seq(Idx) /\ ordered \in Seq(Idx) /\ merged \in Seq(Idx)
      /\ cursor \in 0 .. Len(ordered) /\ Len(merged) = cursor
      /\ \A p \in 1 .. cursor : merged[p] = ordered[p]
  BY <1>1 DEF Pass1Inv, TypeInv, TypeOK, Pass2Types, Pass3Types, MergeInv
<1>3. ordered # << >> /\ ordered = Reverse(cs)
  BY <1>1, <1>2 DEF MergeInv
<1>4. /\ togo = 0 /\ BlockOrder
      /\ Carried /\ Outermost /\ Followed /\ Explained /\ QueueSorted
  BY <1>3 DEF CompactionInv, Resolving, Pass2Over
<1>5. /\ Len(ordered) = Len(cs)
      /\ \A k \in 1 .. Len(cs) : ordered[k] = cs[Len(cs) - k + 1]
  BY <1>2, <1>3, ReverseProps
<1>6. PICK p : p = Len(cs) - n + 1
  OBVIOUS
<1>7. PICK q : q = Len(cs) - m + 1
  OBVIOUS
<1>8. p \in DOMAIN cs /\ q \in DOMAIN cs /\ p < q
  BY <1>2, <1>5, <1>6, <1>7
<1>9. merged[m] = cs[q] /\ merged[n] = cs[p]
  <2>1. merged[m] = ordered[m] /\ merged[n] = ordered[n]
    BY <1>2
  <2>2. m \in 1 .. Len(cs) /\ n \in 1 .. Len(cs)
    BY <1>2, <1>5
  <2> QED BY <1>5, <1>6, <1>7, <2>1, <2>2
<1>10. PICK i : i = blocks[merged[m]].instant
  OBVIOUS
<1>11. PICK j : j = blocks[merged[n]].instant
  OBVIOUS
<1>12. \/ j = i /\ merged[m] < merged[n]
       \/ \E k, l \in DOMAIN vs : k < l /\ vs[k] = j /\ vs[l] = i
  BY <1>4, <1>8, <1>9, <1>10, <1>11 DEF BlockOrder
<1>13. ASSUME NEW k \in DOMAIN vs, NEW l \in DOMAIN vs, k < l, vs[k] = j, vs[l] = i
       PROVE  /\ i \in instant_times_included /\ j \in instant_times_included
              /\ i # j /\ Rank(i) < Rank(j)
  BY <1>1, <1>4, <1>13, RanksDescend
<1> QED BY <1>10, <1>11, <1>12, <1>13

(***************************************************************************)
(* Invariant 4 of reverse_scan_pass2, from the headers on storage to the   *)
(* record buffer: for every log whose compactions are in order, records    *)
(* arrive oldest first, whatever was resident and however windows are cut. *)
(***************************************************************************)
THEOREM MergeOrder == Spec => []OldestFirst
BY CompactionInductive, MergedInOrder, PTL

-----------------------------------------------------------------------------
(***************************************************************************)
(* How much of a file slice's log the scan holds at once, for every number *)
(* and size of blocks and every budget, and that what it holds is enough.  *)
(***************************************************************************)
(* The bytes of every block, as a function, and the blocks of a window. *)
Lens == [k \in Idx |-> blocks[k].len]
Content(w) == {ordered[p] : p \in ToSet(w)}

(* Every resident byte was taken from the shared budget. *)
WalkPaid == SumOver(Lens, resident) + residentBudget = Budget

(* The windows are stretches of the plan, one after the other. *)
WindowsSorted ==
    /\ \A v \in DOMAIN windows : \A m, n \in DOMAIN windows[v] :
         m < n => windows[v][m] < windows[v][n]
    /\ \A v, w \in DOMAIN windows : v < w =>
         \A m \in DOMAIN windows[v], n \in DOMAIN windows[w] :
           windows[v][m] < windows[w][n]
    /\ \A v \in DOMAIN windows : \A n \in DOMAIN windows[v] :
         windows[v][n] <= planned /\ (pc = "fetch" => cursor < windows[v][n])

(* Each fits the budget or is a single block; current_bytes is the last's. *)
WindowsPaid ==
    /\ \A v \in DOMAIN windows :
         Len(windows[v]) = 1 \/ SumOver(Lens, Content(windows[v])) <= Budget
    /\ pc = "plan" /\ windows # << >> =>
         SumOver(Lens, Content(Last(windows))) = current_bytes

(* What is planned is resident or in a window that is still to come. *)
Covered(p) ==
    ordered[p] \in resident \/ \E v \in DOMAIN windows : p \in ToSet(windows[v])

PlanCovers ==
    /\ pc = "plan" =>
         /\ cursor = 0 /\ fetched = {}
         /\ \A p \in 1 .. planned : Covered(p)
    /\ pc \in {"fetch", "merge"} =>
         \A p \in (cursor + 1) .. Len(ordered) : Covered(p)
    /\ pc = "fetch" => fetched = {}
    /\ pc = "merge" =>
         /\ cursor <= Through
         /\ fetched \subseteq Content(Head(windows))
         /\ \A p \in ToSet(Head(windows)) : cursor < p => ordered[p] \in fetched

FetchPaid == SumOver(Lens, fetched) <= Budget \/ Cardinality(fetched) = 1

ResidencyInv ==
    WalkPaid /\ WindowsSorted /\ WindowsPaid /\ PlanCovers /\ FetchPaid

-----------------------------------------------------------------------------
(* Facts the steps share. *)

(* Lengths are naturals, and there are finitely many blocks. *)
LEMMA LensOf ==
    ASSUME NEW bs \in Seq(LogBlock)
    PROVE  /\ [k \in 1 .. Len(bs) |-> bs[k].len] \in [1 .. Len(bs) -> Nat]
           /\ IsFiniteSet(1 .. Len(bs)) /\ Len(bs) \in Nat
           /\ SumOver([k \in 1 .. Len(bs) |-> bs[k].len], {}) = 0
<1> DEFINE f == [k \in 1 .. Len(bs) |-> bs[k].len]
           D == 1 .. Len(bs)
<1>1. Len(bs) \in Nat /\ \A k \in D : bs[k] \in LogBlock
  OBVIOUS
<1>2. IsFiniteSet(D)
  BY <1>1, FS_Interval
<1>3. f \in [D -> Nat]
  BY <1>1 DEF LogBlock
<1> HIDE DEF f, D
<1>4. SumOver(f, {}) = 0
  BY <1>2, <1>3, SumProps
<1> QED BY <1>1, <1>2, <1>3, <1>4 DEF f, D

(* So for the blocks the walk has read. *)
LEMMA LensType ==
    ASSUME TypeOK
    PROVE  /\ Lens \in [Idx -> Nat] /\ IsFiniteSet(Idx) /\ Len(blocks) \in Nat
           /\ \A k \in Idx : Lens[k] = blocks[k].len
           /\ SumOver(Lens, {}) = 0
BY LensOf DEF Lens, Idx, TypeOK, WalkTypes

(* The order of the merge names no block twice. *)
LEMMA OrderedOnce ==
    ASSUME ScanInv, pc \in {"plan", "fetch", "merge"}
    PROVE  IsInjective(ordered) /\ ordered \in Seq(Idx)
<1>1. /\ current_instant_log_blocks \in Seq(Idx)
      /\ IsInjective(current_instant_log_blocks)
      /\ ordered = Reverse(current_instant_log_blocks)
      /\ ordered \in Seq(Idx)
  BY DEF ScanInv, Pass1Inv, TypeInv, TypeOK, Pass2Types, Pass3Types, MergeInv,
         QueueInv, QueueExact
<1> QED BY <1>1, ReverseSet

(* A window is a sequence of positions of the order. *)
LEMMA WindowType ==
    ASSUME TypeOK, NEW v \in DOMAIN windows
    PROVE  /\ windows[v] \in Seq(DOMAIN ordered) /\ windows[v] # << >>
           /\ Len(windows[v]) \in Nat \ {0}
           /\ \A n \in DOMAIN windows[v] : windows[v][n] \in DOMAIN ordered
           /\ Content(windows[v]) \in SUBSET Idx
<1>1. /\ windows \in Seq(Seq(DOMAIN ordered)) /\ windows[v] # << >>
      /\ ordered \in Seq(Idx)
  BY DEF TypeOK, Pass3Types
<1>2. windows[v] \in Seq(DOMAIN ordered)
  BY <1>1
<1>3. /\ Len(windows[v]) \in Nat \ {0}
      /\ \A n \in DOMAIN windows[v] : windows[v][n] \in DOMAIN ordered
  BY <1>1, <1>2
<1>4. Content(windows[v]) \in SUBSET Idx
  BY <1>1, <1>3 DEF Content, ToSet
<1> QED BY <1>1, <1>2, <1>3, <1>4

(* A step that leaves the bytes of the walk alone. *)
LEMMA WalkPaidKept ==
    ASSUME WalkPaid, UNCHANGED <<blocks, resident, residentBudget>>
    PROVE  WalkPaid' /\ Lens' = Lens /\ Idx' = Idx
BY DEF WalkPaid, Lens, Idx

-----------------------------------------------------------------------------
(* Before the merge is planned there are no windows. *)

(* It holds at first. *)
LEMMA ResidencyInit == Init => ResidencyInv
<1> SUFFICES ASSUME Init PROVE ResidencyInv
  OBVIOUS
<1>1. /\ pc = "walk" /\ resident = {} /\ residentBudget = Budget
      /\ windows = << >> /\ fetched = {}
  BY DEF Init, ScanReset
<1>2. SumOver(Lens, {}) = 0 /\ Budget \in Nat
  BY TypeInit, LensType, ScanAssumption DEF TypeInv
<1>3. WalkPaid /\ FetchPaid
  BY <1>1, <1>2 DEF WalkPaid, FetchPaid
<1>4. WindowsSorted /\ WindowsPaid /\ PlanCovers
  BY <1>1 DEF WindowsSorted, WindowsPaid, PlanCovers
<1> QED BY <1>3, <1>4 DEF ResidencyInv

(* As long as nothing is planned only the walk has bytes. *)
LEMMA NothingPlanned ==
    ASSUME TypeInv', WalkPaid', pc' \in {"walk", "pass1", "pass2"}
    PROVE  ResidencyInv'
<1>1. windows' = << >> /\ fetched' = {} /\ TypeOK'
  BY DEF TypeInv, Phases
<1>2. SumOver(Lens, {})' = 0 /\ Budget \in Nat
  BY <1>1, LensOf, ScanAssumption DEF Lens, Idx, TypeOK, WalkTypes
<1>3. FetchPaid'
  BY <1>1, <1>2 DEF FetchPaid
<1>4. WindowsSorted' /\ WindowsPaid' /\ PlanCovers'
  BY <1>1 DEF WindowsSorted, WindowsPaid, PlanCovers
<1> QED BY <1>3, <1>4 DEF ResidencyInv

(* A header that is kept is paid for. *)
LEMMA ReadPaid ==
    ASSUME TypeInv, TypeInv', WalkPaid, NEW keep \in BOOLEAN,
           ReadBlockHeader(keep)
    PROVE  WalkPaid'
<1> DEFINE b == files[file][at + 1]
           n == Len(blocks) + 1
<1>1. /\ keep => b.len <= residentBudget
      /\ blocks' = Append(blocks, b)
      /\ resident' = IF keep THEN resident \cup {n} ELSE resident
      /\ residentBudget' = IF keep THEN residentBudget - b.len
                                     ELSE residentBudget
  BY DEF ReadBlockHeader, Affordable
<1>2. TypeOK /\ TypeOK'
  BY DEF TypeInv
<1> HIDE DEF b
<1>3. /\ Lens \in [Idx -> Nat] /\ IsFiniteSet(Idx) /\ Len(blocks) \in Nat
      /\ \A k \in Idx : Lens[k] = blocks[k].len
  BY <1>2, LensType
<1>4. /\ Lens' \in [Idx' -> Nat] /\ IsFiniteSet(Idx')
      /\ \A k \in Idx' : Lens'[k] = blocks'[k].len
  BY <1>2, LensOf DEF Lens, Idx, TypeOK, WalkTypes
<1>5. /\ Idx' = Idx \cup {n} /\ n \notin Idx
      /\ \A k \in Idx : blocks'[k] = blocks[k]
      /\ blocks'[n] = b
  <2>1. blocks \in Seq(LogBlock)
    BY <1>2 DEF TypeOK, WalkTypes
  <2>2. Len(blocks') = n
    BY <1>1, <2>1
  <2> QED BY <1>1, <1>3, <2>1, <2>2 DEF Idx
<1>6. resident \in SUBSET Idx /\ residentBudget \in Nat /\ Budget \in Nat
  BY <1>2, ScanAssumption DEF TypeOK, WalkTypes
<1> HIDE DEF n
<1>7. \A k \in resident : Lens[k] = Lens'[k]
  BY <1>3, <1>4, <1>5, <1>6
<1> DEFINE l == Lens
           m == Lens'
           D == Idx
           E == Idx'
<1>8. SumOver(l, resident) = SumOver(m, resident)
  <2>1. resident \in SUBSET D /\ resident \in SUBSET E
    BY <1>5, <1>6
  <2> HIDE DEF l, m, D, E
  <2> QED BY <1>3, <1>4, <1>7, <2>1, SumCong DEF l, m, D, E
<1>9. SumOver(l, resident) + residentBudget = Budget
  BY DEF WalkPaid
<1>10. SumOver(l, resident) \in Nat
  <2> HIDE DEF l, D
  <2> QED BY <1>3, <1>6, SumProps DEF l, D
<1>11. CASE ~keep
  BY <1>1, <1>8, <1>9, <1>11 DEF WalkPaid
<1>12. CASE keep
  <2>1. n \in E \ resident /\ resident \in SUBSET E
    BY <1>5, <1>6
  <2>2. m[n] = b.len
    BY <1>4, <1>5
  <2>3. SumOver(m, resident \cup {n}) = m[n] + SumOver(m, resident)
    <3> HIDE DEF m, E
    <3> QED BY <1>4, <2>1, SumInsert DEF m, E
  <2>4. b.len \in Nat
    BY <1>4, <2>1, <2>2
  <2>5. SumOver(m, resident') = b.len + SumOver(l, resident)
    BY <1>1, <1>8, <1>12, <2>2, <2>3
  <2>6. residentBudget' = residentBudget - b.len
    BY <1>1, <1>12
  <2> HIDE DEF l, m, D, E
  <2>7. SumOver(m, resident') + residentBudget' = Budget
    BY <1>6, <1>9, <1>10, <2>4, <2>5, <2>6
  <2> QED BY <2>7 DEF WalkPaid, m
<1> QED BY <1>11, <1>12

-----------------------------------------------------------------------------
(* Planning the windows. *)

(* An end of the scan changes nothing that is held. *)
LEMMA EndsPaid ==
    ASSUME ResidencyInv, pc' \in {"done", "failed"},
           UNCHANGED <<walkVars, pass3Vars>>
    PROVE  ResidencyInv'
<1>1. UNCHANGED <<blocks, resident, residentBudget, ordered, windows, planned,
                  current_bytes, fetched, cursor>>
  BY DEF walkVars, pass3Vars
<1>2. WalkPaid' /\ Lens' = Lens
  BY <1>1, WalkPaidKept DEF ResidencyInv
<1>3. WindowsSorted'
  BY <1>1 DEF ResidencyInv, WindowsSorted
<1>4. WindowsPaid'
  BY <1>1, <1>2 DEF ResidencyInv, WindowsPaid, Content
<1>5. PlanCovers' /\ FetchPaid'
  BY <1>1, <1>2 DEF ResidencyInv, PlanCovers, FetchPaid
<1> QED BY <1>2, <1>3, <1>4, <1>5 DEF ResidencyInv

(* The order is set before anything is planned. *)
LEMMA StartPaid ==
    ASSUME TypeInv, ResidencyInv, StartPass3
    PROVE  ResidencyInv'
<1>1. /\ pc' = "plan" /\ windows' = << >> /\ planned' = 0 /\ cursor' = 0
      /\ fetched' = {} /\ fetched = {}
      /\ UNCHANGED <<blocks, resident, residentBudget>>
  BY DEF StartPass3, TypeInv, Phases, walkVars
<1>2. WalkPaid' /\ Lens' = Lens
  BY <1>1, WalkPaidKept DEF ResidencyInv
<1>3. WindowsSorted' /\ WindowsPaid' /\ PlanCovers'
  BY <1>1 DEF WindowsSorted, WindowsPaid, PlanCovers
<1>4. FetchPaid'
  BY <1>1, <1>2 DEF ResidencyInv, FetchPaid
<1> QED BY <1>2, <1>3, <1>4 DEF ResidencyInv

(* A resident block needs no window. *)
LEMMA PlanResidentPaid ==
    ASSUME TypeInv, ResidencyInv, PlanResident
    PROVE  ResidencyInv'
<1>1. /\ pc = "plan" /\ pc' = "plan" /\ ordered[planned + 1] \in resident
      /\ planned' = planned + 1
      /\ UNCHANGED <<blocks, resident, residentBudget, ordered, windows,
                     current_bytes, fetched, cursor>>
  BY DEF PlanResident, Planning, Planned, NothingToFetch, walkVars
<1>2. WalkPaid' /\ Lens' = Lens
  BY <1>1, WalkPaidKept DEF ResidencyInv
<1>3. planned \in Nat /\ TypeOK
  BY DEF TypeInv, TypeOK, Pass3Types
<1>4. WindowsSorted'
  <2>1. \A v \in DOMAIN windows : \A n \in DOMAIN windows[v] :
          windows[v][n] <= planned'
    <3> SUFFICES ASSUME NEW v \in DOMAIN windows, NEW n \in DOMAIN windows[v]
                 PROVE  windows[v][n] <= planned'
      OBVIOUS
    <3>1. windows[v][n] \in DOMAIN ordered /\ ordered \in Seq(Idx)
      BY <1>3, WindowType DEF TypeOK, Pass3Types
    <3>2. windows[v][n] <= planned
      BY DEF ResidencyInv, WindowsSorted
    <3>3. windows[v][n] \in Nat
      BY <3>1
    <3> QED BY <1>1, <1>3, <3>2, <3>3
  <2> QED BY <1>1, <2>1 DEF ResidencyInv, WindowsSorted
<1>5. WindowsPaid'
  BY <1>1, <1>2 DEF ResidencyInv, WindowsPaid, Content
<1>6. PlanCovers'
  <2>1. \A p : Covered(p)' <=> Covered(p)
    BY <1>1 DEF Covered
  <2>2. Covered(planned + 1)
    BY <1>1 DEF Covered
  <2>3. \A p \in 1 .. planned' : p \in 1 .. planned \/ p = planned + 1
    BY <1>1, <1>3
  <2> QED BY <1>1, <2>1, <2>2, <2>3 DEF ResidencyInv, PlanCovers
<1>7. FetchPaid'
  BY <1>1, <1>2 DEF ResidencyInv, FetchPaid
<1> QED BY <1>2, <1>4, <1>5, <1>6, <1>7 DEF ResidencyInv

(* A block that is planned is of no window yet. *)
LEMMA PlannedNew ==
    ASSUME ScanInv, ResidencyInv, pc = "plan", planned < Len(ordered),
           NEW v \in DOMAIN windows
    PROVE  Planned \in Idx \ Content(windows[v])
<1>1. IsInjective(ordered) /\ ordered \in Seq(Idx)
  BY OrderedOnce
<1>2. TypeOK /\ planned \in Nat
  BY DEF ScanInv, Pass1Inv, TypeInv, TypeOK, Pass3Types
<1>3. planned + 1 \in DOMAIN ordered /\ Planned = ordered[planned + 1]
  BY <1>1, <1>2 DEF Planned
<1>4. Planned \in Idx
  BY <1>1, <1>3
<1>5. ASSUME Planned \in Content(windows[v]) PROVE FALSE
  <2>1. PICK n \in DOMAIN windows[v] : Planned = ordered[windows[v][n]]
    BY <1>5 DEF Content, ToSet
  <2>2. windows[v][n] \in DOMAIN ordered
    BY <1>2, WindowType
  <2>3. windows[v][n] = planned + 1
    BY <1>1, <1>3, <2>1, <2>2 DEF IsInjective
  <2>4. windows[v][n] <= planned
    BY DEF ResidencyInv, WindowsSorted
  <2> QED BY <1>2, <2>3, <2>4
<1> QED BY <1>4, <1>5

(* A block that joins the last window fits it. *)
LEMMA PlanJoinPaid ==
    ASSUME ScanInv, TypeInv', ResidencyInv, PlanJoin
    PROVE  ResidencyInv'
<1> DEFINE L == Len(windows)
           w == windows[L]
           x == planned + 1
<1>1. /\ pc = "plan" /\ pc' = "plan" /\ planned < Len(ordered)
      /\ windows # << >> /\ current_bytes + blocks[Planned].len <= Budget
      /\ windows' = [windows EXCEPT ![L] = Append(w, x)]
      /\ current_bytes' = current_bytes + blocks[Planned].len
      /\ planned' = x
      /\ UNCHANGED <<blocks, resident, residentBudget, ordered, fetched, cursor>>
  BY DEF PlanJoin, Planning, Joins, walkVars
<1>2. WalkPaid' /\ Lens' = Lens /\ Idx' = Idx
  BY <1>1, WalkPaidKept DEF ResidencyInv
<1>3. /\ TypeOK /\ planned \in Nat /\ current_bytes \in Nat /\ Budget \in Nat
      /\ windows \in Seq(Seq(DOMAIN ordered)) /\ ordered \in Seq(Idx)
  BY ScanAssumption DEF ScanInv, Pass1Inv, TypeInv, TypeOK, Pass3Types
<1>4. L \in DOMAIN windows /\ L \in Nat /\ DOMAIN windows = 1 .. L
  BY <1>1, <1>3
<1>5. /\ w \in Seq(DOMAIN ordered) /\ Len(w) \in Nat \ {0}
      /\ \A n \in DOMAIN w : w[n] \in DOMAIN ordered
      /\ Content(w) \in SUBSET Idx
  BY <1>3, <1>4, WindowType
<1>6. /\ DOMAIN windows' = DOMAIN windows /\ windows'[L] = Append(w, x)
      /\ \A v \in DOMAIN windows : v # L => windows'[v] = windows[v]
  BY <1>1, <1>4
<1>7. x \in DOMAIN ordered /\ x \in Nat
  BY <1>1, <1>3
<1> HIDE DEF w, L
<1>8. /\ Len(Append(w, x)) = Len(w) + 1 /\ Append(w, x)[Len(w) + 1] = x
      /\ \A n \in 1 .. Len(w) : Append(w, x)[n] = w[n]
      /\ DOMAIN Append(w, x) = 1 .. Len(w) + 1 /\ DOMAIN w = 1 .. Len(w)
  BY <1>5, <1>7
<1>9. \A v \in DOMAIN windows : \A n \in DOMAIN windows[v] :
        windows[v][n] \in Nat /\ windows[v][n] <= planned
  <2> SUFFICES ASSUME NEW v \in DOMAIN windows, NEW n \in DOMAIN windows[v]
               PROVE  windows[v][n] \in Nat /\ windows[v][n] <= planned
    OBVIOUS
  <2>1. windows[v][n] \in DOMAIN ordered
    BY <1>3, WindowType
  <2> QED BY <1>3, <2>1 DEF ResidencyInv, WindowsSorted
<1>10. \A n \in 1 .. Len(w) : w[n] \in Nat /\ w[n] <= planned
  BY <1>4, <1>8, <1>9 DEF w
<1>11. WindowsSorted'
  <2>1. ASSUME NEW v \in DOMAIN windows, NEW m \in DOMAIN windows'[v],
               NEW n \in DOMAIN windows'[v], m < n
        PROVE  windows'[v][m] < windows'[v][n]
    <3>1. CASE v # L
      BY <1>6, <2>1, <3>1 DEF ResidencyInv, WindowsSorted
    <3>2. CASE v = L
      <4>1. m \in 1 .. Len(w) /\ n \in 1 .. Len(w) + 1
        BY <1>5, <1>6, <1>8, <2>1, <3>2
      <4>2. windows'[v][m] = w[m]
        BY <1>6, <1>8, <3>2, <4>1
      <4>3. CASE n = Len(w) + 1
        <5>1. windows'[v][n] = x
          BY <1>6, <1>8, <3>2, <4>3
        <5> QED BY <1>3, <1>10, <4>1, <4>2, <5>1
      <4>4. CASE n # Len(w) + 1
        <5>1. n \in 1 .. Len(w) /\ windows'[v][n] = w[n]
          BY <1>5, <1>6, <1>8, <3>2, <4>1, <4>4
        <5>2. w[m] < w[n]
          BY <1>4, <1>8, <2>1, <4>1, <5>1 DEF ResidencyInv, WindowsSorted, w
        <5> QED BY <4>2, <5>1, <5>2
      <4> QED BY <4>3, <4>4
    <3> QED BY <3>1, <3>2
  <2>2. ASSUME NEW v \in DOMAIN windows, NEW u \in DOMAIN windows, v < u,
               NEW m \in DOMAIN windows'[v], NEW n \in DOMAIN windows'[u]
        PROVE  windows'[v][m] < windows'[u][n]
    <3>1. v # L
      BY <1>4, <2>2
    <3>2. windows'[v] = windows[v]
      BY <1>6, <3>1
    <3>3. CASE u # L
      BY <1>6, <2>2, <3>2, <3>3 DEF ResidencyInv, WindowsSorted
    <3>4. CASE u = L /\ n = Len(w) + 1
      <4>1. windows'[u][n] = x
        BY <1>6, <1>8, <3>4
      <4> QED BY <1>3, <1>9, <2>2, <3>2, <4>1
    <3>5. CASE u = L /\ n # Len(w) + 1
      <4>1. n \in 1 .. Len(w) /\ windows'[u][n] = w[n]
        BY <1>5, <1>6, <1>8, <2>2, <3>5
      <4>2. windows[v][m] < w[n]
        BY <1>4, <1>8, <2>2, <3>2, <3>5, <4>1
           DEF ResidencyInv, WindowsSorted, w
      <4> QED BY <3>2, <4>1, <4>2
    <3> QED BY <3>3, <3>4, <3>5
  <2>3. ASSUME NEW v \in DOMAIN windows, NEW n \in DOMAIN windows'[v]
        PROVE  windows'[v][n] <= planned'
    <3>1. CASE v # L
      BY <1>1, <1>3, <1>6, <1>9, <2>3, <3>1
    <3>2. CASE v = L
      <4>1. n \in 1 .. Len(w) + 1
        BY <1>6, <1>8, <2>3, <3>2
      <4>2. CASE n = Len(w) + 1
        BY <1>1, <1>6, <1>7, <1>8, <3>2, <4>2
      <4>3. CASE n # Len(w) + 1
        <5>1. n \in 1 .. Len(w) /\ windows'[v][n] = w[n]
          BY <1>5, <1>6, <1>8, <3>2, <4>1, <4>3
        <5> QED BY <1>1, <1>3, <1>10, <5>1
      <4> QED BY <4>2, <4>3
    <3> QED BY <3>1, <3>2
  <2> QED BY <1>1, <1>6, <2>1, <2>2, <2>3 DEF WindowsSorted
<1>12. /\ Content(Append(w, x)) = Content(w) \cup {Planned}
       /\ Planned \in Idx \ Content(w)
  <2>1. ToSet(Append(w, x)) = ToSet(w) \cup {x}
    BY <1>5, <1>7, AppendProps
  <2>2. Planned \in Idx \ Content(w)
    BY <1>1, <1>4, PlannedNew DEF w
  <2> QED BY <2>1, <2>2 DEF Content, Planned
<1>13. SumOver(Lens, Content(Append(w, x))) = current_bytes'
  <2>1. /\ Lens \in [Idx -> Nat] /\ IsFiniteSet(Idx)
        /\ Lens[Planned] = blocks[Planned].len
    BY <1>3, <1>12, LensType
  <2>2. SumOver(Lens, Content(w) \cup {Planned})
          = Lens[Planned] + SumOver(Lens, Content(w))
    BY <1>5, <1>12, <2>1, SumInsert
  <2>3. SumOver(Lens, Content(w)) = current_bytes
    BY <1>1 DEF ResidencyInv, WindowsPaid, Last, w, L
  <2>4. Lens[Planned] \in Nat
    BY <1>12, <2>1
  <2>5. SumOver(Lens, Content(Append(w, x))) = Lens[Planned] + current_bytes
    BY <1>12, <2>2, <2>3
  <2> QED BY <1>1, <1>3, <2>1, <2>4, <2>5
<1>14. WindowsPaid'
  <2>1. \A s : Content(s)' = Content(s)
    BY <1>1 DEF Content
  <2>2. Last(windows)' = Append(w, x) /\ Len(windows') = L
    BY <1>4, <1>6, <1>3, <1>1 DEF Last, L
  <2>3. SumOver(Lens, Content(Append(w, x))) <= Budget
    BY <1>1, <1>13
  <2>4. ASSUME NEW v \in DOMAIN windows
        PROVE  \/ Len(windows'[v]) = 1
               \/ SumOver(Lens, Content(windows'[v])) <= Budget
    BY <1>6, <2>3, <2>4 DEF ResidencyInv, WindowsPaid
  <2> QED BY <1>2, <1>6, <1>13, <2>1, <2>2, <2>4 DEF WindowsPaid
<1>15. PlanCovers'
  <2>1. ASSUME NEW p \in 1 .. planned' PROVE Covered(p)'
    <3>1. CASE p = x
      <4>1. p \in ToSet(windows'[L])
        BY <1>6, <1>8, <1>5, <3>1 DEF ToSet
      <4> QED BY <1>4, <1>6, <4>1 DEF Covered
    <3>2. CASE p # x
      <4>1. p \in 1 .. planned
        BY <1>1, <1>3, <2>1, <3>2
      <4>2. Covered(p)
        BY <1>1, <4>1 DEF ResidencyInv, PlanCovers
      <4>3. \A v \in DOMAIN windows : ToSet(windows[v]) \subseteq ToSet(windows'[v])
        <5>1. ToSet(w) \subseteq ToSet(Append(w, x))
          BY <1>5, <1>7, AppendProps
        <5> QED BY <1>6, <5>1 DEF w
      <4> QED BY <1>1, <1>6, <4>2, <4>3 DEF Covered
    <3> QED BY <3>1, <3>2
  <2> QED BY <1>1, <2>1 DEF ResidencyInv, PlanCovers
<1>16. FetchPaid'
  BY <1>1, <1>2 DEF ResidencyInv, FetchPaid
<1> QED BY <1>2, <1>11, <1>14, <1>15, <1>16 DEF ResidencyInv

(* A block that starts a window is its only one. *)
LEMMA PlanCutPaid ==
    ASSUME ScanInv, TypeInv', ResidencyInv, PlanCut
    PROVE  ResidencyInv'
<1> DEFINE L == Len(windows)
           x == planned + 1
<1>1. /\ pc = "plan" /\ pc' = "plan" /\ planned < Len(ordered)
      /\ windows' = Append(windows, <<x>>)
      /\ current_bytes' = blocks[Planned].len
      /\ planned' = x
      /\ UNCHANGED <<blocks, resident, residentBudget, ordered, fetched, cursor>>
  BY DEF PlanCut, Planning, walkVars
<1>2. WalkPaid' /\ Lens' = Lens /\ Idx' = Idx
  BY <1>1, WalkPaidKept DEF ResidencyInv
<1>3. /\ TypeOK /\ planned \in Nat
      /\ windows \in Seq(Seq(DOMAIN ordered)) /\ ordered \in Seq(Idx)
  BY DEF ScanInv, Pass1Inv, TypeInv, TypeOK, Pass3Types
<1>4. x \in DOMAIN ordered /\ x \in Nat /\ <<x>> \in Seq(DOMAIN ordered)
  BY <1>1, <1>3
<1>5. L \in Nat /\ DOMAIN windows = 1 .. L
  BY <1>3
<1>6. /\ DOMAIN windows' = 1 .. L + 1 /\ windows'[L + 1] = <<x>>
      /\ \A v \in 1 .. L : windows'[v] = windows[v]
      /\ Len(windows') = L + 1
  BY <1>1, <1>3, <1>4, <1>5
<1>7. Len(<<x>>) = 1 /\ DOMAIN <<x>> = {1} /\ <<x>>[1] = x
  OBVIOUS
<1>8. \A v \in 1 .. L : \A n \in DOMAIN windows[v] :
        windows[v][n] \in Nat /\ windows[v][n] <= planned
  <2> SUFFICES ASSUME NEW v \in 1 .. L, NEW n \in DOMAIN windows[v]
               PROVE  windows[v][n] \in Nat /\ windows[v][n] <= planned
    OBVIOUS
  <2>1. v \in DOMAIN windows
    BY <1>5
  <2>2. windows[v][n] \in DOMAIN ordered
    BY <1>3, <2>1, WindowType
  <2>3. windows[v][n] <= planned
    BY <2>1 DEF ResidencyInv, WindowsSorted
  <2>4. windows[v][n] \in Nat
    BY <1>3, <2>2
  <2> QED BY <2>3, <2>4
<1>9. \A v \in 1 .. L + 1 : v \in 1 .. L \/ v = L + 1
  BY <1>5
<1> HIDE DEF L
<1>10. WindowsSorted'
  <2>1. ASSUME NEW v \in 1 .. L + 1, NEW m \in DOMAIN windows'[v],
               NEW n \in DOMAIN windows'[v], m < n
        PROVE  windows'[v][m] < windows'[v][n]
    <3>1. CASE v \in 1 .. L
      BY <1>5, <1>6, <2>1, <3>1 DEF ResidencyInv, WindowsSorted
    <3>2. CASE v = L + 1
      BY <1>6, <1>7, <2>1, <3>2
    <3> QED BY <1>9, <3>1, <3>2
  <2>2. ASSUME NEW v \in 1 .. L + 1, NEW u \in 1 .. L + 1, v < u,
               NEW m \in DOMAIN windows'[v], NEW n \in DOMAIN windows'[u]
        PROVE  windows'[v][m] < windows'[u][n]
    <3>1. v \in 1 .. L /\ windows'[v] = windows[v]
      BY <1>5, <1>6, <2>2
    <3>2. CASE u \in 1 .. L
      BY <1>5, <1>6, <2>2, <3>1, <3>2 DEF ResidencyInv, WindowsSorted
    <3>3. CASE u = L + 1
      <4>1. windows'[u][n] = x
        BY <1>6, <1>7, <2>2, <3>3
      <4> QED BY <1>3, <1>8, <2>2, <3>1, <4>1
    <3> QED BY <1>9, <3>2, <3>3
  <2>3. ASSUME NEW v \in 1 .. L + 1, NEW n \in DOMAIN windows'[v]
        PROVE  windows'[v][n] <= planned'
    <3>1. CASE v \in 1 .. L
      BY <1>1, <1>3, <1>6, <1>8, <2>3, <3>1
    <3>2. CASE v = L + 1
      BY <1>1, <1>4, <1>6, <1>7, <2>3, <3>2
    <3> QED BY <1>9, <3>1, <3>2
  <2> QED BY <1>1, <1>6, <2>1, <2>2, <2>3 DEF WindowsSorted
<1>11. /\ Content(<<x>>) = {Planned} /\ Planned \in Idx
  <2>1. ToSet(<<x>>) = {x}
    BY <1>7 DEF ToSet
  <2>2. Planned = ordered[x] /\ ordered[x] \in Idx
    BY <1>3, <1>4 DEF Planned
  <2> QED BY <2>1, <2>2 DEF Content
<1>12. SumOver(Lens, {Planned}) = current_bytes'
  <2>1. /\ Lens \in [Idx -> Nat] /\ IsFiniteSet(Idx)
        /\ Lens[Planned] = blocks[Planned].len /\ SumOver(Lens, {}) = 0
    BY <1>3, <1>11, LensType
  <2>2. {} \in SUBSET Idx /\ Planned \in Idx \ {} /\ {} \cup {Planned} = {Planned}
    BY <1>11
  <2>3. SumOver(Lens, {} \cup {Planned}) = Lens[Planned] + SumOver(Lens, {})
    BY <2>1, <2>2, SumInsert
  <2>4. Lens[Planned] \in Nat
    BY <1>11, <2>1
  <2>5. SumOver(Lens, {Planned}) = Lens[Planned] + 0
    BY <2>1, <2>2, <2>3
  <2> QED BY <1>1, <2>1, <2>4, <2>5
<1>13. WindowsPaid'
  <2>1. \A s : Content(s)' = Content(s)
    BY <1>1 DEF Content
  <2>2. Last(windows)' = <<x>>
    BY <1>6 DEF Last
  <2>3. ASSUME NEW v \in 1 .. L + 1
        PROVE  \/ Len(windows'[v]) = 1
               \/ SumOver(Lens, Content(windows'[v])) <= Budget
    BY <1>5, <1>6, <1>7, <1>9, <2>3 DEF ResidencyInv, WindowsPaid
  <2> QED BY <1>2, <1>6, <1>11, <1>12, <2>1, <2>2, <2>3 DEF WindowsPaid
<1>14. PlanCovers'
  <2>1. ASSUME NEW p \in 1 .. planned' PROVE Covered(p)'
    <3>1. CASE p = x
      <4>1. p \in ToSet(windows'[L + 1]) /\ L + 1 \in DOMAIN windows'
        BY <1>5, <1>6, <1>7, <3>1 DEF ToSet
      <4> QED BY <4>1 DEF Covered
    <3>2. CASE p # x
      <4>1. p \in 1 .. planned
        BY <1>1, <1>3, <2>1, <3>2
      <4>2. Covered(p)
        BY <1>1, <4>1 DEF ResidencyInv, PlanCovers
      <4>3. \A v \in 1 .. L : v \in 1 .. L + 1
        BY <1>5
      <4> QED BY <1>1, <1>5, <1>6, <4>2, <4>3 DEF Covered
    <3> QED BY <3>1, <3>2
  <2> QED BY <1>1, <2>1 DEF ResidencyInv, PlanCovers
<1>15. FetchPaid'
  BY <1>1, <1>2 DEF ResidencyInv, FetchPaid
<1> QED BY <1>2, <1>10, <1>13, <1>14, <1>15 DEF ResidencyInv

(* Once all is planned, all is resident or in a window. *)
LEMMA PlanDonePaid ==
    ASSUME TypeInv, ResidencyInv, PlanDone
    PROVE  ResidencyInv'
<1>1. /\ pc = "plan" /\ pc' = "fetch" /\ planned = Len(ordered)
      /\ UNCHANGED <<blocks, resident, residentBudget, ordered, windows, planned,
                     current_bytes, fetched, cursor>>
  BY DEF PlanDone, walkVars, pass3Vars
<1>2. WalkPaid' /\ Lens' = Lens
  BY <1>1, WalkPaidKept DEF ResidencyInv
<1>3. cursor = 0 /\ fetched = {} /\ \A p \in 1 .. planned : Covered(p)
  BY <1>1 DEF ResidencyInv, PlanCovers
<1>4. WindowsSorted'
  <2>1. ASSUME NEW v \in DOMAIN windows, NEW n \in DOMAIN windows[v]
        PROVE  cursor < windows[v][n]
    <3>1. windows[v][n] \in DOMAIN ordered /\ ordered \in Seq(Idx)
      BY <2>1, WindowType DEF TypeInv, TypeOK, Pass3Types
    <3> QED BY <1>3, <3>1
  <2> QED BY <1>1, <2>1 DEF ResidencyInv, WindowsSorted
<1>5. WindowsPaid'
  BY <1>1, <1>2 DEF ResidencyInv, WindowsPaid, Content
<1>6. PlanCovers'
  <2>1. \A p : Covered(p)' <=> Covered(p)
    BY <1>1 DEF Covered
  <2>2. \A p \in cursor' + 1 .. Len(ordered') : p \in 1 .. planned
    BY <1>1, <1>3
  <2> QED BY <1>1, <1>3, <2>1, <2>2 DEF PlanCovers
<1>7. FetchPaid'
  BY <1>1, <1>2 DEF ResidencyInv, FetchPaid
<1> QED BY <1>2, <1>4, <1>5, <1>6, <1>7 DEF ResidencyInv

-----------------------------------------------------------------------------
(* Fetching and merging. *)

(* The fetched window is the first, and fits the budget or is one block. *)
LEMMA FetchWindowPaid ==
    ASSUME TypeInv, ResidencyInv, FetchWindow
    PROVE  ResidencyInv'
<1> DEFINE w == Head(windows)
<1>1. /\ pc = "fetch" /\ pc' = "merge" /\ windows # << >>
      /\ fetched' = Content(w)
      /\ UNCHANGED <<blocks, resident, residentBudget, ordered, windows, planned,
                     current_bytes, cursor>>
  BY DEF FetchWindow, walkVars, Content
<1>2. WalkPaid' /\ Lens' = Lens /\ \A s : Content(s)' = Content(s)
  BY <1>1, WalkPaidKept DEF ResidencyInv, Content
<1>3. 1 \in DOMAIN windows /\ w = windows[1] /\ TypeOK
  BY <1>1 DEF TypeInv, TypeOK, Pass3Types
<1>4. w \in Seq(DOMAIN ordered) /\ Len(w) \in Nat \ {0} /\ DOMAIN w = 1 .. Len(w)
  BY <1>3, WindowType
<1>5. WindowsSorted'
  BY <1>1 DEF ResidencyInv, WindowsSorted
<1>6. WindowsPaid'
  BY <1>1, <1>2 DEF ResidencyInv, WindowsPaid
<1>7. cursor <= Last(w)
  <2>1. cursor < w[Len(w)]
    BY <1>1, <1>3, <1>4 DEF ResidencyInv, WindowsSorted
  <2>2. w[Len(w)] \in DOMAIN ordered /\ ordered \in Seq(Idx)
    BY <1>3, <1>4 DEF TypeOK, Pass3Types
  <2>3. cursor \in Nat /\ w[Len(w)] \in Nat
    BY <1>3, <2>2 DEF TypeOK, Pass3Types
  <2> QED BY <2>1, <2>3 DEF Last
<1>8. PlanCovers'
  <2>1. \A p : Covered(p)' <=> Covered(p)
    BY <1>1 DEF Covered
  <2>2. Through' = Last(w)
    BY <1>1 DEF Through
  <2>3. \A p \in ToSet(w) : ordered[p] \in fetched'
    BY <1>1 DEF Content
  <2> QED BY <1>1, <1>2, <1>7, <2>1, <2>2, <2>3 DEF ResidencyInv, PlanCovers
<1>9. FetchPaid'
  <2>1. CASE Len(w) = 1
    <3>1. w = <<w[1]>>
      BY <1>4, <2>1
    <3>2. ToSet(w) = {w[1]}
      BY <1>4, <2>1 DEF ToSet
    <3>3. Content(w) = {ordered[w[1]]}
      BY <3>2 DEF Content
    <3>4. Cardinality(fetched') = 1
      BY <1>1, <3>3, FS_Singleton
    <3> QED BY <3>4 DEF FetchPaid
  <2>2. CASE SumOver(Lens, Content(w)) <= Budget
    BY <1>1, <1>2, <2>2 DEF FetchPaid
  <2> QED BY <1>3, <2>1, <2>2 DEF ResidencyInv, WindowsPaid
<1> QED BY <1>2, <1>5, <1>6, <1>8, <1>9 DEF ResidencyInv

(* Taking a block out never costs more. *)
LEMMA FetchShrinks ==
    ASSUME TypeOK, FetchPaid, NEW b
    PROVE  \/ SumOver(Lens, fetched \ {b}) <= Budget
           \/ Cardinality(fetched \ {b}) = 1
<1>1. /\ Lens \in [Idx -> Nat] /\ IsFiniteSet(Idx) /\ SumOver(Lens, {}) = 0
      /\ fetched \in SUBSET Idx /\ fetched \ {b} \in SUBSET fetched
      /\ Budget \in Nat
  BY LensType, ScanAssumption DEF TypeOK, Pass3Types
<1>2. CASE SumOver(Lens, fetched) <= Budget
  <2>1. SumOver(Lens, fetched \ {b}) <= SumOver(Lens, fetched)
    BY <1>1, SumMonotone
  <2>2. fetched \ {b} \in SUBSET Idx
    BY <1>1
  <2>3. SumOver(Lens, fetched \ {b}) \in Nat /\ SumOver(Lens, fetched) \in Nat
    BY <1>1, <2>2, SumProps
  <2> QED BY <1>1, <1>2, <2>1, <2>3
<1>3. CASE Cardinality(fetched) = 1
  <2>1. IsFiniteSet(fetched)
    BY <1>1, FS_Subset
  <2>2. PICK x : fetched = {x}
    BY <1>3, <2>1, FS_Singleton
  <2>3. CASE b = x
    <3>1. fetched \ {b} = {}
      BY <2>2, <2>3
    <3>2. SumOver(Lens, fetched \ {b}) = 0
      BY <1>1, <3>1
    <3> QED BY <1>1, <3>2
  <2>4. CASE b # x
    <3>1. fetched \ {b} = fetched
      BY <2>2, <2>4
    <3> QED BY <1>3, <3>1
  <2> QED BY <2>3, <2>4
<1> QED BY <1>2, <1>3 DEF FetchPaid

(* A merged block gives up its bytes, and no other block's. *)
LEMMA MergeBlockPaid ==
    ASSUME ScanInv, TypeInv', ResidencyInv, MergeBlock
    PROVE  ResidencyInv'
<1> DEFINE b == ordered[cursor + 1]
<1>1. /\ pc' = pc /\ (pc = "merge" \/ (pc = "fetch" /\ windows = << >>))
      /\ cursor < Through /\ fetched' = fetched \ {b} /\ cursor' = cursor + 1
      /\ UNCHANGED <<blocks, resident, residentBudget, ordered, windows, planned,
                     current_bytes>>
  BY DEF MergeBlock, walkVars
<1>2. WalkPaid' /\ Lens' = Lens /\ \A s : Content(s)' = Content(s)
  BY <1>1, WalkPaidKept DEF ResidencyInv, Content
<1>3. TypeOK /\ cursor \in Nat
  BY DEF ScanInv, Pass1Inv, TypeInv, TypeOK, Pass3Types
<1>4. WindowsSorted' /\ WindowsPaid'
  BY <1>1, <1>2 DEF ResidencyInv, WindowsSorted, WindowsPaid
<1>5. FetchPaid'
  BY <1>1, <1>2, <1>3, FetchShrinks DEF ResidencyInv, FetchPaid
<1>6. \A p : Covered(p)' <=> Covered(p)
  BY <1>1 DEF Covered
<1>7. \A p \in cursor' + 1 .. Len(ordered') : Covered(p)'
  <2>1. Len(ordered) \in Nat
    BY <1>3 DEF TypeOK, Pass3Types
  <2>2. \A p \in cursor' + 1 .. Len(ordered') : p \in cursor + 1 .. Len(ordered)
    BY <1>1, <1>3, <2>1
  <2> QED BY <1>1, <1>6, <2>2 DEF ResidencyInv, PlanCovers
<1>8. CASE pc = "fetch"
  <2>1. fetched' = {}
    BY <1>1, <1>8 DEF ResidencyInv, PlanCovers
  <2>2. PlanCovers'
    BY <1>1, <1>7, <1>8, <2>1 DEF PlanCovers
  <2> QED BY <1>2, <1>4, <1>5, <2>2 DEF ResidencyInv
<1>9. CASE pc = "merge"
  <2>1. /\ windows # << >> /\ Through' = Through
        /\ fetched \subseteq Content(Head(windows))
        /\ \A p \in ToSet(Head(windows)) : cursor < p => ordered[p] \in fetched
    BY <1>1, <1>9 DEF ResidencyInv, PlanCovers, ScanInv, Pass1Inv, TypeInv,
       Phases, Through
  <2> DEFINE w == Head(windows)
  <2>2. 1 \in DOMAIN windows /\ w = windows[1]
    BY <1>3, <2>1 DEF TypeOK, Pass3Types
  <2>3. /\ w \in Seq(DOMAIN ordered) /\ Len(w) \in Nat \ {0}
        /\ \A n \in DOMAIN w : w[n] \in DOMAIN ordered
    BY <1>3, <2>2, WindowType
  <2>4. IsInjective(ordered) /\ ordered \in Seq(Idx)
    BY <1>9, OrderedOnce
  <2>5. cursor' <= Through'
    <3>1. Through = w[Len(w)]
      BY <2>1 DEF Through, Last
    <3>2. Through \in Nat
      BY <2>3, <2>4, <3>1
    <3> QED BY <1>1, <1>3, <2>1, <3>2
  <2>6. ASSUME NEW p \in ToSet(w), cursor' < p PROVE ordered[p] \in fetched'
    <3>1. p \in DOMAIN ordered /\ p \in Nat
      BY <2>3, <2>4, <2>6 DEF ToSet
    <3>2. cursor < p /\ p # cursor + 1
      BY <1>1, <1>3, <2>6, <3>1
    <3>3. cursor + 1 \in DOMAIN ordered
      BY <1>3, <2>4, <3>1, <3>2
    <3>4. ordered[p] # b
      BY <2>4, <3>1, <3>2, <3>3 DEF IsInjective
    <3> QED BY <1>1, <2>1, <3>2, <3>4
  <2>7. PlanCovers'
    BY <1>1, <1>2, <1>7, <1>9, <2>1, <2>5, <2>6 DEF PlanCovers
  <2> QED BY <1>2, <1>4, <1>5, <2>7 DEF ResidencyInv
<1> QED BY <1>1, <1>8, <1>9

(* The windows that are left begin behind the one that is done. *)
LEMMA WindowDonePaid ==
    ASSUME TypeInv, TypeInv', ResidencyInv, WindowDone
    PROVE  ResidencyInv'
<1> DEFINE L == Len(windows)
           w == Head(windows)
<1>1. /\ pc = "merge" /\ pc' = "fetch" /\ cursor = Through /\ windows # << >>
      /\ fetched' = {} /\ windows' = Tail(windows)
      /\ UNCHANGED <<blocks, resident, residentBudget, ordered, planned,
                     current_bytes, cursor>>
  BY DEF WindowDone, walkVars, TypeInv, Phases
<1>2. WalkPaid' /\ Lens' = Lens /\ \A s : Content(s)' = Content(s)
  BY <1>1, WalkPaidKept DEF ResidencyInv, Content
<1>3. /\ TypeOK /\ windows \in Seq(Seq(DOMAIN ordered)) /\ ordered \in Seq(Idx)
      /\ cursor \in Nat /\ Budget \in Nat
  BY ScanAssumption DEF TypeInv, TypeOK, Pass3Types
<1>4. L \in Nat \ {0} /\ DOMAIN windows = 1 .. L /\ w = windows[1]
  BY <1>1, <1>3
<1>5. /\ DOMAIN windows' = 1 .. L - 1
      /\ \A v \in 1 .. L - 1 : windows'[v] = windows[v + 1] /\ v + 1 \in 1 .. L
  BY <1>1, <1>3, <1>4
<1>6. /\ Len(w) \in Nat \ {0} /\ DOMAIN w = 1 .. Len(w)
      /\ \A n \in DOMAIN w : w[n] \in Nat /\ w[n] <= cursor
  <2>0. /\ windows[1] \in Seq(DOMAIN ordered) /\ Len(windows[1]) \in Nat \ {0}
        /\ \A n \in DOMAIN windows[1] : windows[1][n] \in DOMAIN ordered
    <3>1. 1 \in DOMAIN windows
      BY <1>4
    <3> QED BY <1>3, <3>1, WindowType
  <2>1. /\ w \in Seq(DOMAIN ordered) /\ Len(w) \in Nat \ {0}
        /\ DOMAIN w = 1 .. Len(w)
        /\ \A n \in DOMAIN w : w[n] \in DOMAIN ordered
    BY <1>4, <2>0
  <2>2. \A n \in DOMAIN w : w[n] \in Nat
    BY <1>3, <2>1
  <2>3. cursor = w[Len(w)]
    BY <1>1 DEF Through, Last
  <2>4. ASSUME NEW n \in DOMAIN w PROVE w[n] <= w[Len(w)]
    <3>1. CASE n = Len(w)
      BY <2>1, <2>2, <3>1
    <3>2. CASE n # Len(w)
      <4>1. n < Len(w) /\ Len(w) \in DOMAIN w
        BY <2>1, <2>4, <3>2
      <4>2. w[n] < w[Len(w)]
        BY <1>4, <2>4, <4>1 DEF ResidencyInv, WindowsSorted
      <4> QED BY <2>2, <2>4, <4>1, <4>2
    <3> QED BY <3>1, <3>2
  <2> QED BY <2>1, <2>2, <2>3, <2>4
<1>7. \A v \in 1 .. L - 1 : \A n \in DOMAIN windows[v + 1] :
        cursor < windows[v + 1][n]
  <2> SUFFICES ASSUME NEW v \in 1 .. L - 1, NEW n \in DOMAIN windows[v + 1]
               PROVE  cursor < windows[v + 1][n]
    OBVIOUS
  <2>1. 1 \in DOMAIN windows /\ v + 1 \in DOMAIN windows /\ 1 < v + 1
    BY <1>4
  <2>2. w[Len(w)] < windows[v + 1][n]
    BY <1>4, <1>6, <2>1 DEF ResidencyInv, WindowsSorted
  <2> QED BY <1>1, <2>2 DEF Through, Last
<1> HIDE DEF w, L
<1>8. WindowsSorted'
  <2>1. \A v, u \in 1 .. L - 1 : v < u => v + 1 < u + 1
    BY <1>4
  <2>2. \A v \in DOMAIN windows' : \A m, n \in DOMAIN windows'[v] :
         m < n => windows'[v][m] < windows'[v][n]
    BY <1>4, <1>5 DEF ResidencyInv, WindowsSorted
  <2>3. \A v, u \in DOMAIN windows' : v < u =>
         \A m \in DOMAIN windows'[v], n \in DOMAIN windows'[u] :
           windows'[v][m] < windows'[u][n]
    BY <1>4, <1>5, <2>1 DEF ResidencyInv, WindowsSorted
  <2>4. \A v \in DOMAIN windows' : \A n \in DOMAIN windows'[v] :
         windows'[v][n] <= planned' /\ cursor' < windows'[v][n]
    BY <1>1, <1>4, <1>5, <1>7 DEF ResidencyInv, WindowsSorted
  <2> QED BY <2>2, <2>3, <2>4 DEF WindowsSorted
<1>9. WindowsPaid'
  <2>1. \A v \in DOMAIN windows' : Len(windows'[v]) = 1
          \/ SumOver(Lens, Content(windows'[v])) <= Budget
    BY <1>4, <1>5 DEF ResidencyInv, WindowsPaid
  <2> QED BY <1>1, <1>2, <2>1 DEF WindowsPaid
<1>10. PlanCovers'
  <2>1. ASSUME NEW p \in cursor' + 1 .. Len(ordered') PROVE Covered(p)'
    <3>1. Covered(p) /\ p \in Nat /\ cursor < p
      <4>1. Len(ordered) \in Nat
        BY <1>3
      <4>2. p \in cursor + 1 .. Len(ordered)
        BY <1>1, <2>1
      <4> QED BY <1>1, <1>3, <4>1, <4>2 DEF ResidencyInv, PlanCovers
    <3>2. CASE ordered[p] \in resident
      BY <1>1, <3>2 DEF Covered
    <3>3. CASE \E v \in DOMAIN windows : p \in ToSet(windows[v])
      <4>1. PICK v \in DOMAIN windows : p \in ToSet(windows[v])
        BY <3>3
      <4>2. v # 1
        <5>1. ASSUME v = 1 PROVE FALSE
          <6>1. PICK n \in DOMAIN w : p = w[n]
            BY <1>4, <4>1, <5>1 DEF ToSet
          <6> QED BY <1>3, <1>6, <3>1, <6>1
        <5> QED BY <5>1
      <4>3. v - 1 \in 1 .. L - 1 /\ (v - 1) + 1 = v
        BY <1>4, <4>1, <4>2
      <4>4. windows'[v - 1] = windows[v]
        BY <1>5, <4>3
      <4> QED BY <1>5, <4>1, <4>3, <4>4 DEF Covered
    <3> QED BY <3>1, <3>2, <3>3 DEF Covered
  <2> QED BY <1>1, <2>1 DEF PlanCovers
<1>11. FetchPaid'
  <2>1. SumOver(Lens, {}) = 0
    BY <1>3, LensType
  <2> QED BY <1>1, <1>2, <1>3, <2>1 DEF FetchPaid
<1> QED BY <1>2, <1>8, <1>9, <1>10, <1>11 DEF ResidencyInv

-----------------------------------------------------------------------------
(* Every step keeps the invariant. *)
LEMMA ResidencyStep ==
    ScanInv /\ ResidencyInv /\ [Next]_vars => ResidencyInv'
<1> SUFFICES ASSUME ScanInv, ResidencyInv, [Next]_vars PROVE ResidencyInv'
  OBVIOUS
<1>1. TypeInv /\ TypeInv'
  BY TypeStep DEF ScanInv, Pass1Inv
<1>2. CASE Walk
  <2>1. pc' \in {"walk", "pass1"}
    BY <1>2 DEF Walk, OpenLogFile, ReadBlockHeader, WalkDone
  <2>2. ASSUME NEW keep \in BOOLEAN, ReadBlockHeader(keep) PROVE WalkPaid'
    BY <1>1, <2>2, ReadPaid DEF ResidencyInv
  <2>3. ASSUME OpenLogFile \/ WalkDone PROVE WalkPaid'
    <3>1. UNCHANGED <<blocks, resident, residentBudget>>
      BY <2>3 DEF OpenLogFile, WalkDone, walkVars
    <3> QED BY <3>1, WalkPaidKept DEF ResidencyInv
  <2>4. WalkPaid'
    BY <1>2, <2>2, <2>3 DEF Walk
  <2> QED BY <1>1, <2>1, <2>4, NothingPlanned
<1>3. CASE ForwardScanPass1 \/ ReverseScanPass2
  <2>1. /\ pc' \in {"pass1", "pass2"}
        /\ UNCHANGED <<blocks, resident, residentBudget>>
    BY <1>3
       DEF ForwardScanPass1, KeepBlock, ApplyRollback, SkipBlock, Pass1Done,
           Sweeping, ReverseScanPass2, NoteCompaction, EnqueueInstant,
           SkipIncluded, Visiting, walkVars
  <2>2. WalkPaid'
    BY <2>1, WalkPaidKept DEF ResidencyInv
  <2> QED BY <1>1, <2>1, <2>2, NothingPlanned
<1>4. CASE FinishWithoutMerging \/ MergeDone \/ ScanFails
  <2>1. pc' \in {"done", "failed"} /\ UNCHANGED <<walkVars, pass3Vars>>
    BY <1>4 DEF FinishWithoutMerging, MergeDone, ScanFails
  <2> QED BY <2>1, EndsPaid
<1>5. CASE UNCHANGED vars
  <2>1. UNCHANGED <<blocks, resident, residentBudget, ordered, windows, planned,
                    current_bytes, fetched, cursor, pc>>
    BY <1>5 DEF vars, walkVars, pass3Vars
  <2>2. WalkPaid' /\ Lens' = Lens
    BY <2>1, WalkPaidKept DEF ResidencyInv
  <2>3. WindowsSorted' /\ WindowsPaid' /\ FetchPaid'
    BY <2>1, <2>2 DEF ResidencyInv, WindowsSorted, WindowsPaid, FetchPaid,
       Content, Last
  <2>4. PlanCovers'
    BY <2>1 DEF ResidencyInv, PlanCovers, Covered, Through, Content
  <2> QED BY <2>2, <2>3, <2>4 DEF ResidencyInv
<1> QED
  BY <1>1, <1>2, <1>3, <1>4, <1>5, StartPaid, PlanResidentPaid, PlanJoinPaid,
     PlanCutPaid, PlanDonePaid, FetchWindowPaid, MergeBlockPaid, WindowDonePaid
     DEF Next, ScanStep, FetchAndMergeWindows, Returned

(* What a set of blocks takes, as a sum over a function. *)
LEMMA BytesSum ==
    ASSUME TypeOK, NEW S \in SUBSET Idx
    PROVE  Bytes(S) = SumOver(Lens, S)
<1> DEFINE total == CHOOSE k : k = [s \in SUBSET S |->
                      IF s = {} THEN 0
                      ELSE blocks[Pick(s)].len + k[s \ {Pick(s)}]]
<1>1. Bytes(S) = total[S]
  BY DEF Bytes, MapThenSumSet, MapThenFoldSet, Pick
<1>2. /\ IsFiniteSet(Idx) /\ Lens \in [Idx -> Nat]
      /\ \A k \in Idx : Lens[k] = blocks[k].len
  BY LensType
<1>3. \A s \in SUBSET S : s # {} => Lens[Pick(s)] = blocks[Pick(s)].len
  BY <1>2, PickIn
<1>4. PICK h \in [SUBSET Idx -> Nat] : IsSum(Lens, Idx, h)
  BY <1>2, SumExists
<1> DEFINE hS == [s \in SUBSET S |-> h[s]]
<1>5. \A s \in SUBSET Idx :
        h[s] = IF s = {} THEN 0 ELSE Lens[Pick(s)] + h[s \ {Pick(s)}]
  BY <1>4 DEF IsSum
<1>6. \A s \in SUBSET S :
        hS[s] = IF s = {} THEN 0
                ELSE blocks[Pick(s)].len + hS[s \ {Pick(s)}]
  <2>1. \A s \in SUBSET S : s \in SUBSET Idx /\ s \ {Pick(s)} \in SUBSET S
    OBVIOUS
  <2> QED BY <1>3, <1>5, <2>1
<1>7. hS = [s \in SUBSET S |-> hS[s]]
  OBVIOUS
<1> HIDE DEF hS
<1>8. hS = [s \in SUBSET S |->
              IF s = {} THEN 0
              ELSE blocks[Pick(s)].len + hS[s \ {Pick(s)}]]
  BY <1>6, <1>7
<1>9. total = [s \in SUBSET S |->
                IF s = {} THEN 0
                ELSE blocks[Pick(s)].len + total[s \ {Pick(s)}]]
  BY <1>8
<1> HIDE DEF total
<1>10. IsSum(Lens, S, total)
  BY <1>3, <1>9 DEF IsSum
<1>11. SumOver(Lens, S) = h[S] /\ total[S] = h[S]
  BY <1>2, <1>4, <1>10, SumIs, SumAgree
<1> QED BY <1>1, <1>11

(* The invariant bounds what is held, and every block has its bytes. *)
LEMMA ResidencyHolds == ScanInv /\ ResidencyInv => ResidencyBound
<1> SUFFICES ASSUME ScanInv, ResidencyInv PROVE ResidencyBound
  OBVIOUS
<1>1. /\ TypeInv /\ TypeOK /\ resident \in SUBSET Idx /\ fetched \in SUBSET Idx
      /\ residentBudget \in Nat /\ Budget \in Nat /\ cursor \in Nat
      /\ windows \in Seq(Seq(DOMAIN ordered)) /\ ordered \in Seq(Idx)
  BY ScanAssumption DEF ScanInv, Pass1Inv, TypeInv, TypeOK, WalkTypes, Pass3Types
<1>2. Lens \in [Idx -> Nat] /\ IsFiniteSet(Idx)
  BY <1>1, LensType
<1>3. Bytes(Held) <= Budget
  <2>1. Held \in SUBSET resident /\ Held \in SUBSET Idx
    BY <1>1 DEF Held
  <2>2. Bytes(Held) = SumOver(Lens, Held)
    BY <1>1, <2>1, BytesSum
  <2>3. SumOver(Lens, Held) <= SumOver(Lens, resident)
    BY <1>1, <1>2, <2>1, SumMonotone
  <2>4. SumOver(Lens, Held) \in Nat /\ SumOver(Lens, resident) \in Nat
    BY <1>1, <1>2, <2>1, SumProps
  <2>5. SumOver(Lens, resident) + residentBudget = Budget
    BY DEF ResidencyInv, WalkPaid
  <2> QED BY <1>1, <2>2, <2>3, <2>4, <2>5
<1>4. Bytes(fetched) <= Budget \/ Cardinality(fetched) = 1
  BY <1>1, BytesSum DEF ResidencyInv, FetchPaid
<1>5. ASSUME pc = "merge" \/ (pc = "fetch" /\ windows = << >>), cursor < Through
      PROVE  ordered[cursor + 1] \in resident \cup fetched
  <2> DEFINE p == cursor + 1
  <2>1. Through <= Len(ordered) /\ Through \in Nat /\ Len(ordered) \in Nat
    <3>1. CASE windows = << >>
      BY <1>1, <3>1 DEF Through
    <3>2. CASE windows # << >>
      <4>1. 1 \in DOMAIN windows /\ Head(windows) = windows[1]
        BY <1>1, <3>2
      <4>2. /\ windows[1] \in Seq(DOMAIN ordered)
            /\ Len(windows[1]) \in Nat \ {0}
        BY <1>1, <4>1, WindowType
      <4>3. windows[1][Len(windows[1])] \in DOMAIN ordered
        BY <4>2
      <4> QED BY <1>1, <3>2, <4>1, <4>3 DEF Through, Last
    <3> QED BY <3>1, <3>2
  <2>2. p \in cursor + 1 .. Len(ordered)
    BY <1>1, <1>5, <2>1
  <2>3. Covered(p)
    BY <1>5, <2>2 DEF ResidencyInv, PlanCovers
  <2>4. CASE windows = << >>
    <3>1. DOMAIN windows = {}
      BY <2>4
    <3> QED BY <2>3, <3>1 DEF Covered
  <2>5. CASE pc = "merge" /\ windows # << >>
    <3>1. CASE ordered[p] \in resident
      BY <3>1
    <3>2. CASE \E v \in DOMAIN windows : p \in ToSet(windows[v])
      <4>1. PICK v \in DOMAIN windows : p \in ToSet(windows[v])
        BY <3>2
      <4>2. PICK n \in DOMAIN windows[v] : p = windows[v][n]
        BY <4>1 DEF ToSet
      <4>3. 1 \in DOMAIN windows /\ Head(windows) = windows[1] /\ v \in Nat \ {0}
        BY <1>1, <2>5, <4>1
      <4>4. CASE v = 1
        BY <1>1, <2>5, <4>1, <4>3, <4>4 DEF ResidencyInv, PlanCovers
      <4>5. CASE v # 1
        <5>1. Len(windows[1]) \in DOMAIN windows[1]
          BY <1>1, <4>3, WindowType
        <5>2. windows[1][Len(windows[1])] < p
          BY <4>1, <4>2, <4>3, <4>5, <5>1 DEF ResidencyInv, WindowsSorted
        <5>3. Through < p
          BY <2>5, <4>3, <5>2 DEF Through, Last
        <5> QED BY <1>1, <1>5, <2>1, <5>3
      <4> QED BY <4>4, <4>5
    <3> QED BY <2>3, <3>1, <3>2 DEF Covered
  <2>6. pc = "merge" => windows # << >>
    BY <1>1 DEF TypeInv, Phases
  <2> QED BY <1>5, <2>4, <2>5, <2>6
<1> QED BY <1>3, <1>4, <1>5 DEF ResidencyBound

(***************************************************************************)
(* The walk keeps no more than its budget, a window is within the budget   *)
(* or a single block, and the error branch of queued_block_content is dead *)
(* code: for every number of files, blocks and sizes.                      *)
(***************************************************************************)
THEOREM ResidencyTheorem == Spec => []ResidencyBound
<1>1. ScanInv /\ ResidencyInv /\ [Next]_vars => (ScanInv /\ ResidencyInv)'
  BY ResidencyStep, Pass1Step, QueueStep, MergeStep DEF ScanInv, Pass1Inv
<1>2. Init => ScanInv /\ ResidencyInv
  BY Pass1Init, QueueInit, MergeInit, ResidencyInit DEF ScanInv
<1> QED BY <1>1, <1>2, ResidencyHolds, PTL DEF Spec
=============================================================================
