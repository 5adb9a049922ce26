------------------------------ MODULE LogScan ------------------------------
(***************************************************************************)
(* The three-pass log scan of the merge-on-read reader:                    *)
(* BaseHoodieLogRecordReader::scan_internal in reader_v2/log_record_reader *)
(* together with the headers-only walk of LogFileReader that feeds it.     *)
(*                                                                         *)
(*   walk   read every log file's block headers, keeping the content of a  *)
(*          block only when it is already in the fetch window and one      *)
(*          budget shared by all the files affords it;                     *)
(*   pass1  sweep the blocks forward through the gates, apply rollback     *)
(*          commands, group the admitted blocks by instant;                *)
(*   pass2  walk the instants backward, resolving log compaction, and      *)
(*          queue each surviving instant's blocks exactly once;            *)
(*   pass3  plan content windows over the queue (oldest first), then fetch *)
(*          and merge one window at a time.                                *)
(*                                                                         *)
(* A block is named by its position in the walk (the index into `blocks`); *)
(* the clones the code makes of a block are the same index.  Instants are  *)
(* positive naturals, ordered as Hudi orders instant strings; 0 is "no     *)
(* such header".                                                           *)
(***************************************************************************)
EXTENDS Naturals, Sequences, FiniteSets, SequencesExt, Gate

CONSTANTS
    MaxInstant,     \* instants are 1..MaxInstant
    NumFiles,       \* log files of the slice, in the order they are scanned
    Budget,         \* hoodie.memory.dfs.buffer.max.size
    Inputs          \* the scan requests considered: a subset of ScanInput

Instants == 1 .. MaxInstant

(***************************************************************************)
(* What a header says of a block.  AvroData, ParquetData and HfileData     *)
(* blocks are "data"; a Command block is "rollback" when                   *)
(* is_rollback_block holds and "command" otherwise, as is a CdcData block, *)
(* which no pass acts on either.                                           *)
(***************************************************************************)
MergedTypes == {"data", "delete"}
CommandTypes == {"rollback", "command"}
BlockTypes == MergedTypes \cup CommandTypes \cup {"corrupt"}

LogBlock == [type : BlockTypes,
             instant : Instants \cup {NoInstant},  \* InstantTime
             target : Instants \cup {NoInstant},   \* TargetInstantTime
             compacted : SUBSET Instants,          \* CompactedBlockTimes
             len : Nat]                            \* content_length

(* CompletionGateInputs, `armed` being Some(..): table version below 8. *)
CompletionGate == [armed : BOOLEAN,
                   completed : SUBSET Instants,
                   inflight : SUBSET Instants,
                   boundary : Instants \cup {NoInstant}]

(* One scan request.  `range` is the set of instants the InstantRange admits. *)
ScanInput == [files : [1 .. NumFiles -> Seq(LogBlock)],
              latest : Instants,
              gate : CompletionGate,
              range : SUBSET Instants,
              skip : BOOLEAN]

ASSUME ScanAssumption ==
    /\ MaxInstant \in Nat
    /\ NumFiles \in Nat
    /\ Budget \in Nat
    /\ Inputs \subseteq ScanInput

VARIABLES
    files,           \* contents of the log files
    req,             \* the rest of the request: latest, gate, range, skip
    pc,              \* what the scan does next
    file, limit, at, \* walk: open file, its length when opened, blocks read of it
    blocks,          \* all_blocks
    fileOf,          \* the file each block was read from
    residentBudget,  \* resident_budget
    resident,        \* blocks whose bytes the walk kept (resident_content)
    scanned,         \* pass 1: blocks swept so far
    ordered_instants_list,
    instant_to_blocks_map,
    total_corrupt_blocks,
    total_rollbacks,
    togo,            \* pass 2: instants of the list still to visit
    compactionOf,    \* block_time_to_compaction_block_time_map
    current_instant_log_blocks,
    instant_times_included,
    valid_block_instants,
    ordered,         \* pass 3: the queue, oldest first
    windows,         \* plan_content_windows
    current_bytes,   \* bytes of the last window planned
    planned,         \* blocks of `ordered` planned so far
    fetched,         \* blocks whose fetched bytes are held
    cursor,          \* blocks of `ordered` merged so far
    merged           \* blocks handed to the record buffer, in order

inputVars == <<files, req>>
walkVars == <<file, limit, at, blocks, fileOf, residentBudget, resident>>
pass1Vars == <<scanned, ordered_instants_list, instant_to_blocks_map,
               total_corrupt_blocks, total_rollbacks>>
pass2Vars == <<togo, compactionOf, current_instant_log_blocks,
               instant_times_included, valid_block_instants>>
pass3Vars == <<ordered, windows, current_bytes, planned, fetched, cursor,
               merged>>
vars == <<inputVars, pc, walkVars, pass1Vars, pass2Vars, pass3Vars>>

-----------------------------------------------------------------------------
(* scan_internal resets every result of an earlier scan before it walks. *)
ScanReset ==
    /\ pc = "walk"
    /\ file = 0 /\ limit = 0 /\ at = 0
    /\ blocks = << >> /\ fileOf = << >>
    /\ residentBudget = Budget /\ resident = {}
    /\ scanned = 0
    /\ ordered_instants_list = << >>
    /\ instant_to_blocks_map = [i \in Instants |-> << >>]
    /\ total_corrupt_blocks = 0 /\ total_rollbacks = 0
    /\ togo = 0
    /\ compactionOf = [i \in Instants |-> NoInstant]
    /\ current_instant_log_blocks = << >>
    /\ instant_times_included = {} /\ valid_block_instants = << >>
    /\ ordered = << >> /\ windows = << >> /\ current_bytes = 0 /\ planned = 0
    /\ fetched = {}
    /\ cursor = 0 /\ merged = << >>

Init ==
    /\ \E in \in Inputs :
         /\ files = in.files
         /\ req = [latest |-> in.latest, gate |-> in.gate,
                   range |-> in.range, skip |-> in.skip]
    /\ ScanReset

-----------------------------------------------------------------------------
(* Walk.  A streaming reader takes the file's length when it is opened. *)
OpenLogFile ==
    /\ pc = "walk" /\ at = limit /\ file < NumFiles
    /\ file' = file + 1
    /\ limit' = Len(files[file + 1])
    /\ at' = 0
    /\ UNCHANGED <<inputVars, pc, blocks, fileOf, residentBudget, resident,
                   pass1Vars, pass2Vars, pass3Vars>>

Affordable(b) == b.len <= residentBudget

(***************************************************************************)
(* One header.  The content is kept when the fetch window covers it (which *)
(* this model leaves open) and the shared budget affords it; otherwise it  *)
(* is skipped and read again in pass 3.  A corrupt span yields a block     *)
(* with no headers and no content.                                         *)
(***************************************************************************)
ReadBlockHeader(keep) ==
    LET b == files[file][at + 1]
        n == Len(blocks) + 1
    IN  /\ pc = "walk" /\ at < limit
        /\ keep => b.type # "corrupt" /\ Affordable(b)
        /\ blocks' = Append(blocks, b)
        /\ fileOf' = Append(fileOf, file)
        /\ at' = at + 1
        /\ resident' = IF keep THEN resident \cup {n} ELSE resident
        /\ residentBudget' = IF keep THEN residentBudget - b.len
                                     ELSE residentBudget
        /\ UNCHANGED <<inputVars, pc, file, limit, pass1Vars, pass2Vars,
                       pass3Vars>>

WalkDone ==
    /\ pc = "walk" /\ at = limit /\ file = NumFiles
    /\ pc' = "pass1"
    /\ UNCHANGED <<inputVars, walkVars, pass1Vars, pass2Vars, pass3Vars>>

-----------------------------------------------------------------------------
(* Pass 1. *)

(* A data or delete block passes every gate. *)
Admitted(b) ==
    /\ b.type \in MergedTypes
    /\ b.instant # NoInstant
    /\ b.instant <= req.latest
    /\ GateAdmits(req.gate, b.instant)
    /\ b.instant \in req.range

(* A command block is never gated, but one without an instant is skipped. *)
RollsBack(b) ==
    b.type = "rollback" /\ b.instant # NoInstant /\ b.target # NoInstant

NextBlock == blocks[scanned + 1]

Sweeping == pc = "pass1" /\ scanned < Len(blocks)

KeepBlock ==
    LET i == NextBlock.instant
    IN  /\ Sweeping /\ Admitted(NextBlock)
        /\ ordered_instants_list' =
             IF instant_to_blocks_map[i] = << >>
             THEN Append(ordered_instants_list, i)
             ELSE ordered_instants_list
        /\ instant_to_blocks_map' =
             [instant_to_blocks_map EXCEPT ![i] = Append(@, scanned + 1)]
        /\ scanned' = scanned + 1
        /\ UNCHANGED <<inputVars, pc, walkVars, total_corrupt_blocks,
                       total_rollbacks, pass2Vars, pass3Vars>>

(* Fault: a rollback command is counted and otherwise ignored. *)
RollbackIgnored ==
    /\ Sweeping /\ RollsBack(NextBlock)
    /\ total_rollbacks' = total_rollbacks + 1
    /\ scanned' = scanned + 1
    /\ UNCHANGED <<inputVars, pc, walkVars, total_corrupt_blocks,
                   ordered_instants_list, instant_to_blocks_map, pass2Vars,
                   pass3Vars>>

(* Fault: the target keeps its place in the list. *)
RetainAll(list, t) == list

(* `retain`; the list names an instant at most once (ListMatchesMap). *)
RetainOthers(list, t) ==
    IF \E n \in DOMAIN list : list[n] = t
    THEN RemoveAt(list, CHOOSE n \in DOMAIN list : list[n] = t)
    ELSE list

ApplyRollback ==
    LET t == NextBlock.target
    IN  /\ Sweeping /\ RollsBack(NextBlock)
        /\ ordered_instants_list' = RetainOthers(ordered_instants_list, t)
        /\ instant_to_blocks_map' =
             [instant_to_blocks_map EXCEPT ![t] = << >>]
        /\ total_rollbacks' = total_rollbacks + 1
        /\ scanned' = scanned + 1
        /\ UNCHANGED <<inputVars, pc, walkVars, total_corrupt_blocks,
                       pass2Vars, pass3Vars>>

SkipBlock ==
    /\ Sweeping /\ ~Admitted(NextBlock) /\ ~RollsBack(NextBlock)
    /\ total_corrupt_blocks' =
         total_corrupt_blocks + (IF NextBlock.type = "corrupt" THEN 1 ELSE 0)
    /\ total_rollbacks' =
         total_rollbacks + (IF /\ NextBlock.type = "rollback"
                               /\ NextBlock.instant # NoInstant
                            THEN 1 ELSE 0)
    /\ scanned' = scanned + 1
    /\ UNCHANGED <<inputVars, pc, walkVars, ordered_instants_list,
                   instant_to_blocks_map, pass2Vars, pass3Vars>>

Pass1Done ==
    /\ pc = "pass1" /\ scanned = Len(blocks)
    /\ pc' = "pass2"
    /\ togo' = Len(ordered_instants_list)
    /\ UNCHANGED <<inputVars, walkVars, pass1Vars, compactionOf,
                   current_instant_log_blocks, instant_times_included,
                   valid_block_instants, pass3Vars>>

-----------------------------------------------------------------------------
(* Pass 2, newest instant first.  The code also skips an instant without   *)
(* blocks; ListMatchesMap shows there is none.                             *)

Visited == ordered_instants_list[togo]

(* What the first block of the visited instant says it compacted. *)
Originals == blocks[Head(instant_to_blocks_map[Visited])].compacted

(* Where the blocks of an instant ended up, itself when never compacted. *)
FinalInstant(i) ==
    IF compactionOf[i] = NoInstant THEN i ELSE compactionOf[i]

(* Fault: nothing remembers that a compaction is queued already. *)
NeverIncluded(i) == FALSE

(* The code asks only on behalf of an instant that was compacted. *)
AlreadyIncluded(i) ==
    compactionOf[i] # NoInstant /\ compactionOf[i] \in instant_times_included

Visiting == pc = "pass2" /\ togo > 0

(* Fault: a compaction that was itself compacted is not followed. *)
NoteCompactionDirect ==
    /\ Visiting /\ Originals # {}
    /\ compactionOf' = [i \in Instants |->
                          IF i \in Originals THEN Visited ELSE compactionOf[i]]
    /\ togo' = togo - 1
    /\ UNCHANGED <<inputVars, pc, walkVars, pass1Vars,
                   current_instant_log_blocks, instant_times_included,
                   valid_block_instants, pass3Vars>>

(* A compacted instant is recorded, and queued only through an original. *)
NoteCompaction ==
    /\ Visiting /\ Originals # {}
    /\ compactionOf' = [i \in Instants |->
                          IF i \in Originals THEN FinalInstant(Visited)
                                             ELSE compactionOf[i]]
    /\ togo' = togo - 1
    /\ UNCHANGED <<inputVars, pc, walkVars, pass1Vars,
                   current_instant_log_blocks, instant_times_included,
                   valid_block_instants, pass3Vars>>

(***************************************************************************)
(* The instant's own blocks, or those of its compaction, newest first.     *)
(***************************************************************************)
EnqueueInstant ==
    LET i == FinalInstant(Visited)
    IN  /\ Visiting /\ Originals = {}
        /\ ~AlreadyIncluded(Visited)
        /\ current_instant_log_blocks' =
             current_instant_log_blocks \o Reverse(instant_to_blocks_map[i])
        /\ instant_times_included' = instant_times_included \cup {i}
        /\ valid_block_instants' = Append(valid_block_instants, i)
        /\ togo' = togo - 1
        /\ UNCHANGED <<inputVars, pc, walkVars, pass1Vars, compactionOf,
                       pass3Vars>>

SkipIncluded ==
    /\ Visiting /\ Originals = {}
    /\ AlreadyIncluded(Visited)
    /\ togo' = togo - 1
    /\ UNCHANGED <<inputVars, pc, walkVars, pass1Vars, compactionOf,
                   current_instant_log_blocks, instant_times_included,
                   valid_block_instants, pass3Vars>>

-----------------------------------------------------------------------------
(* Pass 3. *)

(* Nothing queued, or blocks are not to be processed: the scan is over. *)
FinishWithoutMerging ==
    /\ pc = "pass2" /\ togo = 0
    /\ current_instant_log_blocks = << >> \/ req.skip
    /\ pc' = "done"
    /\ UNCHANGED <<inputVars, walkVars, pass1Vars, pass2Vars, pass3Vars>>

(* Fault: the queue is drained from its head. *)
DrainFront(deque) == deque

(* pop_back until the deque is empty. *)
DrainBack(deque) == Reverse(deque)

StartPass3 ==
    /\ pc = "pass2" /\ togo = 0
    /\ current_instant_log_blocks # << >> /\ ~req.skip
    /\ ordered' = DrainBack(current_instant_log_blocks)
    /\ pc' = "plan"
    /\ UNCHANGED <<inputVars, walkVars, pass1Vars, pass2Vars, windows,
                   current_bytes, planned, fetched, cursor, merged>>

(***************************************************************************)
(* plan_content_windows: runs of consecutive blocks of one file whose      *)
(* content fits the budget; a block larger than the budget goes alone.     *)
(* Blocks with nothing to fetch (resident) are left out of every window.   *)
(* A window is a sequence of positions of `ordered`, and `current` is the  *)
(* last of `windows`.                                                      *)
(***************************************************************************)
Planning == pc = "plan" /\ planned < Len(ordered)

Planned == ordered[planned + 1]

SameFile == fileOf[ordered[Head(Last(windows))]] = fileOf[Planned]

(* Fault: a window grows for as long as the file does not change. *)
JoinsAnySize == windows # << >> /\ SameFile

Joins ==
    /\ windows # << >> /\ SameFile
    /\ current_bytes + blocks[Planned].len <= Budget

NothingToFetch(k) == k \in resident

PlanResident ==
    /\ Planning /\ NothingToFetch(Planned)
    /\ planned' = planned + 1
    /\ UNCHANGED <<inputVars, pc, walkVars, pass1Vars, pass2Vars, ordered,
                   windows, current_bytes, fetched, cursor, merged>>

PlanJoin ==
    /\ Planning /\ ~NothingToFetch(Planned) /\ Joins
    /\ windows' = [windows EXCEPT ![Len(windows)] = Append(@, planned + 1)]
    /\ current_bytes' = current_bytes + blocks[Planned].len
    /\ planned' = planned + 1
    /\ UNCHANGED <<inputVars, pc, walkVars, pass1Vars, pass2Vars, ordered,
                   fetched, cursor, merged>>

PlanCut ==
    /\ Planning /\ ~NothingToFetch(Planned) /\ ~Joins
    /\ windows' = Append(windows, <<planned + 1>>)
    /\ current_bytes' = blocks[Planned].len
    /\ planned' = planned + 1
    /\ UNCHANGED <<inputVars, pc, walkVars, pass1Vars, pass2Vars, ordered,
                   fetched, cursor, merged>>

PlanDone ==
    /\ pc = "plan" /\ planned = Len(ordered)
    /\ pc' = "fetch"
    /\ UNCHANGED <<inputVars, walkVars, pass1Vars, pass2Vars, pass3Vars>>

(* One batched read for the next window; blocks in no window need none. *)
FetchWindow ==
    /\ pc = "fetch" /\ windows # << >>
    /\ fetched' = {ordered[p] : p \in ToSet(Head(windows))}
    /\ pc' = "merge"
    /\ UNCHANGED <<inputVars, walkVars, pass1Vars, pass2Vars, ordered, windows,
                   current_bytes, planned, cursor, merged>>

(* Fault: blocks after the last window are forgotten. *)
ThroughLastWindow ==
    IF windows = << >> THEN cursor ELSE Last(Head(windows))

(* merge_blocks runs through the window's last block, or the queue's. *)
Through == IF windows = << >> THEN Len(ordered) ELSE Last(Head(windows))

(***************************************************************************)
(* queued_block_content takes the block's resident bytes, else the fetched *)
(* ones.  The walk's map of pass 1 keeps its own clone of the block until  *)
(* the scan ends, so `resident` does not shrink here: see Held.            *)
(***************************************************************************)
MergeBlock ==
    LET b == ordered[cursor + 1]
    IN  /\ pc = "merge" \/ (pc = "fetch" /\ windows = << >>)
        /\ cursor < Through
        /\ b \in resident \cup fetched
        /\ merged' = Append(merged, b)
        /\ fetched' = fetched \ {b}
        /\ cursor' = cursor + 1
        /\ UNCHANGED <<inputVars, pc, walkVars, pass1Vars, pass2Vars, ordered,
                       windows, current_bytes, planned>>

(* Fault: the plan does not advance. *)
WindowRepeats ==
    /\ pc = "merge" /\ cursor = Through
    /\ fetched' = {}
    /\ pc' = "fetch"
    /\ UNCHANGED <<inputVars, walkVars, pass1Vars, pass2Vars, ordered, windows,
                   current_bytes, planned, cursor, merged>>

WindowDone ==
    /\ pc = "merge" /\ cursor = Through
    /\ fetched' = {}
    /\ windows' = Tail(windows)
    /\ pc' = "fetch"
    /\ UNCHANGED <<inputVars, walkVars, pass1Vars, pass2Vars, ordered,
                   current_bytes, planned, cursor, merged>>

MergeDone ==
    /\ pc = "fetch" /\ windows = << >> /\ cursor = Through
    /\ pc' = "done"
    /\ UNCHANGED <<inputVars, walkVars, pass1Vars, pass2Vars, pass3Vars>>

(***************************************************************************)
(* A storage error during the walk or a fetch, an instant the range cannot *)
(* parse, an undecodable block or a failing record buffer ends the scan    *)
(* with an error and no result.                                            *)
(***************************************************************************)
ScanFails ==
    /\ \/ pc = "walk" /\ file > 0
       \/ pc \in {"pass1", "fetch", "merge"}
    /\ pc' = "failed"
    /\ UNCHANGED <<inputVars, walkVars, pass1Vars, pass2Vars, pass3Vars>>

Walk == OpenLogFile \/ (\E keep \in BOOLEAN : ReadBlockHeader(keep)) \/ WalkDone
ForwardScanPass1 == KeepBlock \/ ApplyRollback \/ SkipBlock \/ Pass1Done
ReverseScanPass2 == NoteCompaction \/ EnqueueInstant \/ SkipIncluded
FetchAndMergeWindows ==
    \/ FinishWithoutMerging \/ StartPass3
    \/ PlanResident \/ PlanJoin \/ PlanCut \/ PlanDone
    \/ FetchWindow \/ MergeBlock \/ WindowDone \/ MergeDone

ScanStep == Walk \/ ForwardScanPass1 \/ ReverseScanPass2 \/ FetchAndMergeWindows

(* The scan has returned to its caller. *)
Returned == pc \in {"done", "failed"} /\ UNCHANGED vars

Next == ScanStep \/ ScanFails \/ Returned

(* The task running the scan is scheduled until it returns. *)
Spec == Init /\ [][Next]_vars /\ WF_vars(ScanStep)
-----------------------------------------------------------------------------
(* Properties. *)

Idx == 1 .. Len(blocks)
PCs == {"walk", "pass1", "pass2", "plan", "fetch", "merge", "done", "failed"}

InputTypes ==
    /\ files \in [1 .. NumFiles -> Seq(LogBlock)]
    /\ req \in [latest : Instants, gate : CompletionGate,
                range : SUBSET Instants, skip : BOOLEAN]

WalkTypes ==
    /\ file \in 0 .. NumFiles /\ limit \in Nat /\ at \in 0 .. limit
    /\ IF file = 0 THEN limit = 0 ELSE limit = Len(files[file])
    /\ blocks \in Seq(LogBlock)
    /\ fileOf \in Seq(1 .. NumFiles) /\ Len(fileOf) = Len(blocks)
    /\ residentBudget \in Nat
    /\ resident \subseteq Idx

Pass1Types ==
    /\ scanned \in 0 .. Len(blocks)
    /\ ordered_instants_list \in Seq(Instants)
    /\ instant_to_blocks_map \in [Instants -> Seq(Idx)]
    /\ total_corrupt_blocks \in Nat /\ total_rollbacks \in Nat

Pass2Types ==
    /\ togo \in 0 .. Len(ordered_instants_list)
    /\ compactionOf \in [Instants -> Instants \cup {NoInstant}]
    /\ current_instant_log_blocks \in Seq(Idx)
    /\ instant_times_included \subseteq Instants
    /\ valid_block_instants \in Seq(Instants)

Pass3Types ==
    /\ ordered \in Seq(Idx)
    /\ windows \in Seq(Seq(DOMAIN ordered))
    /\ \A w \in DOMAIN windows : windows[w] # << >>
    /\ current_bytes \in Nat /\ planned \in 0 .. Len(ordered)
    /\ fetched \subseteq Idx
    /\ cursor \in 0 .. Len(ordered)
    /\ merged \in Seq(Idx)

(* Every variable has the type its Rust counterpart declares. *)
TypeOK ==
    /\ pc \in PCs
    /\ InputTypes /\ WalkTypes /\ Pass1Types /\ Pass2Types /\ Pass3Types

(* Block k is cancelled by a rollback command among the first n blocks. *)
RolledBackBy(k, n) ==
    \E j \in (k + 1) .. n :
        RollsBack(blocks[j]) /\ blocks[j].target = blocks[k].instant

Surviving(k, n) == Admitted(blocks[k]) /\ ~RolledBackBy(k, n)

(* The blocks among the first n that speak for instant i. *)
SurvivorsOf(i, n) ==
    {k \in 1 .. n : blocks[k].instant = i /\ Surviving(k, n)}

(***************************************************************************)
(* forward_scan_pass1 computes, block by block, exactly the declarative    *)
(* meaning of the gates: a swept block is in the map iff it passes every   *)
(* gate and no later rollback block names its instant, so an instant       *)
(* written again after its rollback keeps only its later blocks.  Blocks   *)
(* of an instant stay in file order.                                       *)
(***************************************************************************)
Pass1Exact ==
    /\ \A i \in Instants :
         ToSet(instant_to_blocks_map[i]) = SurvivorsOf(i, scanned)
    /\ \A i \in Instants : \A m, n \in DOMAIN instant_to_blocks_map[i] :
         m < n => instant_to_blocks_map[i][m] < instant_to_blocks_map[i][n]

(***************************************************************************)
(* ordered_instants_list names exactly the instants that still have blocks *)
(* in the map, each once ("no duplicates"), by their first such block.     *)
(***************************************************************************)
ListMatchesMap ==
    /\ ToSet(ordered_instants_list) =
         {i \in Instants : instant_to_blocks_map[i] # << >>}
    /\ \A m, n \in DOMAIN ordered_instants_list :
         m < n => Head(instant_to_blocks_map[ordered_instants_list[m]])
                    < Head(instant_to_blocks_map[ordered_instants_list[n]])

(***************************************************************************)
(* Invariants 1 and 3 of reverse_scan_pass2: the set and the list of       *)
(* queued instants agree, and no instant is queued twice.                  *)
(***************************************************************************)
QueuedOnce ==
    /\ ToSet(valid_block_instants) = instant_times_included
    /\ IsInjective(valid_block_instants)

(***************************************************************************)
(* Nothing rejected by a gate or cancelled by a rollback command anywhere  *)
(* in the log reaches the record buffer, and no block reaches it twice.    *)
(***************************************************************************)
MergedOnlySurvivors ==
    /\ \A p \in DOMAIN merged : Surviving(merged[p], Len(blocks))
    /\ IsInjective(merged)

-----------------------------------------------------------------------------
(* What the log says about compaction, over the survivors of pass 1. *)

Survivors == {i \in Instants : instant_to_blocks_map[i] # << >>}
CompactedBy(c) == blocks[Head(instant_to_blocks_map[c])].compacted
Ordinary == {i \in Survivors : CompactedBy(i) = {}}

(* S holds what c compacted and what the compactions in S compacted in turn. *)
ClosedFor(c, S) ==
    /\ CompactedBy(c) \subseteq S
    /\ \A x \in S \cap Survivors : CompactedBy(x) \subseteq S

(***************************************************************************)
(* The instants whose writes c carries: those it compacted, and those that *)
(* the compactions among them carry in turn, and no others.                *)
(***************************************************************************)
StandsFor(c) ==
    {i \in Instants : \A S \in SUBSET Instants : ClosedFor(c, S) => i \in S}

(***************************************************************************)
(* How Hudi writers compact: no instant goes into two compactions, and a   *)
(* compaction is appended after the instants it compacts.                  *)
(***************************************************************************)
CompactionsInOrder ==
    /\ \A c, d \in Survivors : CompactedBy(c) \cap CompactedBy(d) # {} => c = d
    /\ \A c \in Survivors : \A x \in CompactedBy(c) \cap Survivors :
         Head(instant_to_blocks_map[x]) < Head(instant_to_blocks_map[c])

Merging == pc \in {"plan", "fetch", "merge", "done"}

(***************************************************************************)
(* Log compaction resolution neither loses nor repeats a write: once pass  *)
(* 2 is over every surviving ordinary instant is queued exactly once,      *)
(* itself or through the outermost compaction that stands for it.          *)
(***************************************************************************)
RepresentedOnce ==
    Merging /\ CompactionsInOrder =>
        \A i \in Ordinary :
            Cardinality({c \in instant_times_included :
                            c = i \/ i \in StandsFor(c)}) = 1

(* Log position an instant's blocks take in the merge. *)
Rank(i) ==
    IF i \in Ordinary THEN Head(instant_to_blocks_map[i])
    ELSE Max({Head(instant_to_blocks_map[o]) : o \in StandsFor(i) \cap Ordinary})

(***************************************************************************)
(* Invariant 4 of reverse_scan_pass2, through windows and fetches: the     *)
(* record buffer sees instants in log order, a compaction in the place of  *)
(* the newest instant it stands for, and an instant's blocks in file       *)
(* order, whatever blocks were resident and however windows were cut.      *)
(***************************************************************************)
OldestFirst ==
    merged # << >> /\ CompactionsInOrder =>
        LET rank == [i \in instant_times_included |-> Rank(i)]
        IN  \A m, n \in DOMAIN merged :
                LET i == blocks[merged[m]].instant
                    j == blocks[merged[n]].instant
                IN  m < n => \/ i # j /\ rank[i] < rank[j]
                             \/ i = j /\ merged[m] < merged[n]

(* A finished scan handed over the whole queue: every block of every valid instant. *)
NothingLeftOut ==
    pc = "done" /\ ~req.skip =>
        ToSet(merged) =
            UNION {ToSet(instant_to_blocks_map[i]) : i \in instant_times_included}

-----------------------------------------------------------------------------
(* Content residency. *)

Bytes(S) == MapThenSumSet(LAMBDA k : blocks[k].len, S)

(***************************************************************************)
(* Walk bytes still referenced: of blocks not yet swept, and of blocks in  *)
(* the map of pass 1, which lives until scan_internal returns and holds    *)
(* its own clone of every block pass 2 queued.                             *)
(***************************************************************************)
Held ==
    IF pc \in {"done", "failed"} THEN {}
    ELSE {k \in resident : \/ k > scanned
                           \/ k \in ToSet(instant_to_blocks_map[blocks[k].instant])}

(***************************************************************************)
(* Whatever the number of files and blocks, the scan holds at most one     *)
(* budget of walk bytes plus one window of fetched bytes, the window being *)
(* within the budget or a single block.  What it holds is also enough: the *)
(* error branch of queued_block_content, a queued block without bytes, is  *)
(* never taken.                                                            *)
(***************************************************************************)
ResidencyBound ==
    /\ Bytes(Held) <= Budget
    /\ Bytes(fetched) <= Budget \/ Cardinality(fetched) = 1
    /\ (pc = "merge" \/ (pc = "fetch" /\ windows = << >>)) /\ cursor < Through
          => ordered[cursor + 1] \in resident \cup fetched

(* The scan always returns, with a result or an error. *)
ScanReturns == <>(pc \in {"done", "failed"})
=============================================================================
