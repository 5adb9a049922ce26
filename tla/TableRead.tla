----------------------------- MODULE TableRead -----------------------------
(***************************************************************************)
(* Concurrent reads of one Table and its clones.  They share the cells     *)
(* that hold the metadata table and the size estimator, and the map from   *)
(* partitions to file groups in the file-system view.  A read fills that   *)
(* map partition by partition, collects its slices out of it, and reads    *)
(* them, either a chunk at a time within a memory budget or one after the  *)
(* other as a stream.  A caller may drop a read at any await.              *)
(***************************************************************************)
EXTENDS Integers, Sequences, SequencesExt, FiniteSets, FiniteSetsExt

CONSTANTS Readers,       \* concurrent calls of read or read_stream
          Partitions,
          Groups,        \* file groups of the table
          PartitionOf,   \* [Groups -> Partitions]
          LogBytes,      \* [Groups -> Nat], log bytes of its latest slice
          Requests,      \* what a read may be asked for, see below
          HasBudget, Budget, Ceiling, WorkingSet, LogExpansion,
          Faults,        \* whether storage may fail
          Cancels        \* whether callers drop reads

(* A request names the partitions its filters leave, the groups that have  *)
(* a slice at its timestamp, those replace commits exclude by then, those  *)
(* whose statistics match its filters, those the listing gave no log sizes *)
(* for, and whether it reads base files only and whether it streams.       *)
ASSUME TableReadAssumption ==
    /\ IsFiniteSet(Groups)
    /\ PartitionOf \in [Groups -> Partitions]
    /\ LogBytes \in [Groups -> Nat]
    /\ \A q \in Requests :
          /\ q.parts \subseteq Partitions
          /\ {q.sliced, q.replaced, q.matching, q.unsized}
                \subseteq SUBSET Groups
          /\ {q.baseOnly, q.stream} \subseteq BOOLEAN
    /\ {HasBudget, Faults, Cancels} \subseteq BOOLEAN
    /\ {Budget, WorkingSet, LogExpansion} \subseteq Nat
    /\ Ceiling \in Nat

Cells == {"metadata", "estimator"}

VARIABLES
    pc,        \* where each read stands
    request,   \* what it was asked for
    cell,      \* OnceCell: "empty", "ready", or the reader filling it
    view,      \* partition_to_file_groups, shared by all
    toLoad,    \* partitions it still has to load
    toCollect, \* partitions it still has to collect from
    slices,    \* what it collected, in order
    read,      \* slices handed out or collected so far, in order
    running,   \* slices in flight
    finished   \* slices of this chunk that are done

vars == <<pc, request, cell, view, toLoad, toCollect, slices, read,
          running, finished>>

table == <<cell, view>>

Init ==
    /\ pc = [r \in Readers |-> "metadata"]
    /\ request \in [Readers -> Requests]
    /\ cell = [c \in Cells |-> "empty"]
    /\ view = [p \in Partitions |-> {}]
    /\ toLoad = [r \in Readers |-> {}]
    /\ toCollect = [r \in Readers |-> {}]
    /\ slices = [r \in Readers |-> << >>]
    /\ read = [r \in Readers |-> << >>]
    /\ running = [r \in Readers |-> {}]
    /\ finished = [r \in Readers |-> {}]

Goto(r, label) == pc' = [pc EXCEPT ![r] = label]

----------------------------------------------------------------------------
(* The shared cells.  One caller fills an empty cell while others wait; a  *)
(* fill that fails leaves the cell empty, and the next waiter tries.       *)

After(c) == IF c = "metadata" THEN "estimator" ELSE "list"

StartFilling(r, c) ==
    /\ pc[r] = c
    /\ cell[c] = "empty"
    /\ cell' = [cell EXCEPT ![c] = r]
    /\ UNCHANGED <<pc, request, view, toLoad, toCollect, slices,
                   read, running, finished>>

Fill(r, c) ==
    /\ pc[r] = c
    /\ cell[c] = r
    /\ cell' = [cell EXCEPT ![c] = "ready"]
    /\ UNCHANGED <<pc, request, view, toLoad, toCollect, slices,
                   read, running, finished>>

(* Fault: a fill that fails keeps its permit.                              *)
ReleaseNever(r) == cell

(* A fill that fails, or is dropped, gives its permit to the next.         *)
Release(r) == [c \in Cells |-> IF cell[c] = r THEN "empty" ELSE cell[c]]

(* The read goes on without: it lists from storage, or has no estimates.   *)
FillFails(r, c) ==
    /\ Faults
    /\ pc[r] = c
    /\ cell[c] = r
    /\ cell' = Release(r)
    /\ Goto(r, After(c))
    /\ UNCHANGED <<request, view, toLoad, toCollect, slices, read,
                   running, finished>>

UseCell(r, c) ==
    /\ pc[r] = c
    /\ cell[c] = "ready"
    /\ Goto(r, After(c))
    /\ UNCHANGED <<request, table, toLoad, toCollect, slices, read, running,
                   finished>>

(* No commit names a base file to sample, or it is not Parquet.            *)
NoSample(r) ==
    /\ pc[r] = "estimator"
    /\ cell["estimator"] # r
    /\ Goto(r, "list")
    /\ UNCHANGED <<request, table, toLoad, toCollect, slices, read,
                   running, finished>>

----------------------------------------------------------------------------
(* Filling and reading the view.                                           *)

GroupsIn(p) == {g \in Groups : PartitionOf[g] = p}

List(r) ==
    /\ pc[r] = "list"
    /\ toLoad' = [toLoad EXCEPT ![r] = request[r].parts]
    /\ Goto(r, "load")
    /\ UNCHANGED <<request, table, toCollect, slices, read, running,
                   finished>>

(* Fault: footers prune although log files may hold what matches.          *)
PrunesAlways(r) == TRUE

(* Footers say nothing about log files: only base-file reads prune.        *)
Prunes(r) == request[r].baseOnly

(* What is pruned are groups with a slice at the time of the read, also    *)
(* those a replace commit excludes; a footer that cannot be read prunes    *)
(* nothing.                                                                *)
Retained(r, p, unreadable) ==
    {g \in GroupsIn(p) : Prunes(r) /\ g \in request[r].sliced =>
                             g \in request[r].matching \cup unreadable}

LoadPartition(r) ==
    /\ pc[r] = "load"
    /\ \E p \in toLoad[r], unreadable \in IF Faults THEN SUBSET Groups
                                          ELSE {{}} :
          /\ unreadable \subseteq GroupsIn(p)
          /\ view' = [view EXCEPT ![p] = Retained(r, p, unreadable)]
          /\ toLoad' = [toLoad EXCEPT ![r] = @ \ {p}]
    /\ UNCHANGED <<pc, request, cell, toCollect, slices, read,
                   running, finished>>

StartCollecting(r) ==
    /\ pc[r] = "load"
    /\ toLoad[r] = {}
    /\ toCollect' = [toCollect EXCEPT ![r] = request[r].parts]
    /\ Goto(r, "collect")
    /\ UNCHANGED <<request, table, toLoad, slices, read, running,
                   finished>>

(* Groups a replace commit excludes, or without a slice yet, are skipped.  *)
Visible(r) == request[r].sliced \ request[r].replaced

CollectPartition(r) ==
    /\ pc[r] = "collect"
    /\ \E p \in toCollect[r] :
          /\ slices' = [slices EXCEPT ![r] =
                            @ \o SetToSeq(view[p] \cap Visible(r))]
          /\ toCollect' = [toCollect EXCEPT ![r] = @ \ {p}]
    /\ UNCHANGED <<pc, request, table, toLoad, read, running,
                   finished>>

StartReading(r) ==
    /\ pc[r] = "collect"
    /\ toCollect[r] = {}
    /\ Goto(r, IF request[r].stream THEN "stream" ELSE "read")
    /\ UNCHANGED <<request, table, toLoad, toCollect, slices, read,
                   running, finished>>

----------------------------------------------------------------------------
(* Reading the slices.                                                     *)

(* A read of base files has dropped the log files of its slices.           *)
SliceLogBytes(r, g) == IF request[r].baseOnly THEN 0 ELSE LogBytes[g]
Unsized(r) == IF request[r].baseOnly THEN {} ELSE request[r].unsized

EstimatedBytes(r, g) == WorkingSet + LogExpansion * SliceLogBytes(r, g)
AtLeastOne(n) == IF n < 1 THEN 1 ELSE n
Least(a, b) == IF a < b THEN a ELSE b

(* Fault: the cheapest slice stands for all of them.                       *)
PerSliceCheapest(r) == Min({EstimatedBytes(r, g) : g \in ToSet(slices[r])})

PerSlice(r) == Max({EstimatedBytes(r, g) : g \in ToSet(slices[r])})

SlicesInFlight(r) ==
    IF ~HasBudget THEN AtLeastOne(Ceiling)
    ELSE IF ToSet(slices[r]) \cap Unsized(r) # {} THEN 1
    ELSE Least(AtLeastOne(Budget \div AtLeastOne(PerSlice(r))),
               AtLeastOne(Ceiling))

Rest(r) == SubSeq(slices[r], Len(read[r]) + 1, Len(slices[r]))
Chunk(r) ==
    SubSeq(Rest(r), 1, Least(SlicesInFlight(r), Len(Rest(r))))

(* try_join_all starts every future of a chunk.                            *)
StartChunk(r) ==
    /\ pc[r] = "read"
    /\ running[r] = {} /\ finished[r] = {}
    /\ Rest(r) # << >>
    /\ running' = [running EXCEPT ![r] = ToSet(Chunk(r))]
    /\ UNCHANGED <<pc, request, table, toLoad, toCollect, slices,
                   read, finished>>

(* The results of a chunk are kept in the order of its slices.             *)
SliceDone(r) ==
    /\ pc[r] = "read"
    /\ \E g \in running[r] :
          LET left == running[r] \ {g}
          IN  /\ running' = [running EXCEPT ![r] = left]
              /\ finished' = [finished EXCEPT ![r] =
                                  IF left = {} THEN {} ELSE @ \cup {g}]
              /\ read' = IF left = {}
                         THEN [read EXCEPT ![r] = @ \o Chunk(r)] ELSE read
    /\ UNCHANGED <<pc, request, table, toLoad, toCollect, slices>>

(* Fault: a slice that fails is left out of the result.                    *)
SliceFailsQuietly(r) ==
    /\ Faults
    /\ pc[r] = "read"
    /\ \E g \in running[r] :
          /\ running' = [running EXCEPT ![r] = {}]
          /\ finished' = [finished EXCEPT ![r] = {}]
          /\ slices' = [slices EXCEPT ![r] = SelectSeq(@, LAMBDA s : s # g)]
    /\ UNCHANGED <<pc, request, table, toLoad, toCollect, read>>

(* The first error ends the read; what else is in flight is dropped.       *)
SliceFails(r) ==
    /\ Faults
    /\ pc[r] = "read"
    /\ running[r] # {}
    /\ running' = [running EXCEPT ![r] = {}]
    /\ finished' = [finished EXCEPT ![r] = {}]
    /\ Goto(r, "failed")
    /\ UNCHANGED <<request, table, toLoad, toCollect, slices, read>>

ReadEnds(r) ==
    /\ pc[r] = "read"
    /\ running[r] = {} /\ Rest(r) = << >>
    /\ Goto(r, "done")
    /\ UNCHANGED <<request, table, toLoad, toCollect, slices, read,
                   running, finished>>

(* The stream opens one slice after the other.  A slice that fails is an   *)
(* item of the stream too, kept in finished, and the stream goes on.       *)
StreamNext(r) ==
    /\ pc[r] = "stream"
    /\ Rest(r) # << >>
    /\ read' = [read EXCEPT ![r] = Append(@, Head(Rest(r)))]
    /\ \E failed \in IF Faults THEN BOOLEAN ELSE {FALSE} :
          finished' = [finished EXCEPT ![r] =
                           IF failed THEN @ \cup {Head(Rest(r))} ELSE @]
    /\ UNCHANGED <<pc, request, table, toLoad, toCollect, slices,
                   running>>

StreamEnds(r) ==
    /\ pc[r] = "stream"
    /\ Rest(r) = << >>
    /\ Goto(r, "done")
    /\ UNCHANGED <<request, table, toLoad, toCollect, slices, read,
                   running, finished>>

----------------------------------------------------------------------------
Ended == {"done", "failed", "cancelled"}

(* Replaced groups, instants, listings and schemas are read before, while  *)
(* and after slices are listed; an error of any of them fails the read.    *)
ListingFails(r) ==
    /\ Faults
    /\ pc[r] \in {"metadata", "list", "load", "collect"}
    /\ \A c \in Cells : cell[c] # r
    /\ Goto(r, "failed")
    /\ UNCHANGED <<request, table, toLoad, toCollect, slices, read,
                   running, finished>>

(* The caller drops the future or the stream.                              *)
Cancel(r) ==
    /\ Cancels
    /\ pc[r] \notin Ended
    /\ cell' = Release(r)
    /\ running' = [running EXCEPT ![r] = {}]
    /\ finished' = [finished EXCEPT ![r] = {}]
    /\ Goto(r, "cancelled")
    /\ UNCHANGED <<request, view, toLoad, toCollect, slices, read>>

Step(r) ==
    \/ \E c \in Cells : StartFilling(r, c) \/ Fill(r, c) \/ UseCell(r, c)
    \/ List(r) \/ LoadPartition(r) \/ StartCollecting(r)
    \/ CollectPartition(r) \/ StartReading(r)
    \/ StartChunk(r) \/ SliceDone(r) \/ ReadEnds(r)
    \/ StreamNext(r) \/ StreamEnds(r)

Trouble(r) ==
    \/ \E c \in Cells : FillFails(r, c)
    \/ NoSample(r) \/ SliceFails(r) \/ ListingFails(r) \/ Cancel(r)

AllEnded ==
    /\ \A r \in Readers : pc[r] \in Ended
    /\ UNCHANGED vars

Next == (\E r \in Readers : Step(r) \/ Trouble(r)) \/ AllEnded

(* Every read is polled until it ends or is dropped.                       *)
Spec == Init /\ [][Next]_vars /\ \A r \in Readers : WF_vars(Step(r))

----------------------------------------------------------------------------
Asked(r) == {g \in Visible(r) : PartitionOf[g] \in request[r].parts}

(* What it was asked for and its own filter does not rule out.             *)
Needed(r) ==
    {g \in Asked(r) : request[r].baseOnly => g \in request[r].matching}

Complete(r) ==
    pc[r] \in {"read", "stream", "done"} =>
        /\ ToSet(slices[r]) \subseteq Asked(r)
        /\ Needed(r) \subseteq ToSet(slices[r])

(* What a read may take from the view, groups it does not itself collect   *)
(* because they are replaced by its time included.                         *)
MayPrune(s) ==
    {g \in request[s].sliced : /\ request[s].baseOnly
                               /\ PartitionOf[g] \in request[s].parts
                               /\ g \notin request[s].matching}

(* No other read prunes what this one needs.                               *)
Undisturbed(r) == \A s \in Readers \ {r} : Needed(r) \cap MayPrune(s) = {}

(* A read collects slices it was asked for, and none that its own filter   *)
(* did not rule out is missing, however other reads at any time load and   *)
(* collect the same partitions of the shared view, as long as none of them *)
(* prunes a group this one needs.                                          *)
SlicesAsAsked == \A r \in Readers : Undisturbed(r) => Complete(r)

(* The same whatever the other reads prune: a read without filters prunes  *)
(* nothing.                                                                *)
SlicesWhoeverReads == \A r \in Readers : Complete(r)

(* What is in flight stays within the ceiling, and within the budget by    *)
(* the estimates of the very slices in flight; a slice of unknown size,    *)
(* or too large for the budget, is read alone.                             *)
WithinBudget ==
    \A r \in Readers :
        /\ Cardinality(running[r]) <= AtLeastOne(Ceiling)
        /\ HasBudget /\ Cardinality(running[r]) > 1 =>
              /\ running[r] \cap Unsized(r) = {}
              /\ MapThenSumSet(LAMBDA g : EstimatedBytes(r, g), running[r])
                    <= Budget

(* A read that returns has every slice it collected, once, in order, and   *)
(* if no other read disturbed it every one it needs; one that lost a slice *)
(* does not return.  A stream accounts for every slice, in order, be it by *)
(* an error.  Nothing is left in flight.                                   *)
AllOrNothing ==
    \A r \in Readers :
        /\ IsPrefix(read[r], slices[r])
        /\ Cardinality(ToSet(slices[r])) = Len(slices[r])
        /\ pc[r] = "done" => read[r] = slices[r]
        /\ pc[r] = "done" /\ ~request[r].stream /\ Undisturbed(r)
              => Needed(r) \subseteq ToSet(read[r])
        /\ pc[r] \in Ended => running[r] = {}

(* Every read ends, also when the one that was filling a shared cell       *)
(* failed or was dropped.                                                  *)
ReadsEnd == \A r \in Readers : <>(pc[r] \in Ended)
=============================================================================
