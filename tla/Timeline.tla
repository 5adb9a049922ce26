------------------------------ MODULE Timeline ------------------------------
(***************************************************************************)
(* The active timeline as a reader sees it, beside the writers that change *)
(* it: Timeline::new_from_storage, the TimelineView that decides which     *)
(* data files are committed, and the two reads built on them, a snapshot   *)
(* as of an instant and an incremental read of a window.                   *)
(*                                                                         *)
(* Writers, the cleaner and the archiver are not in this repository; their *)
(* actions are the environment, as the reader's code assumes it.  Every    *)
(* commit writes one file group of its own, so a row set is a set of       *)
(* instants.  Instants are clock readings, 1 .. MaxClock.                  *)
(*                                                                         *)
(* A reader opens the table (one listing of the timeline directory) and    *)
(* then issues reads against that loaded timeline.  A read awaits storage  *)
(* up to three times, and the writers move between any two of them:        *)
(*                                                                         *)
(*   open -> groups   the window's commit metadata (incremental reads)     *)
(*        -> view     the replace commits' metadata                        *)
(*        -> list     the data files                                       *)
(***************************************************************************)
EXTENDS Naturals, FiniteSets, Gate

CONSTANTS
    MaxClock,       \* bound on the clock
    MaxRequests,    \* bound on the instants requested
    Layout,         \* timeline layout version: 1, or 2 with completion times
    Actions,        \* actions the writers perform
    KeepCommits,    \* completed commits the archiver leaves active
    Reads,          \* kinds of read the clients make
    AsOf,           \* as-of timestamps asked for
    Windows         \* explicit incremental windows asked for

(* Pending files of these actions carry a name that Action::from_str        *)
(* rejects; they complete under one of the loaded names.                    *)
TableServices == {"compaction"}

ASSUME TimelineAssumption ==
    /\ MaxClock \in Nat
    /\ MaxRequests \in Nat
    /\ Layout \in {1, 2}
    /\ Actions \subseteq {"deltacommit", "replacecommit"} \cup TableServices
    /\ KeepCommits \in Nat \ {0}
    /\ Reads \subseteq {"snapshot", "poll", "window"}
    /\ AsOf \subseteq Nat
    /\ Windows \subseteq [start : Nat, end : Nat]

Times == 1 .. MaxClock

VARIABLES
    (* the table on storage *)
    clock,          \* last timestamp handed out
    instants,       \* what happened to each instant time
    data,           \* instants whose data files are on storage
    (* Timeline, as loaded by the reader *)
    completed_commits,
    pending_instants,
    earliest_active_instant,
    (* the read in progress *)
    pc,
    query,
    (* a consumer that polls incrementally *)
    checkpoint,     \* end of the last window it read
    delivered,      \* instants whose rows it was given
    (* history: the truth when the table was opened *)
    committedThen, archivedThen, pendingThen

storageVars == <<clock, instants, data>>
loadedVars == <<completed_commits, pending_instants, earliest_active_instant>>
consumerVars == <<checkpoint, delivered>>
historyVars == <<committedThen, archivedThen, pendingThen>>
vars == <<storageVars, loadedVars, pc, query, consumerVars, historyVars>>

-----------------------------------------------------------------------------
(* Instants on storage. *)

Instant == [action : Actions \cup {"none"},
            state : {"none", "requested", "inflight", "rollingback",
                     "rolledback", "completed", "archived"},
            completion : 0 .. MaxClock,   \* completion_timestamp
            replaces : SUBSET Times]      \* partitionToReplaceFileIds

Unused == [action |-> "none", state |-> "none", completion |-> 0,
           replaces |-> {}]

InState(S) == {t \in Times : instants[t].state \in S}
PendingStates == {"requested", "inflight", "rollingback"}
Pending == InState(PendingStates)
Completed == InState({"completed"})
Committed == InState({"completed", "archived"})

(* The file groups that commits of S replaced. *)
ReplacedBy(S) == UNION {instants[t].replaces : t \in S}

MinOf(S) == CHOOSE x \in S : \A y \in S : x <= y
MaxOf(S) == CHOOSE x \in S : \A y \in S : y <= x
Sub1(t) == IF t = 0 THEN 0 ELSE t - 1

-----------------------------------------------------------------------------
(* Writers, cleaner and archiver. *)

(* A writer takes the next timestamp and requests an instant. *)
Request(a) ==
    /\ clock < MaxClock
    /\ Cardinality({t \in Times : instants[t] # Unused}) < MaxRequests
    /\ clock' = clock + 1
    /\ instants' = [instants EXCEPT ![clock + 1] =
                      [Unused EXCEPT !.action = a, !.state = "requested"]]
    /\ UNCHANGED <<data, loadedVars, pc, query, consumerVars, historyVars>>

(* It goes inflight and its data files appear; a replace commit rewrites    *)
(* one committed file group that nothing has replaced or is replacing.      *)
Replaceable(t) ==
    {r \in Completed \cap data : r < t} \ ReplacedBy(Pending \cup Committed)

WriteData(t) ==
    /\ instants[t].state = "requested"
    /\ \E R \in IF instants[t].action = "replacecommit"
               THEN {{r} : r \in Replaceable(t)} ELSE {{}} :
         instants' = [instants EXCEPT ![t].state = "inflight",
                                      ![t].replaces = R]
    /\ data' = data \cup {t}
    /\ UNCHANGED <<clock, loadedVars, pc, query, consumerVars, historyVars>>

(* The completed file is created, named after a fresh timestamp. *)
Complete(t) ==
    /\ instants[t].state = "inflight"
    /\ clock < MaxClock
    /\ clock' = clock + 1
    /\ instants' = [instants EXCEPT ![t].state = "completed",
                                    ![t].completion = clock + 1]
    /\ UNCHANGED <<data, loadedVars, pc, query, consumerVars, historyVars>>

(* A failed write is rolled back: its data goes before its timeline files. *)
RollbackData(t) ==
    /\ instants[t].state \in {"requested", "inflight"}
    /\ instants' = [instants EXCEPT ![t].state = "rollingback",
                                    ![t].replaces = {}]
    /\ data' = data \ {t}
    /\ UNCHANGED <<clock, loadedVars, pc, query, consumerVars, historyVars>>

RollbackInstant(t) ==
    /\ instants[t].state = "rollingback"
    /\ instants' = [instants EXCEPT ![t].state = "rolledback"]
    /\ UNCHANGED <<clock, data, loadedVars, pc, query, consumerVars, historyVars>>

(* The cleaner removes a file group that a completed commit replaced. *)
Clean(t) ==
    /\ t \in data \cap ReplacedBy(Completed)
    /\ data' = data \ {t}
    /\ UNCHANGED <<clock, instants, loadedVars, pc, query, consumerVars, historyVars>>

(* The archiver moves the oldest completed commit off the active timeline:  *)
(* never past the oldest pending instant, and a replace commit only after   *)
(* the file groups it replaced are gone.                                    *)
Archive(t) ==
    /\ t \in Completed
    /\ \A s \in Pending \cup Completed : t <= s
    /\ Cardinality(Completed) > KeepCommits
    /\ instants[t].replaces \cap data = {}
    /\ instants' = [instants EXCEPT ![t].state = "archived"]
    /\ UNCHANGED <<clock, data, loadedVars, pc, query, consumerVars, historyVars>>

Writer ==
    \/ \E a \in Actions : Request(a)
    \/ \E t \in Times :
         \/ WriteData(t)
         \/ Complete(t)
         \/ RollbackData(t)
         \/ RollbackInstant(t)
         \/ Clean(t)
         \/ Archive(t)

-----------------------------------------------------------------------------
(* Opening the table. *)

(* One listing of the timeline directory.  An active instant is listed once *)
(* per state it reached, so a completed one also lists as pending; a file   *)
(* whose action does not parse is dropped by try_create_instant.            *)
ListedPending ==
    {t \in Pending \cup Completed : instants[t].action \notin TableServices}
ListedCompleted == Completed
ListedActive == ListedPending \cup ListedCompleted

(* Fault: the boundary taken over completed instants alone. *)
EarliestCompleted ==
    IF ListedCompleted = {} THEN NoInstant ELSE MinOf(ListedCompleted)

(* The archival boundary is taken over every state. *)
EarliestActive ==
    IF ListedActive = {} THEN NoInstant ELSE MinOf(ListedActive)

(* Fault: a completed instant's requested and inflight files left in. *)
NotSubtracted == ListedPending

NotCompleted == ListedPending \ ListedCompleted

(* Timeline::new_from_storage. *)
Open ==
    /\ pc \in {"closed", "open"}
    /\ completed_commits' = ListedCompleted
    /\ pending_instants' = NotCompleted
    /\ earliest_active_instant' = EarliestActive
    /\ pc' = "open"
    /\ committedThen' = Committed
    /\ archivedThen' = InState({"archived"})
    /\ pendingThen' = Pending
    /\ UNCHANGED <<storageVars, query, consumerVars>>

-----------------------------------------------------------------------------
(* What the loaded timeline says of an instant. *)

(* TimelineView::is_committed. *)
IsCommitted(t) ==
    \/ t \in completed_commits
    \/ earliest_active_instant # NoInstant /\ t < earliest_active_instant

(* Timeline::completion_gate_inputs, handed out below table version 8. *)
GateInputs == [armed |-> Layout = 1,
               completed |-> completed_commits,
               inflight |-> pending_instants,
               boundary |-> earliest_active_instant]

(* TimelineSelector::select over the loaded commits, bounds (start, end]. *)
SelectByRequestedTime(start, end) ==
    {t \in completed_commits : start < t /\ t <= end}

(* Fault: the window closed at its start. *)
SelectFromStart(start, end) ==
    {t \in completed_commits : /\ start <= instants[t].completion
                               /\ instants[t].completion <= end}

SelectByCompletionTime(start, end) ==
    {t \in completed_commits : /\ start < instants[t].completion
                               /\ instants[t].completion <= end}

(* Fault: an incremental window ranged on requested times. *)
RequestedInRange(start, end) == SelectByRequestedTime(start, end)

(* get_completed_commits_in_range: what an incremental window bounds. *)
CommitsInRange(start, end) ==
    IF Layout = 2 THEN SelectByCompletionTime(start, end)
                  ELSE SelectByRequestedTime(start, end)

(* get_latest_commit_timestamp_as_option, where there is a commit. *)
LatestCommit == MaxOf(completed_commits)

(* Fault: the window's end defaulting to the latest requested time. *)
LatestRequested == LatestCommit

(* get_latest_completion_timestamp_as_option, where there is a commit. *)
LatestCompletion ==
    IF Layout = 2 THEN MaxOf({instants[t].completion : t \in completed_commits})
                  ELSE LatestCommit

-----------------------------------------------------------------------------
(* Reads. *)

NoQuery == [kind |-> "none", start |-> 0, end |-> 0, from |-> 0, to |-> 0,
            admitted |-> {}, touched |-> {}, excluding |-> {}]

(* A snapshot as of ts: there are no range commits to look up. *)
StartSnapshot(ts) ==
    /\ pc = "open"
    /\ pc' = "view"
    /\ query' = [NoQuery EXCEPT !.kind = "snapshot", !.to = ts]
    /\ UNCHANGED <<storageVars, loadedVars, consumerVars, historyVars>>

(* Fault: the bound is not stepped down. *)
InstantTimeItself(t) == t

(* instant_time_minus_one: the start bound is exclusive. *)
InstantTimeMinusOne(t) == Sub1(t)

(* resolve_incremental_window re-expresses the bounds over the requested    *)
(* times of the commits it admits.                                          *)
WindowFrom(start, A) == IF A = {} THEN start ELSE InstantTimeMinusOne(MinOf(A))
WindowTo(end, A) == IF A = {} THEN end ELSE MaxOf(A)

StartIncremental(kind, start, end) ==
    LET A == CommitsInRange(start, end)
    IN  /\ pc = "open"
        /\ pc' = "groups"
        /\ query' = [NoQuery EXCEPT
                       !.kind = kind, !.start = start, !.end = end,
                       !.admitted = A,
                       !.from = WindowFrom(start, A), !.to = WindowTo(end, A)]
        /\ UNCHANGED <<storageVars, loadedVars, consumerVars, historyVars>>

(* resolve_snapshot_timestamp: the caller's as-of, or the latest commit. *)
Snapshot ==
    /\ "snapshot" \in Reads
    /\ \/ \E ts \in AsOf : StartSnapshot(ts)
       \/ completed_commits # {} /\ StartSnapshot(LatestCommit)

(* resolve_incremental_range: the end defaults to the latest completion. *)
Poll ==
    /\ "poll" \in Reads
    /\ completed_commits # {}
    /\ StartIncremental("poll", checkpoint, LatestCompletion)

ReadWindow ==
    /\ "window" \in Reads
    /\ \E w \in Windows : StartIncremental("window", w.start, w.end)

(* A commit's metadata is read from the active timeline's own file. *)
MetadataThere(S) == \A t \in S : instants[t].state = "completed"

(* get_file_groups_between, on requested time. *)
RangeCommits == SelectByRequestedTime(query.from, query.to)

TouchGroups ==
    /\ pc = "groups"
    /\ MetadataThere(RangeCommits)
    /\ query' = [query EXCEPT !.touched = RangeCommits \ ReplacedBy(RangeCommits)]
    /\ pc' = "view"
    /\ UNCHANGED <<storageVars, loadedVars, consumerVars, historyVars>>

(* create_view_as_of reads the replace commits up to the read's end. *)
ReplaceCommits ==
    {t \in completed_commits :
       t <= query.to /\ instants[t].action = "replacecommit"}

BuildView ==
    /\ pc = "view"
    /\ MetadataThere(ReplaceCommits)
    /\ query' = [query EXCEPT !.excluding = ReplacedBy(ReplaceCommits)]
    /\ pc' = "list"
    /\ UNCHANGED <<storageVars, loadedVars, consumerVars, historyVars>>

(* The metadata of a commit the loaded timeline names was archived since. *)
ReadFails ==
    /\ \/ pc = "groups" /\ ~MetadataThere(RangeCommits)
       \/ pc = "view" /\ ~MetadataThere(ReplaceCommits)
    /\ pc' = "open"
    /\ query' = NoQuery
    /\ UNCHANGED <<storageVars, loadedVars, consumerVars, historyVars>>

(* The slices live at query.to, from the files listed now. *)
SliceFiles ==
    {t \in data \ query.excluding : t <= query.to /\ IsCommitted(t)}

(* An incremental read keeps the slices its commits touched, and of their   *)
(* rows those whose commit time is a member of the admitted set.            *)
Rows ==
    IF query.kind = "snapshot" THEN SliceFiles
                               ELSE SliceFiles \cap query.touched \cap query.admitted

(* A consumer moves its checkpoint once the read has returned. *)
ListFiles ==
    /\ pc = "list"
    /\ pc' = "open"
    /\ query' = NoQuery
    /\ IF query.kind = "poll"
       THEN /\ checkpoint' = query.end
            /\ delivered' = delivered \cup Rows
       ELSE UNCHANGED consumerVars
    /\ UNCHANGED <<storageVars, loadedVars, historyVars>>

Reader ==
    \/ Open \/ Snapshot \/ Poll \/ ReadWindow
    \/ TouchGroups \/ BuildView \/ ListFiles \/ ReadFails

Init ==
    /\ clock = 0
    /\ instants = [t \in Times |-> Unused]
    /\ data = {}
    /\ completed_commits = {} /\ pending_instants = {}
    /\ earliest_active_instant = NoInstant
    /\ pc = "closed"
    /\ query = NoQuery
    /\ checkpoint = 0 /\ delivered = {}
    /\ committedThen = {} /\ archivedThen = {} /\ pendingThen = {}

Next == Writer \/ Reader

Spec == Init /\ [][Next]_vars

(* A consumer that keeps reopening the table and polling it, whatever other *)
(* reads it makes in between; storage answers every request.  Writers may   *)
(* stop at any point.                                                       *)
Polling ==
    /\ SF_vars(Open) /\ SF_vars(Poll)
    /\ WF_vars(TouchGroups \/ BuildView \/ ListFiles \/ ReadFails)

PollingSpec == Spec /\ Polling

-----------------------------------------------------------------------------
(* Types of the variables, window bounds that have not wrapped below zero,  *)
(* and loaded instants that were handed out before the load.                *)
TypeOK ==
    /\ clock \in 0 .. MaxClock
    /\ instants \in [Times -> Instant]
    /\ data \subseteq Times
    /\ completed_commits \subseteq 1 .. clock
    /\ pending_instants \subseteq 1 .. clock
    /\ earliest_active_instant \in 0 .. clock
    /\ pc \in {"closed", "open", "groups", "view", "list"}
    /\ query \in [kind : {"none", "snapshot", "poll", "window"},
                  start : Nat, end : Nat, from : Nat, to : Nat,
                  admitted : SUBSET completed_commits,
                  touched : SUBSET completed_commits,
                  excluding : SUBSET Times]
    /\ checkpoint \in 0 .. clock
    /\ delivered \subseteq Times
    /\ committedThen \subseteq Times
    /\ archivedThen \subseteq Times
    /\ pendingThen \subseteq Times

(* A snapshot returns the rows of exactly the commits that were committed   *)
(* when the table was opened, at or before its timestamp and not replaced   *)
(* by one of them, however far the writers have moved since: no row of a    *)
(* pending or rolled-back write is let in by the archival boundary, and no  *)
(* archived commit is taken for an unfinished one                           *)
(* (TimelineView::is_committed, create_view_as_of).                         *)
SnapshotExact ==
    pc = "list" /\ query.kind = "snapshot" =>
        LET Seen == {t \in committedThen : t <= query.to}
        IN  Rows = (data \cap Seen) \ ReplacedBy(Seen)

(* The completion gate agrees with the timeline it was filled from: a log   *)
(* block of an instant with data is admitted iff that instant was committed *)
(* when the table was opened (Timeline::completion_gate_inputs).            *)
GateExact ==
    pc # "closed" /\ GateInputs.armed /\ completed_commits # {} =>
        \A t \in data : GateAdmits(GateInputs, t) <=> t \in committedThen

(* An incremental read of (start, end] returns the rows of exactly the      *)
(* active commits whose completion time (requested time on layout 1) lies   *)
(* in the window, minus file groups a commit has replaced: the translation  *)
(* to requested-time bounds loses none of them and lets nothing else in     *)
(* (Table::resolve_incremental_window).                                     *)
WindowExact ==
    pc = "list" /\ query.kind \in {"poll", "window"} =>
        LET Effective(t) == IF Layout = 2 THEN instants[t].completion ELSE t
            Asked == {t \in committedThen \ archivedThen :
                        query.start < Effective(t) /\ Effective(t) <= query.end}
        IN  /\ Rows \subseteq Asked
            /\ (Asked \cap data) \ ReplacedBy(committedThen) \subseteq Rows

(* A consumer polling from its checkpoint is never given the same commit    *)
(* twice (the window is open at its start).                                 *)
NoCommitTwice ==
    pc = "list" /\ query.kind = "poll" => Rows \cap delivered = {}

(* Nothing falls behind the checkpoint: on layout 2 every commit still in   *)
(* the active timeline that completed at or before the checkpoint has been  *)
(* delivered, unless its file group was replaced, although commits complete *)
(* out of requested order (TimelineSelector::select_by_completion_time).    *)
NothingBehindCheckpoint ==
    Layout = 2 =>
        \A t \in Completed \cap data :
            instants[t].completion <= checkpoint =>
                t \in delivered \cup ReplacedBy(Committed)

(* On layout 2 a consumer that keeps polling is eventually given every      *)
(* commit, unless the commit is archived or its file group replaced first:  *)
(* the default end of the window reaches the newest commit even when no     *)
(* later one follows (Table::resolve_incremental_range).                    *)
EventuallyDelivered ==
    \A t \in Times :
        t \in Completed ~> \/ t \in delivered
                           \/ t \notin Completed
                           \/ t \in ReplacedBy(Committed)

(* No read returns rows of an instant that was pending when the table was   *)
(* opened (TimelineView::is_committed).                                     *)
PendingNeverRead == pc = "list" => Rows \cap pendingThen = {}
=============================================================================
