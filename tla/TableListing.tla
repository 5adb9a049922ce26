---------------------------- MODULE TableListing ----------------------------
(***************************************************************************)
(* Which files of a file group a snapshot read merges, while writers,      *)
(* compactions, rollbacks, the cleaner and the archiver go on.  The reader *)
(* loads the data timeline, some time later the metadata table, which it   *)
(* keeps, and at each read lists the pending instants afresh.  It takes    *)
(* the files from the metadata table's records, of the instants it holds   *)
(* valid, or from storage, drops those that are not committed, places log  *)
(* files into slices and reads the slice current at its timestamp.         *)
(*                                                                         *)
(* The writers are not in this repository: their actions are the protocol  *)
(* the reader relies on.  One file group on timeline layout 2; every write *)
(* has one file, named by its instant.                                     *)
(***************************************************************************)
EXTENDS FileSlices, Sequences

CONSTANTS MaxTime,     \* bound on the clock
          MaxInstants  \* bound on the instants requested

ASSUME TableListingAssumption == {MaxTime, MaxInstants} \subseteq Nat \ {0}

Times == 1 .. MaxTime

VARIABLES
    now,       \* last timestamp handed out
    instants,  \* what became of each instant
    cleaned,   \* the compaction up to which old slices were removed
    bases,     \* base files on storage
    logs,      \* log files on storage
    mdt,       \* files partition of the metadata table: base file and blocks
    reader

vars == <<now, instants, cleaned, bases, logs, mdt, reader>>

Unused == [kind |-> "none", state |-> "none", done |-> NoTime, over |-> {}]
Requesting(kind, over) ==
    [kind |-> kind, state |-> "open", done |-> NoTime, over |-> over]

InState(S) == {t \in Times : instants[t].state \in S}
OfKind(K) == {t \in Times : instants[t].kind \in K}

Commits == {"insert", "write", "compact"}
Running == InState({"open", "logged"})
Pending == InState({"open", "logged", "failed"})
Completed == InState({"completed"})
Committed == InState({"completed", "archived"})
Writes == OfKind({"insert", "write"})

NoReader == [pc |-> "closed", completed |-> {}, boundary |-> NoTime,
             asOf |-> NoTime, seen |-> {}, mdt |-> << >>, pending |-> {},
             viaMdt |-> FALSE, bases |-> {}, logs |-> {}]

Init ==
    /\ now = 0
    /\ instants = [t \in Times |-> Unused]
    /\ cleaned = NoTime
    /\ bases = {} /\ logs = {}
    /\ mdt = [base |-> << >>, blocks |-> << >>]
    /\ reader = NoReader

----------------------------------------------------------------------------
(* Writers and table services.                                             *)

MayRequest ==
    /\ now < MaxTime
    /\ Cardinality({t \in Times : instants[t] # Unused}) < MaxInstants

Request(kind, over) ==
    /\ now' = now + 1
    /\ instants' = [instants EXCEPT ![now + 1] = Requesting(kind, over)]

(* The first write may put its rows into a base file.                      *)
Insert ==
    /\ now = 0 /\ MayRequest
    /\ Request("insert", {1})
    /\ bases' = {1}
    /\ UNCHANGED <<cleaned, logs, mdt, reader>>

(* A group takes log files once its base file is committed.                *)
Write ==
    /\ MayRequest
    /\ Pending \cap OfKind({"insert"}) = {}
    /\ Request("write", {now + 1})
    /\ logs' = logs \cup {now + 1}
    /\ UNCHANGED <<cleaned, bases, mdt, reader>>

(* A compaction merges what has completed when it is requested.            *)
Compact ==
    /\ MayRequest
    /\ Pending \cap OfKind({"compact"}) = {}
    /\ \E w \in Writes \cap Committed :
          \A c \in Committed \cap OfKind({"compact"}) :
             w \notin instants[c].over
    /\ Request("compact", Writes \cap Committed)
    /\ bases' = bases \cup {now + 1}
    /\ UNCHANGED <<cleaned, logs, mdt, reader>>

(* A write whose writer died, at whatever point, is rolled back.           *)
Rollback ==
    /\ MayRequest
    /\ \E t \in Running \cap OfKind({"write"}) :
          /\ now' = now + 1
          /\ instants' = [instants EXCEPT
                 ![t].state = "failed",
                 ![now + 1] = Requesting("rollback", {t})]
          /\ logs' = logs \ {t}
    /\ UNCHANGED <<cleaned, bases, mdt, reader>>

(* The cleaner removes slices that a completed compaction superseded, but  *)
(* none that an open reader may still have to read.                        *)
Superseded(c) ==
    {b \in bases : b < c} \cup
    {l \in logs \cap Committed : instants[l].done < c}

Clean ==
    /\ MayRequest
    /\ \E c \in Committed \cap OfKind({"compact"}) :
          /\ Superseded(c) \cap Committed # {}
          /\ reader.pc # "closed" => c \in reader.seen /\ c <= reader.asOf
          /\ Request("clean", Superseded(c) \cap Committed)
          /\ bases' = bases \ Superseded(c)
          /\ logs' = logs \ Superseded(c)
          /\ cleaned' = Max({cleaned, c})
    /\ UNCHANGED <<mdt, reader>>

(* The metadata table is written before the data instant completes.        *)
LogToMetadata(t) ==
    /\ instants[t].state = "open"
    /\ instants' = [instants EXCEPT ![t].state = "logged"]
    /\ mdt' = [mdt EXCEPT !.blocks = Append(@,
           [at |-> t,
            files |-> IF instants[t].kind \in Commits
                      THEN [f \in {t} |-> FALSE]
                      ELSE [f \in instants[t].over |-> TRUE]])]
    /\ UNCHANGED <<now, cleaned, bases, logs, reader>>

CompleteCommit(t) ==
    /\ instants[t].kind \in Commits /\ instants[t].state = "logged"
    /\ now < MaxTime
    /\ now' = now + 1
    /\ instants' = [instants EXCEPT ![t].state = "completed",
                                    ![t].done = now + 1]
    /\ UNCHANGED <<cleaned, bases, logs, mdt, reader>>

(* Nothing looks at the completion time of a clean or a rollback.  A       *)
(* completed rollback leaves nothing of what it rolled back.               *)
CompleteService(t) ==
    /\ instants[t].kind \in {"clean", "rollback"}
    /\ instants[t].state = "logged"
    /\ instants' = [u \in Times |->
           IF u = t THEN [instants[t] EXCEPT !.state = "completed"]
           ELSE IF instants[t].kind = "rollback" /\ u \in instants[t].over
           THEN [instants[u] EXCEPT !.state = "gone"]
           ELSE instants[u]]
    /\ UNCHANGED <<now, cleaned, bases, logs, mdt, reader>>

(* The archiver takes the oldest instant, when it has completed, keeps a   *)
(* completed commit, and keeps one below every pending compaction.         *)
Archive(t) ==
    LET kept == (Completed \cup Pending) \ {t}
    IN  /\ instants[t].state = "completed"
        /\ \A u \in kept : t < u
        /\ kept \cap Completed \cap OfKind(Commits) # {}
        /\ \A c \in Pending \cap OfKind({"compact"}) :
              \E u \in kept \cap Completed \cap OfKind(Commits) : u < c
        /\ instants' = [instants EXCEPT ![t].state = "archived"]
        /\ UNCHANGED <<now, cleaned, bases, logs, mdt, reader>>

----------------------------------------------------------------------------
(* The metadata table's records.  A record maps files to whether the entry *)
(* is a tombstone.                                                         *)

(* fold_filesystem_metadata: a tombstone cancels a live entry.             *)
FoldRecords(older, newer) ==
    LET cancelled == {f \in DOMAIN newer : /\ newer[f]
                                           /\ f \in DOMAIN older /\ ~older[f]}
    IN  [f \in (DOMAIN older \cup DOMAIN newer) \ cancelled |->
            IF f \in DOMAIN newer THEN newer[f] ELSE older[f]]

(* The log records of the blocks at some positions are merged with one     *)
(* another, in order, before they meet the base file.                      *)
LogRecord(m, ps) ==
    MapThenFoldSet(LAMBDA b, r : FoldRecords(r, b.files), << >>,
                   LAMBDA i : m.blocks[i], LAMBDA S : Max(S), ps)
MergedRecord(m, ps) == FoldRecords(m.base, LogRecord(m, ps))
ActiveFiles(record) == {f \in DOMAIN record : ~record[f]}

(* The metadata table is compacted when no data instant is pending.        *)
CompactMetadata ==
    /\ mdt.blocks # << >>
    /\ Pending = {}
    /\ mdt' = [base |-> MergedRecord(mdt, DOMAIN mdt.blocks), blocks |-> << >>]
    /\ UNCHANGED <<now, instants, cleaned, bases, logs, reader>>

----------------------------------------------------------------------------
(* The reader.                                                             *)

Min0(S) == IF S = {} THEN NoTime ELSE Min(S)

(* Pending compactions are not among the actions the timeline loads.       *)
LoadedActions == OfKind(Commits) \ (Pending \cap OfKind({"compact"}))

Open(t) ==
    /\ reader.pc = "closed"
    /\ Completed \cap LoadedActions # {}
    /\ t \in cleaned .. now
    /\ reader' = [NoReader EXCEPT
           !.pc = "open",
           !.completed = Completed \cap LoadedActions,
           !.boundary = Min((Completed \cup Pending) \cap LoadedActions),
           !.seen = Committed,
           !.asOf = t]
    /\ UNCHANGED <<now, instants, cleaned, bases, logs, mdt>>

(* get_or_init_metadata_table: kept for later reads.                       *)
OpenMetadata ==
    /\ reader.pc = "open"
    /\ reader' = [reader EXCEPT !.pc = "mdt", !.mdt = mdt]
    /\ UNCHANGED <<now, instants, cleaned, bases, logs, mdt>>

(* all_pending_instant_times, over every action.                           *)
ListPending ==
    /\ reader.pc = "mdt"
    /\ reader' = [reader EXCEPT !.pc = "pending", !.pending = Pending]
    /\ UNCHANGED <<now, instants, cleaned, bases, logs, mdt>>

BlockInstants == {reader.mdt.blocks[i].at : i \in DOMAIN reader.mdt.blocks}

(* Fault: only instants of the data timeline are valid.                    *)
NoMdtDeltaCommits == {}

(* Source 2.                                                               *)
ValidFromMdtDeltaCommits == BlockInstants \ reader.pending

(* Source 3, of rollbacks after the earliest of the others.                *)
RolledBack(earliest) ==
    UNION {instants[r].over : r \in {u \in Completed \cap
                                     OfKind({"rollback"}) : u > earliest}}

ValidInstants ==
    LET known == reader.completed \cup ValidFromMdtDeltaCommits
    IN  known \cup RolledBack(Min0(known))

MetadataFiles ==
    LET valid == ValidInstants
    IN  ActiveFiles(MergedRecord(reader.mdt,
            {i \in DOMAIN reader.mdt.blocks :
                reader.mdt.blocks[i].at \in valid}))

IsCommitted(t) == t \in reader.completed \/ t < reader.boundary

List(viaMdt, bs, ls) ==
    reader' = [reader EXCEPT !.pc = "listed", !.viaMdt = viaMdt,
                             !.bases = {b \in bs : IsCommitted(b)},
                             !.logs = {l \in ls : IsCommitted(l)}]

IsBase(f) == instants[f].kind \in {"insert", "compact"}

ListFromMetadata ==
    /\ reader.pc = "pending"
    /\ LET files == MetadataFiles
       IN  List(TRUE, {f \in files : IsBase(f)}, {f \in files : ~IsBase(f)})
    /\ UNCHANGED <<now, instants, cleaned, bases, logs, mdt>>

(* Without a metadata table, or when it cannot be opened.                  *)
ListFromStorage ==
    /\ reader.pc = "open"
    /\ List(FALSE, bases, logs)
    /\ UNCHANGED <<now, instants, cleaned, bases, logs, mdt>>

ReadAgain ==
    /\ reader.pc = "listed"
    /\ reader' = [reader EXCEPT !.pc = IF reader.viaMdt THEN "mdt"
                                       ELSE "open",
                                !.bases = {}, !.logs = {}, !.pending = {}]
    /\ UNCHANGED <<now, instants, cleaned, bases, logs, mdt>>

Next ==
    \/ Insert \/ Write \/ Compact \/ Rollback \/ Clean \/ CompactMetadata
    \/ \E t \in Times : \/ LogToMetadata(t) \/ CompleteCommit(t)
                       \/ CompleteService(t) \/ Archive(t)
    \/ \E t \in Times : Open(t)
    \/ OpenMetadata \/ ListPending \/ ListFromMetadata \/ ListFromStorage
    \/ ReadAgain

Spec == Init /\ [][Next]_vars

----------------------------------------------------------------------------
(* What the reader makes of the files.                                     *)

(* The loaded timeline has no completion times of archived instants.       *)
KnownCompletion ==
    [t \in Times |-> IF t \in reader.completed THEN instants[t].done
                     ELSE NoTime]

(* The metadata path drops a group that has no base file.                  *)
Slice(bs, ls) ==
    IF reader.viaMdt /\ bs = {} THEN NoSlice
    ELSE SliceAsOf(FileGroup(KnownCompletion, bs, ls), reader.asOf)

InBase(s) == IF s.base THEN instants[s.key].over ELSE {}

(* Blocks requested after the read's timestamp are gated out.              *)
InLogs(s) == {l \in s.logs : l <= reader.asOf}

Merged(s) == InBase(s) \cup InLogs(s)

Exact(s) ==
    /\ InBase(s) \cap InLogs(s) = {}
    /\ Merged(s) \subseteq {w \in reader.seen : w <= reader.asOf}
    /\ \A w \in Writes \cap reader.seen :
          \/ instants[w].done <= reader.asOf
          \/ Max(reader.completed) <= reader.asOf
          => w \in Merged(s)

(* No archived log file is placed by its requested time where its          *)
(* completion time would have placed it elsewhere.                         *)
Archived == reader.logs \ reader.completed
PlacedAlike ==
    \A l \in Archived :
        /\ {b \in reader.bases : b <= l} # {}
        /\ {b \in reader.bases : l < b /\ b <= instants[l].done} = {}

(* A read merges every write that completed by its timestamp exactly once, *)
(* out of the base file or out of a log file, and none that was requested  *)
(* after it, rolled back or not committed when the table was opened; one   *)
(* at or above the latest commit merges all that are committed.  A         *)
(* compaction may be under way or complete out of order, instants may be   *)
(* archived or slices cleaned meanwhile; the listing may be either.        *)
EachWriteOnce ==
    reader.pc = "listed" /\ PlacedAlike /\ (reader.viaMdt =>
                                                reader.bases # {}) =>
        Exact(Slice(reader.bases, reader.logs))

(* The same wherever completion times are unknown, as add_log_files in     *)
(* file_group/mod.rs promises: its order keeps a group without a base file *)
(* in one slice.                                                           *)
EachWriteOnceArchived ==
    reader.pc = "listed" /\ ~reader.viaMdt =>
        Exact(Slice(reader.bases, reader.logs))

(* The metadata table, loaded at another moment than the timeline and kept *)
(* since, leads to the same slice as a listing of storage does now.        *)
ListingsAgree ==
    reader.pc = "listed" /\ reader.viaMdt /\ reader.bases # {} =>
        Slice(reader.bases, reader.logs) =
            Slice({b \in bases : IsCommitted(b)},
                  {l \in logs : IsCommitted(l)})
=============================================================================
