----------------------------- MODULE FileSlices -----------------------------
(***************************************************************************)
(* How a file group is put together from listed files.  A base file starts *)
(* a slice, keyed by the instant that requested it; a log file joins the   *)
(* slice that was current when the log file's commit completed.  Files are *)
(* named by their instant; comp gives the completion time of an instant,   *)
(* or NoTime where the loaded timeline does not know it.                   *)
(***************************************************************************)
EXTENDS Integers, FiniteSetsExt, SequencesExt

NoTime == 0
NoSlice == [base |-> FALSE, key |-> NoTime, logs |-> {}]

(* LogFile::cmp: known completion times first, in their order.             *)
LogBefore(comp, l, m) ==
    IF comp[l] # NoTime /\ comp[m] # NoTime THEN comp[l] < comp[m]
    ELSE IF comp[l] = NoTime /\ comp[m] = NoTime THEN l < m
    ELSE comp[l] # NoTime

(* Fault: a log file joins the slice current when it was requested.        *)
CurrentWhenRequested(comp, l) == l

(* The time by which a log file looks for its slice.                       *)
CurrentWhen(comp, l) == IF comp[l] # NoTime THEN comp[l] ELSE l

KeysUpTo(group, t) == {k \in DOMAIN group : k <= t}

(* Nothing to join: the log file starts a slice without a base file.       *)
AddLogFile(comp, group, l) ==
    LET keys == KeysUpTo(group, CurrentWhen(comp, l))
    IN  IF keys # {}
        THEN [group EXCEPT ![Max(keys)].logs = @ \cup {l}]
        ELSE [k \in DOMAIN group \cup {l} |->
                 IF k \in DOMAIN group THEN group[k]
                 ELSE [base |-> FALSE, key |-> l, logs |-> {l}]]

AddBaseFiles(bases) ==
    [b \in bases |-> [base |-> TRUE, key |-> b, logs |-> {}]]

(* The log files go in in the order of LogFile::cmp.                       *)
LastLog(comp, ls) == CHOOSE l \in ls : \A m \in ls \ {l} : LogBefore(comp, m, l)

AddLogFiles(comp, group, logs) ==
    MapThenFoldSet(LAMBDA l, g : AddLogFile(comp, g, l), group,
                   LAMBDA l : l, LAMBDA ls : LastLog(comp, ls), logs)

FileGroup(comp, bases, logs) == AddLogFiles(comp, AddBaseFiles(bases), logs)

SliceAsOf(group, t) ==
    IF KeysUpTo(group, t) = {} THEN NoSlice ELSE group[Max(KeysUpTo(group, t))]
=============================================================================
