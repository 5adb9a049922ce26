----------------------------- MODULE MCTimeline -----------------------------
(* Small instances of Timeline for TLC. *)
EXTENDS Timeline

Writes == {"deltacommit", "replacecommit"}
WithCompaction == {"deltacommit", "compaction"}

SnapshotReads == {"snapshot"}
IncrementalReads == {"poll", "window"}

(* Time travel to an early instant, and one window below the default end. *)
SomeAsOf == {2}
SomeWindows == {[start |-> 1, end |-> 4]}
NoAsOf == {}
NoWindows == {}
=============================================================================
