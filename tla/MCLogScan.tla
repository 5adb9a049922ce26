----------------------------- MODULE MCLogScan -----------------------------
(***************************************************************************)
(* Instances of LogScan for TLC.  Logs are every well-formed sequence of   *)
(* up to MaxBlocks blocks drawn from a small vocabulary, cut into two      *)
(* files, each under several readers.                                      *)
(***************************************************************************)
EXTENDS LogScan

CONSTANTS MaxBlocks   \* longest log enumerated

Data(i) == [type |-> "data", instant |-> i, target |-> NoInstant,
            compacted |-> {}, len |-> 1]
Delete(i) == [Data(i) EXCEPT !.type = "delete", !.len = 2]
Compacted(i, S) == [Data(i) EXCEPT !.compacted = S, !.len = 3]
Rollback(i, t) == [Data(i) EXCEPT !.type = "rollback", !.target = t, !.len = 0]
Command(i) == [Data(i) EXCEPT !.type = "command", !.len = 0]
Corrupt == [Data(NoInstant) EXCEPT !.type = "corrupt", !.len = 0]

(***************************************************************************)
(* What Hudi writers append: a log compaction follows every block of the   *)
(* instants it compacted, and an instant is compacted at most once.        *)
(***************************************************************************)
WellFormed(log) ==
    \A m \in DOMAIN log : \A i \in log[m].compacted :
        \A n \in DOMAIN log :
            /\ n > m => log[n].instant # i
            /\ n # m => i \notin log[n].compacted

Vocabulary == {Data(1), Data(2), Delete(2), Data(3),
               Compacted(3, {1, 2}), Compacted(2, {1}),
               Rollback(3, 2), Corrupt}

Logs == {log \in BoundedSeq(Vocabulary, MaxBlocks) : WellFormed(log)}

(* A few longer logs: nested compaction, interleaved and rewritten instants. *)
LongLogs ==
    { <<Data(1), Data(2), Compacted(3, {1, 2}), Data(4),
        Compacted(5, {3, 4})>>,
      <<Data(1), Data(2), Data(1), Data(4), Compacted(3, {1, 2}), Data(5)>>,
      <<Data(1), Delete(2), Rollback(3, 2), Data(2), Data(4), Delete(4)>>,
      <<Data(1), Compacted(2, {1}), Rollback(4, 2), Data(3), Delete(5)>>,
      <<Data(1), Data(2), Command(3), Corrupt, Rollback(3, NoInstant),
        Data(5)>> }

AnyGate == [armed |-> FALSE, completed |-> {}, inflight |-> {},
            boundary |-> NoInstant]
ArmedGate == [armed |-> TRUE, completed |-> {2, 3, 4, 5}, inflight |-> {4},
              boundary |-> 2]
HoleGate == [armed |-> TRUE, completed |-> {1, 3, 5}, inflight |-> {2},
             boundary |-> 1]

Readers == { [latest |-> 5, gate |-> AnyGate, range |-> Instants, skip |-> FALSE],
             [latest |-> 5, gate |-> ArmedGate, range |-> Instants, skip |-> FALSE],
             [latest |-> 2, gate |-> HoleGate, range |-> Instants, skip |-> FALSE],
             [latest |-> 5, gate |-> AnyGate, range |-> {2, 3}, skip |-> FALSE],
             [latest |-> 5, gate |-> AnyGate, range |-> Instants, skip |-> TRUE] }

Cut(log, n) == <<SubSeq(log, 1, n), SubSeq(log, n + 1, Len(log))>>

ScanOf(log, n, r) ==
    [files |-> Cut(log, n), latest |-> r.latest, gate |-> r.gate,
     range |-> r.range, skip |-> r.skip]

MCInputs ==
    {ScanOf(log, Len(log) \div 2, r) : log \in Logs \cup LongLogs, r \in Readers}
=============================================================================
