---------------------------- MODULE MCTableRead ----------------------------
EXTENDS TableRead

CONSTANTS p1, p2, g1, g2, g3

MCPartitionOf == (g1 :> p1) @@ (g2 :> p1) @@ (g3 :> p2)
MCLogBytes == (g1 :> 0) @@ (g2 :> 2) @@ (g3 :> 2)

(* Everything, merged or as a stream; a filtered read at an earlier time,  *)
(* when g2 had no slice; a filtered one of base files only; and another at *)
(* a later time, when g1 is replaced and its statistics match no more.     *)
Full == [parts |-> Partitions, sliced |-> Groups, replaced |-> {},
         matching |-> Groups, unsized |-> {}, baseOnly |-> FALSE,
         stream |-> FALSE]
Stream == [Full EXCEPT !.stream = TRUE]
Early == [Full EXCEPT !.sliced = {g1, g3}, !.matching = {g3},
                      !.unsized = {g1}]
Optimised == [Full EXCEPT !.parts = {p1}, !.matching = {g1},
                          !.baseOnly = TRUE]
Later == [Optimised EXCEPT !.replaced = {g1}, !.matching = {g2}]

MCRequests == {Full, Stream, Early, Optimised, Later}
MCSharedRequests == {Full, Optimised}
=============================================================================
