--------------------------- MODULE MCRecordBuffer ---------------------------
(***************************************************************************)
(* One key in the base file, once or twice, and one that only the log has; *)
(* two columns; ordering values that tie, differ, and are null.            *)
(***************************************************************************)
EXTENDS RecordBuffer

CONSTANTS k1, k2

MCOrders == {DefaultOrder, Order("long", 1), Order("long", 2)}

RowAt(n, holes) == [key |-> k1, ord |-> Order("long", n), holes |-> holes]
Row(holes) == RowAt(1, holes)
MCRead(merge, fill, positions, rows) ==
    [mode |-> [merge |-> merge, fill |-> fill, sentinel |-> fill,
               positions |-> positions],
     base |-> rows]

MCReads ==
    {MCRead("commit", FALSE, TRUE, <<Row({}), Row({})>>),
     MCRead("commit", FALSE, FALSE, <<Row({})>>),
     MCRead("event", FALSE, TRUE, <<Row({})>>),
     MCRead("event", FALSE, FALSE, << >>),
     MCRead("commit", TRUE, TRUE, <<Row({"b"}), Row({})>>),
     MCRead("event", TRUE, FALSE, << >>),
     MCRead("event", TRUE, FALSE, <<RowAt(1, {"b"})>>),
     MCRead("event", TRUE, FALSE, <<RowAt(2, {"b"})>>)}
=============================================================================
