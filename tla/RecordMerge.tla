---------------------------- MODULE RecordMerge ----------------------------
(***************************************************************************)
(* The rules by which two versions of one record become one: ordering      *)
(* values and their comparison, the mergers of the two ordering modes, the *)
(* decision of the vectorised kernel, and the ways in which a record that  *)
(* carries only some columns, or placeholder values, is completed from the *)
(* other version.                                                          *)
(*                                                                         *)
(* A version is a record [key, del, ord, id, row].  key is the envelope's  *)
(* record key; row is a function from the columns the version carries to   *)
(* their values, and id what the key columns of that row spell.  A         *)
(* tombstone has an envelope only.                                         *)
(***************************************************************************)
EXTENDS Integers

CONSTANTS Columns,  \* the non-key columns of the reader schema
          Hole,     \* the column value a partial-update mode must fill:
                    \* a declared default, or the unavailable-value sentinel
          Null      \* the value a column absent from every version is given

(***************************************************************************)
(* Ordering values.  "none" is an absent one, "default" a null field read  *)
(* as zero, "long" a number; "other" stands for any further class, which   *)
(* compares with its own kind only.                                        *)
(***************************************************************************)
OrderClasses == {"none", "default", "long", "other"}
Order(class, n) == [class |-> class, n |-> n]
NoOrder == Order("none", 0)
DefaultOrder == Order("default", 0)

IsDefaultOrder(o) == o.class \in {"none", "default"}

(* Fault: a null ordering field, read as zero, is a class of its own.      *)
SameClassStrict(a, b) == a.class = b.class

SameClass(a, b) ==
    \/ a.class = b.class
    \/ {a.class, b.class} = {"default", "long"}

BothOrdered(a, b) == a.class # "none" /\ b.class # "none"

(* b is there, of a's class, and strictly above it.                        *)
OutrankedBy(a, b) == BothOrdered(a, b) /\ SameClass(a, b) /\ b.n > a.n

Data(k, o, id, r) ==
    [key |-> k, del |-> FALSE, ord |-> o, id |-> id, row |-> r]
Tombstone(k, o) ==
    [key |-> k, del |-> TRUE, ord |-> o, id |-> k, row |-> << >>]

(* A delete without an ordering of its own applies by arrival.             *)
CommitTimeDelete(v) == v.del /\ IsDefaultOrder(v.ord)

----------------------------------------------------------------------------
(* The mergers of the two modes.                                           *)

(* Fault: of two versions with one ordering value the older is kept.       *)
ShouldKeepNewerStrict(old, new) ==
    \/ CommitTimeDelete(new)
    \/ CommitTimeDelete(old)
    \/ ~BothOrdered(new.ord, old.ord)
    \/ ~SameClass(new.ord, old.ord)
    \/ new.ord.n > old.ord.n

ShouldKeepNewer(old, new) ==
    \/ CommitTimeDelete(new)
    \/ CommitTimeDelete(old)
    \/ ~OutrankedBy(new.ord, old.ord)

NewWins(mode, old, new) == mode = "commit" \/ ShouldKeepNewer(old, new)

DeltaMerge(mode, new, old) == IF NewWins(mode, old, new) THEN new ELSE old

(* Fault: a late delete block removes whatever is there.                   *)
DeleteAppliesAlways(mode, del, old) == TRUE

(* Whether a record of a delete block replaces the buffered version.       *)
DeleteApplies(mode, del, old) ==
    \/ mode = "commit"
    \/ /\ ~CommitTimeDelete(old)
       /\ IsDefaultOrder(del.ord) \/ ~OutrankedBy(del.ord, old.ord)

DeltaMergeDelete(mode, del, old) ==
    IF DeleteApplies(mode, del, old) THEN del ELSE old

FinalMerge(mode, older, newer) == DeltaMerge(mode, newer, older)

(* Fault: a delete is compared like data, so one ordered at zero loses.    *)
PickWinnerByValue(mode, log, baseOrd) ==
    IF mode # "commit" /\ OutrankedBy(log.ord, baseOrd) THEN "base"
    ELSE IF log.del THEN "log_delete" ELSE "log_data"

(* The kernel decides from the base row's ordering value alone.            *)
PickWinner(mode, log, baseOrd) ==
    IF log.del
    THEN IF /\ mode # "commit"
            /\ ~IsDefaultOrder(log.ord)
            /\ OutrankedBy(log.ord, baseOrd)
         THEN "base" ELSE "log_delete"
    ELSE IF mode = "commit" \/ ~OutrankedBy(log.ord, baseOrd)
         THEN "log_data" ELSE "base"

----------------------------------------------------------------------------
(* Versions that do not carry every value.                                 *)

IsPartial(row) == \E c \in Columns : c \notin DOMAIN row

UnionColumns(incoming, prior) == DOMAIN prior \cup DOMAIN incoming

(* The columns of top over those of under; null where neither has one.     *)
Overlay(top, under, columns) ==
    [c \in columns |-> IF c \in DOMAIN top THEN top[c]
                       ELSE IF c \in DOMAIN under THEN under[c]
                       ELSE Null]

Pad(row) == Overlay(row, << >>, Columns)

(* IGNORE_DEFAULTS and FILL_UNAVAILABLE both complete the winner: a column *)
(* that holds the placeholder takes the other version's value, if it has   *)
(* the column.                                                             *)
FillPartial(target, source) ==
    [target EXCEPT !.row =
        [c \in DOMAIN target.row |->
            IF target.row[c] = Hole /\ c \in DOMAIN source.row
            THEN source.row[c] ELSE target.row[c]]]

(* Fault: the folded record keeps the ordering value of the loser.         *)
FoldNarrowLoserOrder(mode, new, old) ==
    LET columns == UnionColumns(new.row, old.row)
    IN  IF NewWins(mode, old, new)
        THEN [new EXCEPT !.ord = old.ord,
                         !.row = Overlay(new.row, old.row, columns)]
        ELSE [new EXCEPT !.row = Overlay(old.row, new.row, columns)]

(* A narrow version is folded with the prior one: the winner supplies the  *)
(* columns it carries, the loser the others, and the result stands at the  *)
(* winner's place in the order.                                            *)
FoldNarrow(mode, new, old) ==
    LET columns == UnionColumns(new.row, old.row)
    IN  IF NewWins(mode, old, new)
        THEN [new EXCEPT !.row = Overlay(new.row, old.row, columns)]
        ELSE [new EXCEPT !.ord = old.ord,
                         !.row = Overlay(old.row, new.row, columns)]

(* Fault: only a winning newcomer is completed; a prior that wins is not.  *)
FoldFilledForward(mode, new, old) ==
    IF NewWins(mode, old, new) THEN FillPartial(new, old) ELSE old

(* Both directions: the winner is completed from the loser.                *)
FoldFilled(mode, new, old) ==
    IF NewWins(mode, old, new) THEN FillPartial(new, old)
                               ELSE FillPartial(old, new)

(* process_next_data_record: what replaces the buffered version old, given *)
(* that there is one.                                                      *)
MergeData(mode, fill, new, old) ==
    IF ~new.del /\ IsPartial(new.row)
    THEN IF old.del THEN DeltaMerge(mode, new, old)
                    ELSE FoldNarrow(mode, new, old)
    ELSE IF fill THEN FoldFilled(mode, new, old)
                 ELSE DeltaMerge(mode, new, old)

(* Fault: a base row that wins keeps its placeholders.                     *)
MergeBaseRowOneWay(mode, fill, base, log) ==
    CASE PickWinner(mode, log, base.ord) = "log_delete" ->
            Tombstone(log.key, log.ord)
      [] PickWinner(mode, log, base.ord) = "base" -> base
      [] OTHER ->
            IF IsPartial(log.row)
            THEN Data(log.key, log.ord, log.id,
                      Overlay(log.row, base.row, Columns))
            ELSE IF fill THEN FillPartial(log, base) ELSE log


(* merge_one_base_batch_kernel: what a base row and its log version give,  *)
(* a tombstone when the row goes.                                          *)
MergeBaseRow(mode, fill, base, log) ==
    CASE PickWinner(mode, log, base.ord) = "log_delete" ->
            Tombstone(log.key, log.ord)
      [] PickWinner(mode, log, base.ord) = "base" ->
            IF fill /\ ~log.del THEN FillPartial(base, log) ELSE base
      [] OTHER ->
            IF IsPartial(log.row)
            THEN Data(log.key, log.ord, log.id,
                      Overlay(log.row, base.row, Columns))
            ELSE IF fill THEN FillPartial(log, base) ELSE log
=============================================================================
