----------------------------- MODULE RecordMap -----------------------------
(***************************************************************************)
(* What the merge buffer is promised of its record map: a plain map from   *)
(* key to record that is written, read and emptied one key at a time, then *)
(* drained once, every record left in it coming out exactly once.  Where   *)
(* the records live and when they move is nobody's business here.          *)
(***************************************************************************)
EXTENDS Sequences

CONSTANTS Keys, Records

VARIABLES map,      \* key -> record, a function on the keys present
          yielded,  \* what the drain gave out, per key
          state     \* "open", "draining", "broken", "drained" or "failed"

vars == <<map, yielded, state>>

Init ==
    /\ map = << >>
    /\ yielded = [k \in Keys |-> << >>]
    /\ state = "open"

Put(k, r) ==
    /\ state = "open"
    /\ map' = [x \in DOMAIN map \cup {k} |-> IF x = k THEN r ELSE map[x]]
    /\ UNCHANGED <<yielded, state>>

Remove(k) ==
    /\ state = "open"
    /\ map' = [x \in DOMAIN map \ {k} |-> map[x]]
    /\ UNCHANGED <<yielded, state>>

Drain ==
    /\ state = "open"
    /\ state' = "draining"
    /\ UNCHANGED <<map, yielded>>

(* Records were lost: what is left may still come out, but not as a whole. *)
Break ==
    /\ state = "draining"
    /\ state' = "broken"
    /\ \E S \in SUBSET DOMAIN map : map' = [x \in S |-> map[x]]
    /\ UNCHANGED yielded

Yield(k) ==
    /\ state \in {"draining", "broken"}
    /\ k \in DOMAIN map
    /\ yielded' = [yielded EXCEPT ![k] = Append(@, map[k])]
    /\ map' = [x \in DOMAIN map \ {k} |-> map[x]]
    /\ UNCHANGED state

(* The drain ends without an error only once nothing is left and nothing is lost. *)
Drained ==
    /\ state \in {"open", "draining"}
    /\ DOMAIN map = {}
    /\ state' = "drained"
    /\ UNCHANGED <<map, yielded>>

(* An error ends the read; the map is dropped with it. *)
Fail ==
    /\ state \in {"open", "draining", "broken"}
    /\ state' = "failed"
    /\ map' = << >>
    /\ UNCHANGED yielded

Next ==
    \/ \E k \in Keys : \/ \E r \in Records : Put(k, r)
                       \/ Remove(k)
                       \/ Yield(k)
    \/ Drain
    \/ Break
    \/ Drained
    \/ Fail

Spec == Init /\ [][Next]_vars
=============================================================================
