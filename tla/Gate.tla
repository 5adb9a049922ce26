-------------------------------- MODULE Gate --------------------------------
(***************************************************************************)
(* The completion gate: how a reader of a table below version 8 tells a    *)
(* log block of a committed instant from one that never finished.  The     *)
(* timeline fills the gate (Timeline), the log scan asks it (LogScan).     *)
(* Instants are positive naturals; 0 is "no such instant".                 *)
(***************************************************************************)
EXTENDS Naturals

NoInstant == 0

(* CompletionGate::admits, with the admit-all fallback of is_unpopulated. *)
GateAdmits(g, i) ==
    \/ ~g.armed
    \/ g.completed = {} /\ g.boundary = NoInstant
    \/ /\ i \in g.completed \/ (g.boundary # NoInstant /\ i < g.boundary)
       /\ i \notin g.inflight

=============================================================================
