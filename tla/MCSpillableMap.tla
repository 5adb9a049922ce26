--------------------------- MODULE MCSpillableMap ---------------------------
(* Instances of SpillableMap for TLC. *)
EXTENDS SpillableMap

(* Which key and which address is immaterial: victims tie-break on any order. *)
Symmetry == Permutations(Keys) \cup Permutations(Batches)
=============================================================================
